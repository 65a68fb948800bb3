-------------------------- MODULE MmChannelProofs --------------------------
(***************************************************************************)
(* Proofs about MmChannel, for every set of streams, every limit of the    *)
(* queue and every set of commands of the client: the queue of super       *)
(* buffers is bounded and its surplus can be dropped, what is asked for is *)
(* sent and in the order of the frames, no buffer is lost or returned      *)
(* twice, and the daemon does not stay in its snapshot mode.               *)
(***************************************************************************)
EXTENDS MmChannel, TLAPS, FiniteSetTheorems

NodeType == [frame : Frames, bufs : SUBSET Streams, expected : BOOLEAN]

ChannelType ==
  [nodes : Seq(NodeType), match_cnt : Int, mode : {"burst", "continuous"},
   expected : Nat, good : Nat, diverted : Nat, pending : Nat, retro : Nat,
   wait : BOOLEAN, led : BOOLEAN, zsl : BOOLEAN, manual : BOOLEAN,
   bracketing : {"off", "wait", "active"}, stop_zsl : BOOLEAN, burst : Nat, led_off : Nat,
   once : BOOLEAN, back : SUBSET (Streams \X Frames), sent : Seq(Frames)]

InfoType == [kind : {"none", "done", "future"}] \cup [kind : {"good", "divert"}, id : Frames]
DataType == [type : {"data"}, stream : Streams, frame : Frames, info : InfoType]
FlushType == [type : {"flush"}, frame : Nat]
ExitType == [type : {"exit"}]
CmdType == DataType \cup FlushType \cup ExitType \cup Commands

Phases == {"stopped", "active", "stopping", "flushing", "joining cmd", "joining cb"}

\* The types of the variables
Types ==
  /\ ch \in ChannelType /\ phase \in Phases /\ on \subseteq Streams
  /\ cmds \in Seq(CmdType) /\ posted \in Int /\ waiting \in BOOLEAN
  /\ supers \in Seq(Frames) /\ client \subseteq Streams \X Frames
  /\ out \in [Streams -> SUBSET Frames] /\ next \in [Streams -> Nat] /\ last \in Nat

-----------------------------------------------------------------------------
(* The inductive invariant.                                                *)

\* The frames of the nodes ascend
Ascending(q) == \A i, j \in DOMAIN q : i < j => q[i].frame < q[j].frame

\* The matched nodes come first, as many as match_cnt says, and the others are
\* not too many
Queue(c) ==
  /\ Ascending(c.nodes)
  /\ c.match_cnt \in 0 .. Len(c.nodes)
  /\ \A i \in DOMAIN c.nodes : Matched(c.nodes[i]) <=> i <= c.match_cnt
  /\ \A i \in DOMAIN c.nodes : c.nodes[i].bufs # {}
  /\ Len(c.nodes) - c.match_cnt <= MaxUnmatched + 1

\* No super buffer waits while some are asked for
Served(c) == (c.pending > 0 \/ c.mode = "continuous") /\ ~c.wait => c.match_cnt = 0

\* The daemon is in its snapshot mode only while some are pending
ZslFine(c) == c.zsl /\ ~c.manual => c.pending > 0

\* The channel between two commands
Channel(c) ==
  /\ Queue(c) /\ Served(c) /\ ZslFine(c)
  /\ c.back = {} /\ c.sent = <<>>
  /\ c.mode = "burst" => c.match_cnt <= WaterMark

\* The command brings the buffer of stream s for frame f
Brings(cmd, s, f) == cmd.type = "data" /\ cmd.stream = s /\ cmd.frame = f

\* Where this buffer can be: a sequence of commands, of nodes, of super buffers
Carries(q, s, f) == \E i \in DOMAIN q : Brings(q[i], s, f)
Has(q, s, f) == \E i \in DOMAIN q : q[i].frame = f /\ s \in q[i].bufs
Sends(q, f) == \E i \in DOMAIN q : q[i] = f

Increasing(q) == \A i, j \in DOMAIN q : i < j => q[i] < q[j]

\* The frames of each stream ascend
InTurn(q) ==
  \A i, j \in DOMAIN q : i < j => \A s, f, g : Brings(q[i], s, f) /\ Brings(q[j], s, g) => f < g

\* Along its way a buffer is overtaken by no later one of its stream
InOrder ==
  /\ InTurn(cmds) /\ Increasing(supers)
  /\ \A s \in Streams, f \in Frames : Carries(cmds, s, f) \/ Has(ch.nodes, s, f) => f <= next[s]
  /\ \A s \in Streams, f, g \in Frames : Has(ch.nodes, s, f) /\ Carries(cmds, s, g) => f < g
  /\ \A s \in Streams, f, g \in Frames :
       Sends(supers, f) /\ (Carries(cmds, s, g) \/ Has(ch.nodes, s, g)) => f < g
  /\ \A s \in Streams, f \in Frames :
       Carries(cmds, s, f) \/ Has(ch.nodes, s, f) \/ Sends(supers, f) => last < f
  /\ \A s \in Streams, f \in Frames : Sends(supers, f) => f <= next[s]
  /\ \A s \in Streams, f \in Frames : <<s, f>> \in client => f <= last
  /\ \A s \in Streams : last <= next[s]

\* What is over with the steps of a stop
Stopped ==
  /\ phase \in {"stopped", "flushing", "joining cmd", "joining cb"} => on = {}
  /\ phase \in {"stopped", "joining cb"} => cmds = <<>>
  /\ phase = "stopped" => ch.nodes = <<>> /\ supers = <<>>

\* A buffer that has not come back to its stream is somewhere, any other nowhere
Accounted ==
  \A s \in on, f \in Frames :
    f \in out[s] <=> \/ Carries(cmds, s, f) \/ Has(ch.nodes, s, f)
                    \/ Sends(supers, f) \/ <<s, f>> \in client

IInv == Types /\ Channel(ch) /\ InOrder /\ Stopped /\ Accounted

-----------------------------------------------------------------------------
(* Sets of numbers and sequences.                                          *)

\* The maximum of a set, once it is known.
LEMMA MaxIs ==
  ASSUME NEW S \in SUBSET Int, NEW m \in S, \A x \in S : x <= m
  PROVE  Max(S) = m
<1>1. \A x \in S : m >= x
  OBVIOUS
<1>2. \A y \in S : (\A x \in S : y >= x) => y = m
  BY <1>1
<1>3. Max(S) \in S /\ \A x \in S : Max(S) >= x
  BY <1>1 DEF Max
<1> QED
  BY <1>2, <1>3

\* The minimum of a set, once it is known.
LEMMA MinIs ==
  ASSUME NEW S \in SUBSET Int, NEW m \in S, \A x \in S : m <= x
  PROVE  Min(S) = m
<1>1. \A y \in S : (\A x \in S : y <= x) => y = m
  OBVIOUS
<1>2. Min(S) \in S /\ \A x \in S : Min(S) <= x
  BY DEF Min
<1> QED
  BY <1>1, <1>2

\* A set of numbers has a minimum.
LEMMA MinExists ==
  ASSUME NEW S \in SUBSET Nat, S # {}
  PROVE  Min(S) \in S /\ \A x \in S : Min(S) <= x
<1>1. PICK m \in S : \A x \in S : ~ (<<x, m>> \in OpToRel(<, Nat))
  BY NatLessThanWellFounded, WFMin
<1>2. \A x \in S : ~ (x < m)
  BY <1>1, Zenon DEF OpToRel
<1>3. \A x \in S : m <= x
  BY <1>2
<1> QED
  BY <1>3 DEF Min

\* The later of nothing and a frame id is a frame id or the bound.
LEMMA LaterType ==
  ASSUME NEW id \in Nat
  PROVE  Later(id) \in Nat
<1>1. MaxFrame + 1 \in Nat
  BY ConstantsAssumption
<1> QED
  BY <1>1, MinExists DEF Later

\* The size of an interval.
LEMMA IntervalSize ==
  ASSUME NEW a \in Int, NEW b \in Int, a <= b + 1
  PROVE  IsFiniteSet(a .. b) /\ Cardinality(a .. b) = b - a + 1
BY FS_Interval

\* The size of two disjoint sets together.
LEMMA DisjointSize ==
  ASSUME NEW S, IsFiniteSet(S), NEW T, IsFiniteSet(T), S \cap T = {}
  PROVE  Cardinality(S \cup T) = Cardinality(S) + Cardinality(T)
<1>1. Cardinality(S \cup T) = Cardinality(S) + Cardinality(T) - Cardinality(S \cap T)
  BY FS_Union
<1>2. Cardinality(S \cap T) = 0 /\ Cardinality(S) \in Nat /\ Cardinality(T) \in Nat
  BY FS_EmptySet, FS_CardinalityType
<1> QED
  BY <1>1, <1>2

\* The positions up to n but those from a to b
Rest(n, a, b) == (1 .. n) \ (a .. b)

\* The rest of the positions in ascending order.
LEMMA NthOfTheRest ==
  ASSUME NEW n \in Nat, NEW a \in Nat \ {0}, NEW b \in Nat, a <= b + 1, b <= n
  PROVE  /\ Cardinality(Rest(n, a, b)) = n - (b + 1 - a)
         /\ \A k \in 1 .. n - (b + 1 - a) :
              Nth(Rest(n, a, b), k) = IF k < a THEN k ELSE k + (b + 1 - a)
<1> DEFINE w == b + 1 - a
<1> PICK S : S = (1 .. n) \ (a .. b)
  OBVIOUS
<1>0. w \in Nat /\ w <= n
  OBVIOUS
<1>1. ASSUME NEW m \in 0 .. n
      PROVE  Cardinality({j \in S : j <= m}) =
               IF m < a THEN m ELSE IF m <= b THEN a - 1 ELSE m - w
  <2>1. CASE m < a
    <3>1. {j \in S : j <= m} = 1 .. m
      BY <2>1
    <3>2. Cardinality(1 .. m) = m
      BY IntervalSize
    <3> QED
      BY <2>1, <3>1, <3>2
  <2>2. CASE a <= m /\ m <= b
    <3>1. {j \in S : j <= m} = 1 .. (a - 1)
      BY <2>2
    <3>2. Cardinality(1 .. (a - 1)) = a - 1
      BY IntervalSize
    <3>3. Cardinality({j \in S : j <= m}) = a - 1
      BY <3>1, <3>2
    <3> QED
      BY <2>2, <3>3
  <2>3. CASE m >= a /\ m > b
    <3>1. {j \in S : j <= m} = (1 .. (a - 1)) \cup ((b + 1) .. m)
      BY <2>3
    <3>2. Cardinality(1 .. (a - 1)) = a - 1 /\ IsFiniteSet(1 .. (a - 1))
      BY IntervalSize
    <3>3. Cardinality((b + 1) .. m) = m - b /\ IsFiniteSet((b + 1) .. m)
      BY <2>3, IntervalSize
    <3>4. (1 .. (a - 1)) \cap ((b + 1) .. m) = {}
      OBVIOUS
    <3>5. Cardinality((1 .. (a - 1)) \cup ((b + 1) .. m)) = (a - 1) + (m - b)
      <4>1. PICK S1, S2 : S1 = 1 .. (a - 1) /\ S2 = (b + 1) .. m
        OBVIOUS
      <4>2. Cardinality(S1 \cup S2) = Cardinality(S1) + Cardinality(S2)
        BY <3>2, <3>3, <3>4, <4>1, DisjointSize
      <4> QED
        BY <3>2, <3>3, <4>1, <4>2
    <3> QED
      BY <2>3, <3>1, <3>5
  <2> QED
    BY <2>1, <2>2, <2>3
<1>2. Cardinality(S) = n - w
  <2>1. {j \in S : j <= n} = S
    OBVIOUS
  <2>2. CASE n < a
    BY <1>1, <2>1, <2>2
  <2>3. CASE a <= n /\ n <= b
    BY <1>1, <2>1, <2>3
  <2>4. CASE a <= n /\ n > b
    BY <1>1, <2>1, <2>4
  <2> QED
    BY <2>2, <2>3, <2>4
<1>3. ASSUME NEW k \in 1 .. n - w
      PROVE  Nth(S, k) = IF k < a THEN k ELSE k + w
  <2> DEFINE h == IF k < a THEN k ELSE k + w
  <2>1. h \in S
    BY <1>0
  <2>2. \A i \in S : Cardinality({j \in S : j <= i}) = IF i < a THEN i ELSE i - w
    <3> TAKE i \in S
    <3>1. i \in 0 .. n /\ (i < a \/ i > b)
      OBVIOUS
    <3>2. Cardinality({j \in S : j <= i}) = IF i < a THEN i ELSE IF i <= b THEN a - 1 ELSE i - w
      BY <1>1, <3>1
    <3> QED
      BY <3>1, <3>2
  <2>3. \A i \in S : (IF i < a THEN i ELSE i - w) = k <=> i = h
    BY <1>0
  <2>4. \A i \in S : Cardinality({j \in S : j <= i}) = k <=> i = h
    BY <2>2, <2>3, Zenon
  <2> HIDE DEF h
  <2>5. Nth(S, k) = h
    BY <2>1, <2>4 DEF Nth
  <2> QED
    BY <2>5 DEF h
<1> QED
  BY <1>2, <1>3 DEF Rest

\* A sequence without the positions from a to b
CutOut(q, a, b) ==
  [k \in 1 .. Len(q) - (b + 1 - a) |-> q[IF k < a THEN k ELSE k + (b + 1 - a)]]

\* The frame of a node is a number.
LEMMA FrameOf ==
  ASSUME NEW q \in Seq(NodeType), NEW i \in DOMAIN q
  PROVE  q[i] \in NodeType /\ q[i].frame \in Frames /\ q[i].frame \in Nat /\ q[i].bufs \subseteq Streams
<1>1. q[i] \in NodeType
  OBVIOUS
<1>2. q[i].frame \in Frames /\ q[i].bufs \subseteq Streams
  BY <1>1 DEF NodeType
<1>3. Frames \subseteq Nat
  BY ConstantsAssumption DEF Frames
<1> QED
  BY <1>1, <1>2, <1>3

\* Which nodes are left, and in which order.
LEMMA CutOutIs ==
  ASSUME NEW q \in Seq(NodeType), Ascending(q),
         NEW a \in Nat \ {0}, NEW b \in Nat, a <= b + 1, b <= Len(q)
  PROVE  LET d == CutOut(q, a, b)
         IN  /\ d \in Seq(NodeType) /\ Len(d) = Len(q) - (b + 1 - a) /\ Ascending(d)
             /\ \A k \in DOMAIN d : d[k] = IF k < a THEN q[k] ELSE q[k + (b + 1 - a)]
             /\ \A s, f : Has(d, s, f) <=>
                  Has(q, s, f) /\ ~ \E i \in a .. b : q[i].frame = f /\ s \in q[i].bufs
<1> DEFINE w == b + 1 - a
           m == Len(q) - w
           d == CutOut(q, a, b)
           h(k) == IF k < a THEN k ELSE k + w
<1>1. w \in Nat /\ m \in Nat /\ Len(q) \in Nat /\ DOMAIN q = 1 .. Len(q)
  OBVIOUS
<1>2. \A k \in 1 .. m : h(k) \in 1 .. Len(q) /\ ~(h(k) \in a .. b)
  BY <1>1
<1>3. d = [k \in 1 .. m |-> q[h(k)]]
  BY DEF CutOut
<1>4. \A k \in 1 .. m : q[h(k)] \in NodeType
  BY <1>1, <1>2
<1>5. d \in [1 .. m -> NodeType]
  BY <1>3, <1>4
<1>6. d \in Seq(NodeType) /\ Len(d) = m /\ DOMAIN d = 1 .. m
  BY <1>1, <1>5
<1>7. \A k \in 1 .. m : d[k] = q[h(k)]
  BY <1>3
<1>8. \A i, j \in 1 .. m : i < j => h(i) < h(j)
  BY <1>1
<1>10. \A i \in 1 .. Len(q) : i \in a .. b \/ \E k \in 1 .. m : h(k) = i
  <2> TAKE i \in 1 .. Len(q)
  <2>1. CASE i < a
    <3>1. i \in 1 .. m /\ h(i) = i
      BY <1>1, <2>1
    <3> QED
      BY <3>1
  <2>2. CASE i > b
    <3>1. i - w \in 1 .. m /\ h(i - w) = i
      BY <1>1, <2>2
    <3> QED
      BY <3>1
  <2> QED
    BY <2>1, <2>2
<1> HIDE DEF h, w, m
<1>9. Ascending(d)
  <2> SUFFICES ASSUME NEW i \in 1 .. m, NEW j \in 1 .. m, i < j
               PROVE  q[h(i)].frame < q[h(j)].frame
    BY <1>6, <1>7 DEF Ascending
  <2>1. h(i) \in DOMAIN q /\ h(j) \in DOMAIN q /\ h(i) < h(j)
    BY <1>1, <1>2, <1>8
  <2> QED
    BY <2>1 DEF Ascending
<1>11. ASSUME NEW s, NEW f
       PROVE  Has(d, s, f) <=>
                Has(q, s, f) /\ ~ \E i \in a .. b : q[i].frame = f /\ s \in q[i].bufs
  <2>1. ASSUME Has(d, s, f)
        PROVE  Has(q, s, f) /\ ~ \E i \in a .. b : q[i].frame = f /\ s \in q[i].bufs
    <3>1. PICK k \in 1 .. m : q[h(k)].frame = f /\ s \in q[h(k)].bufs
      BY <1>6, <1>7, <2>1 DEF Has
    <3>2. h(k) \in DOMAIN q /\ h(k) \notin a .. b
      BY <1>1, <1>2
    <3>3. \A i \in a .. b : q[i].frame # f
      <4> SUFFICES ASSUME NEW i \in a .. b, q[i].frame = f
                   PROVE  FALSE
        OBVIOUS
      <4>1. i \in DOMAIN q /\ i # h(k)
        BY <1>1, <3>2
      <4>2. i < h(k) \/ h(k) < i
        BY <1>1, <3>2, <4>1
      <4>3. q[i].frame \in Int /\ q[h(k)].frame \in Int
        BY <3>2, <4>1, FrameOf
      <4> QED
        BY <3>1, <3>2, <4>1, <4>2, <4>3 DEF Ascending
    <3> QED
      BY <3>1, <3>2, <3>3 DEF Has
  <2>2. ASSUME Has(q, s, f), ~ \E i \in a .. b : q[i].frame = f /\ s \in q[i].bufs
        PROVE  Has(d, s, f)
    <3>1. PICK i \in 1 .. Len(q) : q[i].frame = f /\ s \in q[i].bufs
      BY <1>1, <2>2 DEF Has
    <3>2. PICK k \in 1 .. m : h(k) = i
      BY <1>10, <2>2, <3>1
    <3> QED
      BY <1>6, <1>7, <3>1, <3>2 DEF Has
  <2> QED
    BY <2>1, <2>2
<1>12. \A k \in DOMAIN d : d[k] = IF k < a THEN q[k] ELSE q[k + (b + 1 - a)]
  BY <1>6, <1>7 DEF h, w
<1> QED
  BY <1>6, <1>9, <1>11, <1>12 DEF m, w

-----------------------------------------------------------------------------
(* The queue of a channel.                                                 *)

\* z is what is left of q without the nodes from a to b.
Cuts(q, z, a, b) ==
  /\ q \in Seq(NodeType) /\ Ascending(q)
  /\ a \in Nat \ {0} /\ b \in Nat /\ a <= b + 1 /\ b <= Len(q)
  /\ z = CutOut(q, a, b)

\* The same of a name for what is left: the nodes,
LEMMA CutsType ==
  ASSUME NEW q, NEW z, NEW a, NEW b, Cuts(q, z, a, b)
  PROVE  z \in Seq(NodeType) /\ Len(z) = Len(q) - (b + 1 - a) /\ Ascending(z)
<1>1. /\ q \in Seq(NodeType) /\ Ascending(q) /\ a \in Nat \ {0} /\ b \in Nat
      /\ a <= b + 1 /\ b <= Len(q) /\ z = CutOut(q, a, b)
  BY DEF Cuts
<1> QED
  BY <1>1, CutOutIs

\* their order,
LEMMA CutsOrder ==
  ASSUME NEW q, NEW z, NEW a, NEW b, Cuts(q, z, a, b)
  PROVE  \A k \in DOMAIN z : z[k] = IF k < a THEN q[k] ELSE q[k + (b + 1 - a)]
<1>1. /\ q \in Seq(NodeType) /\ Ascending(q) /\ a \in Nat \ {0} /\ b \in Nat
      /\ a <= b + 1 /\ b <= Len(q) /\ z = CutOut(q, a, b)
  BY DEF Cuts
<1>2. DOMAIN CutOut(q, a, b) = DOMAIN z
  BY <1>1
<1>3. SUFFICES ASSUME NEW k \in DOMAIN CutOut(q, a, b)
               PROVE  CutOut(q, a, b)[k] = IF k < a THEN q[k] ELSE q[k + (b + 1 - a)]
  BY <1>1
<1> QED
  BY <1>1, CutOutIs

\* and their buffers.
LEMMA CutsBuffers ==
  ASSUME NEW q, NEW z, NEW a, NEW b, Cuts(q, z, a, b)
  PROVE  \A s, f : Has(z, s, f) <=>
           Has(q, s, f) /\ ~ \E i \in a .. b : q[i].frame = f /\ s \in q[i].bufs
<1>1. /\ q \in Seq(NodeType) /\ Ascending(q) /\ a \in Nat \ {0} /\ b \in Nat
      /\ a <= b + 1 /\ b <= Len(q) /\ z = CutOut(q, a, b)
  BY DEF Cuts
<1> QED
  BY <1>1, CutOutIs

\* The matched nodes can all be dequeued, and the others are counted.
LEMMA LeadingIs ==
  ASSUME NEW c \in ChannelType, Queue(c)
  PROVE  /\ Leading(c) = c.match_cnt
         /\ Unmatched(c) = (c.match_cnt + 1) .. Len(c.nodes)
         /\ Cardinality(Unmatched(c)) = Len(c.nodes) - c.match_cnt
         /\ {i \in DOMAIN c.nodes : Matched(c.nodes[i])} = 1 .. c.match_cnt
         /\ Cardinality(1 .. c.match_cnt) = c.match_cnt
<1> DEFINE n == Len(c.nodes)
           m == c.match_cnt
<1>1. n \in Nat /\ m \in 0 .. n /\ DOMAIN c.nodes = 1 .. n
      /\ \A i \in 1 .. n : Matched(c.nodes[i]) <=> i <= m
  BY DEF ChannelType, Queue
<1>2. Leading(c) = m
  <2> DEFINE S == {k \in 0 .. n : \A i \in 1 .. k : Matched(c.nodes[i])}
  <2>1. m \in S
    BY <1>1
  <2>2. \A k \in S : k <= m
    BY <1>1
  <2>3. S \in SUBSET Int
    BY <1>1
  <2> HIDE DEF S
  <2>4. Max(S) = m
    BY <2>1, <2>2, <2>3, MaxIs
  <2> QED
    BY <2>4 DEF Leading, S
<1>3. Unmatched(c) = (m + 1) .. n
  BY <1>1 DEF Unmatched
<1>4. Cardinality((m + 1) .. n) = n - m
  <2>1. m + 1 \in Int /\ n \in Int /\ m + 1 <= n + 1 /\ n - (m + 1) + 1 = n - m
    BY <1>1
  <2> HIDE DEF m, n
  <2> QED
    BY <2>1, IntervalSize
<1>5. {i \in DOMAIN c.nodes : Matched(c.nodes[i])} = 1 .. m
  BY <1>1
<1>6. Cardinality(1 .. m) = m
  BY <1>1, IntervalSize
<1> QED
  BY <1>2, <1>3, <1>4, <1>5, <1>6

\* What is neither the queue nor what is given back
Others(c, d) ==
  /\ d.sent = c.sent /\ d.mode = c.mode /\ d.pending = c.pending /\ d.retro = c.retro
  /\ d.wait = c.wait /\ d.zsl = c.zsl /\ d.manual = c.manual

\* What is neither of them nor the state of the snapshot mode
QueueKept(c, d) ==
  d.nodes = c.nodes /\ d.match_cnt = c.match_cnt /\ d.back = c.back /\ d.sent = c.sent

\* No buffer is in the queue and given back
Clean(c) == \A s, f : Has(c.nodes, s, f) => <<s, f>> \notin c.back

Good(c) == c \in ChannelType /\ Queue(c) /\ Clean(c)

\* Some buffers of c are given back in d
Less(c, d) ==
  /\ Good(d) /\ d.sent = c.sent
  /\ \A s, f : Has(d.nodes, s, f) => Has(c.nodes, s, f)
  /\ \A s, f : Has(d.nodes, s, f) \/ <<s, f>> \in d.back <=> Has(c.nodes, s, f) \/ <<s, f>> \in c.back

\* The buffers of the nodes from a to b are among those of the streams.
LEMMA BufsOf ==
  ASSUME NEW q \in Seq(NodeType), NEW R \in SUBSET DOMAIN q
  PROVE  /\ UNION {Bufs(q[i]) : i \in R} \in SUBSET (Streams \X Frames)
         /\ \A s, f : <<s, f>> \in UNION {Bufs(q[i]) : i \in R} <=>
              \E i \in R : q[i].frame = f /\ s \in q[i].bufs
<1>1. \A i \in DOMAIN q : q[i] \in NodeType
  OBVIOUS
<1>2. \A i \in R : \A p \in Bufs(q[i]) : p \in Streams \X Frames
  BY <1>1 DEF Bufs, NodeType
<1>3. \A i \in R : \A s, f : <<s, f>> \in Bufs(q[i]) <=> q[i].frame = f /\ s \in q[i].bufs
  BY DEF Bufs
<1> QED
  BY <1>2, <1>3

\* To give buffers back changes nothing else.
LEMMA GiveBackDoes ==
  ASSUME NEW c \in ChannelType, NEW B \in SUBSET (Streams \X Frames)
  PROVE  LET d == GiveBack(c, B)
         IN  /\ d \in ChannelType /\ Others(c, d)
             /\ d.nodes = c.nodes /\ d.match_cnt = c.match_cnt /\ d.back = c.back \cup B
             /\ d.expected = c.expected
<1>1. GiveBack(c, B) \in ChannelType
  BY DEF GiveBack, ChannelType
<1> QED
  BY <1>1 DEF GiveBack, ChannelType, Others

SetsQueue(c, d, q, m) == d = [c EXCEPT !.nodes = q, !.match_cnt = m]

\* An assignment to the nodes and to how many are matched.
LEMMA SetQueue ==
  ASSUME NEW c \in ChannelType, NEW q \in Seq(NodeType), NEW m \in Int,
         NEW d, SetsQueue(c, d, q, m)
  PROVE  /\ d \in ChannelType /\ Others(c, d)
         /\ d.nodes = q /\ d.match_cnt = m /\ d.back = c.back /\ d.expected = c.expected
<1>1. PICK e \in ChannelType : e = [c EXCEPT !.nodes = q]
  BY DEF ChannelType
<1>2. d = [e EXCEPT !.match_cnt = m]
  BY <1>1 DEF SetsQueue, ChannelType
<1>3. [e EXCEPT !.match_cnt = m] \in ChannelType
  BY DEF ChannelType
<1>4. Others(c, d)
  BY DEF SetsQueue, ChannelType, Others
<1>5. d.nodes = q /\ d.match_cnt = m /\ d.back = c.back /\ d.expected = c.expected
  BY DEF SetsQueue, ChannelType
<1> QED
  BY <1>2, <1>3, <1>4, <1>5, Zenon

\* To dequeue changes the nodes and how many are matched.
LEMMA DequeueDoes ==
  ASSUME NEW c \in ChannelType, Queue(c), NEW k \in 0 .. c.match_cnt
  PROVE  LET d == Dequeue(c, k)
         IN  /\ d \in ChannelType /\ Others(c, d) /\ Queue(d)
             /\ d.nodes = CutOut(c.nodes, 1, k) /\ d.match_cnt = c.match_cnt - k /\ d.back = c.back
<1> DEFINE n == Len(c.nodes)
           q == SubSeq(c.nodes, k + 1, n)
           d == Dequeue(c, k)
<1>1. /\ c.nodes \in Seq(NodeType) /\ n \in Nat /\ c.match_cnt \in 0 .. n
      /\ k \in Nat /\ k <= n /\ Ascending(c.nodes)
  BY DEF ChannelType, Queue
<1>2. /\ Len(q) = n - k /\ q \in Seq(NodeType)
      /\ \A i \in 1 .. n - k : q[i] = c.nodes[i + k]
  BY <1>1
<1>3. q = CutOut(c.nodes, 1, k)
  <2>1. q = [i \in 1 .. n - k |-> c.nodes[i + k]]
    BY <1>1, <1>2
  <2>2. CutOut(c.nodes, 1, k) = [i \in 1 .. n - k |-> c.nodes[i + k]]
    BY <1>1 DEF CutOut
  <2> QED
    BY <2>1, <2>2
<1> HIDE DEF q
<1>4. Ascending(q)
  BY <1>1, <1>3, CutOutIs
<1>5. SetsQueue(c, d, q, c.match_cnt - k)
  BY DEF SetsQueue, Dequeue, q, ChannelType
<1>6. /\ d \in ChannelType /\ Others(c, d)
      /\ d.nodes = q /\ d.match_cnt = c.match_cnt - k /\ d.back = c.back
  <2>1. c.match_cnt - k \in Int
    BY <1>1
  <2> HIDE DEF d
  <2> QED
    BY <1>2, <1>5, <2>1, SetQueue
<1>7. Queue(d)
  <2>1. d.match_cnt \in 0 .. Len(q) /\ Len(q) - d.match_cnt = n - c.match_cnt
    BY <1>1, <1>2, <1>6
  <2>2. \A i \in DOMAIN q : i + k \in DOMAIN c.nodes /\ q[i] = c.nodes[i + k]
    BY <1>1, <1>2
  <2>3. \A i \in DOMAIN q : i + k <= c.match_cnt <=> i <= d.match_cnt
    BY <1>1, <1>2, <1>6
  <2> QED
    BY <1>4, <1>6, <2>1, <2>2, <2>3 DEF Queue
<1> QED
  BY <1>3, <1>6, <1>7

\* The oldest matched nodes are given back.
LEMMA DropFirstDoes ==
  ASSUME NEW c, Good(c), NEW k \in 0 .. c.match_cnt
  PROVE  LET d == DropFirst(c, k)
         IN  Less(c, d) /\ Others(c, d) /\ d.match_cnt = c.match_cnt - k
<1> DEFINE q == c.nodes
           R == 1 .. k
           B == UNION {Bufs(q[i]) : i \in R}
           e == Dequeue(c, k)
           d == DropFirst(c, k)
<1>1. c \in ChannelType /\ Queue(c) /\ Clean(c)
  BY DEF Good
<1>2. q \in Seq(NodeType) /\ k \in Nat /\ k <= Len(q) /\ Ascending(q) /\ R \in SUBSET DOMAIN q
  BY <1>1 DEF ChannelType, Queue
<1>3. /\ e \in ChannelType /\ Others(c, e) /\ Queue(e)
      /\ e.nodes = CutOut(q, 1, k) /\ e.match_cnt = c.match_cnt - k /\ e.back = c.back
  BY <1>1, DequeueDoes
<1>4. /\ B \in SUBSET (Streams \X Frames)
      /\ \A s, f : <<s, f>> \in B <=> \E i \in R : q[i].frame = f /\ s \in q[i].bufs
  BY <1>2, BufsOf
<1>5. \A s, f : Has(e.nodes, s, f) <=> Has(q, s, f) /\ ~ \E i \in R : q[i].frame = f /\ s \in q[i].bufs
  <2> HIDE DEF q, e
  <2> QED
    BY <1>2, <1>3, CutOutIs
<1>6. \A i \in R : i \in DOMAIN q
  BY <1>2
<1>7. d = GiveBack(e, B)
  BY DEF DropFirst
<1> HIDE DEF B, e, d, R
<1>8. /\ d \in ChannelType /\ Others(e, d) /\ d.nodes = e.nodes /\ d.match_cnt = e.match_cnt
      /\ d.back = c.back \cup B
  BY <1>3, <1>4, <1>7, GiveBackDoes
<1>9. Queue(d)
  BY <1>3, <1>8 DEF Queue
<1>10. Others(c, d)
  BY <1>3, <1>8 DEF Others
<1>11. \A s, f : <<s, f>> \in B => Has(q, s, f) /\ ~Has(d.nodes, s, f)
  BY <1>4, <1>5, <1>6, <1>8 DEF Has
<1>12. \A s, f : Has(d.nodes, s, f) => Has(q, s, f)
  BY <1>5, <1>8
<1>13. \A s, f : Has(q, s, f) => Has(d.nodes, s, f) \/ <<s, f>> \in B
  BY <1>4, <1>5, <1>8
<1>14. Clean(d)
  BY <1>1, <1>8, <1>11, <1>12 DEF Clean
<1>15. Less(c, d)
  BY <1>8, <1>9, <1>10, <1>11, <1>12, <1>13, <1>14 DEF Less, Good, Others
<1> QED
  BY <1>3, <1>8, <1>10, <1>15 DEF d

\* All nodes are given back.
LEMMA FlushDoes ==
  ASSUME NEW c, Good(c)
  PROVE  LET d == Flush(c)
         IN  /\ Less(c, d) /\ Others(c, d) /\ d.match_cnt = 0 /\ d.nodes = <<>>
             /\ d.expected = c.expected
<1> DEFINE q == c.nodes
           B == UNION {Bufs(q[i]) : i \in DOMAIN q}
           e == GiveBack(c, B)
           d == Flush(c)
<1>1. c \in ChannelType /\ Queue(c) /\ Clean(c) /\ q \in Seq(NodeType)
  BY DEF Good, ChannelType
<1>2. /\ B \in SUBSET (Streams \X Frames)
      /\ \A s, f : <<s, f>> \in B <=> \E i \in DOMAIN q : q[i].frame = f /\ s \in q[i].bufs
  BY <1>1, BufsOf
<1>3. \A s, f : <<s, f>> \in B <=> Has(q, s, f)
  BY <1>2 DEF Has
<1>4. Cardinality({i \in DOMAIN q : Matched(q[i])}) = c.match_cnt /\ c.match_cnt \in Int
  BY <1>1, LeadingIs DEF ChannelType
<1>5. SetsQueue(e, d, <<>>, e.match_cnt - c.match_cnt)
  BY <1>4 DEF SetsQueue, Flush, GiveBack
<1> HIDE DEF B
<1>6. /\ e \in ChannelType /\ Others(c, e) /\ e.nodes = q /\ e.match_cnt = c.match_cnt
      /\ e.back = c.back \cup B /\ e.expected = c.expected
  BY <1>1, <1>2, GiveBackDoes
<1> HIDE DEF e, d
<1>7. /\ d \in ChannelType /\ Others(e, d) /\ d.nodes = <<>> /\ d.match_cnt = 0 /\ d.back = e.back
      /\ d.expected = e.expected
  <2>1. <<>> \in Seq(NodeType) /\ 0 \in Int /\ e.match_cnt - c.match_cnt = 0
    BY <1>4, <1>6
  <2>3. e \in ChannelType
    BY <1>6
  <2>2. SetsQueue(e, d, <<>>, 0)
    BY <1>5, <2>1
  <2>4. PICK z \in Seq(NodeType), m \in Int : z = <<>> /\ m = 0
    BY <2>1
  <2>5. SetsQueue(e, d, z, m)
    BY <2>2, <2>4
  <2>6. /\ d \in ChannelType /\ Others(e, d)
        /\ d.nodes = z /\ d.match_cnt = m /\ d.back = e.back /\ d.expected = e.expected
    BY <2>3, <2>5, SetQueue
  <2> QED
    BY <2>4, <2>6
<1>8. Queue(d)
  BY <1>7, ConstantsAssumption DEF Queue, Ascending
<1>9. \A s, f : ~Has(d.nodes, s, f)
  BY <1>7 DEF Has
<1>10. Less(c, d)
  BY <1>3, <1>6, <1>7, <1>8, <1>9 DEF Less, Good, Clean, Others
<1> QED
  BY <1>6, <1>7, <1>10 DEF Others, d

\* The matched nodes are given back.
LEMMA FlushMatchedDoes ==
  ASSUME NEW c, Good(c)
  PROVE  Less(c, FlushMatched(c)) /\ Others(c, FlushMatched(c))
<1>1. Leading(c) = c.match_cnt /\ c.match_cnt \in 0 .. c.match_cnt
  <2>1. c \in ChannelType /\ Queue(c) /\ c.match_cnt \in 0 .. Len(c.nodes) /\ Len(c.nodes) \in Nat
    <3>1. c \in ChannelType /\ Queue(c)
      BY DEF Good
    <3>2. c.nodes \in Seq(NodeType)
      BY <3>1 DEF ChannelType
    <3> QED
      BY <3>1, <3>2 DEF Queue
  <2> QED
    BY <2>1, LeadingIs
<1> QED
  BY <1>1, DropFirstDoes DEF FlushMatched

\* What is given back twice in a row, is given back.
LEMMA LessTwice ==
  ASSUME NEW c, NEW d, NEW e, Less(c, d), Less(d, e)
  PROVE  Less(c, e)
BY DEF Less

\* A change that keeps the queue gives nothing back.
LEMMA KeptIsLess ==
  ASSUME NEW c, NEW d \in ChannelType, Good(c), QueueKept(c, d)
  PROVE  Less(c, d)
BY DEF Less, Good, QueueKept, Queue, Clean

-----------------------------------------------------------------------------
(* What the metadata of a frame does to the channel.                       *)

\* A metadata that names a frame names one of the bound.
LEMMA InfoFields ==
  ASSUME NEW info \in InfoType
  PROVE  info.kind \in {"good", "divert"} => info.id \in Nat /\ info.id + 1 \in Nat
<1>1. Frames \subseteq Nat
  BY ConstantsAssumption DEF Frames
<1>2. info.kind \in {"good", "divert"} => info.id \in Frames
  BY DEF InfoType
<1>3. \A x \in Frames : x \in Nat /\ x + 1 \in Nat
  BY <1>1
<1> QED
  BY <1>2, <1>3

\* An assignment to a flag of a channel.
LEMMA SetFlag ==
  ASSUME NEW c \in ChannelType, NEW v \in BOOLEAN
  PROVE  /\ [c EXCEPT !.wait = v] \in ChannelType
         /\ [c EXCEPT !.led = v] \in ChannelType
         /\ [c EXCEPT !.zsl = v] \in ChannelType
         /\ [c EXCEPT !.manual = v] \in ChannelType
         /\ [c EXCEPT !.stop_zsl = v] \in ChannelType
         /\ [c EXCEPT !.once = v] \in ChannelType
<1>1. [c EXCEPT !.wait = v] \in ChannelType
  BY DEF ChannelType
<1>2. [c EXCEPT !.led = v] \in ChannelType
  BY DEF ChannelType
<1>3. [c EXCEPT !.zsl = v] \in ChannelType
  BY DEF ChannelType
<1>4. [c EXCEPT !.manual = v] \in ChannelType
  BY DEF ChannelType
<1>5. [c EXCEPT !.stop_zsl = v] \in ChannelType
  BY DEF ChannelType
<1>6. [c EXCEPT !.once = v] \in ChannelType
  BY DEF ChannelType
<1> QED
  BY <1>1, <1>2, <1>3, <1>4, <1>5, <1>6

\* An assignment to a number of a channel.
LEMMA SetNumber ==
  ASSUME NEW c \in ChannelType, NEW v \in Nat
  PROVE  /\ [c EXCEPT !.expected = v] \in ChannelType
         /\ [c EXCEPT !.good = v] \in ChannelType
         /\ [c EXCEPT !.diverted = v] \in ChannelType
         /\ [c EXCEPT !.pending = v] \in ChannelType
         /\ [c EXCEPT !.retro = v] \in ChannelType
         /\ [c EXCEPT !.burst = v] \in ChannelType
         /\ [c EXCEPT !.led_off = v] \in ChannelType
<1>1. [c EXCEPT !.expected = v] \in ChannelType
  BY DEF ChannelType
<1>2. [c EXCEPT !.good = v] \in ChannelType
  BY DEF ChannelType
<1>3. [c EXCEPT !.diverted = v] \in ChannelType
  BY DEF ChannelType
<1>4. [c EXCEPT !.pending = v] \in ChannelType
  BY DEF ChannelType
<1>5. [c EXCEPT !.retro = v] \in ChannelType
  BY DEF ChannelType
<1>6. [c EXCEPT !.burst = v] \in ChannelType
  BY DEF ChannelType
<1>7. [c EXCEPT !.led_off = v] \in ChannelType
  BY DEF ChannelType
<1> QED
  BY <1>1, <1>2, <1>3, <1>4, <1>5, <1>6, <1>7

\* An assignment to the state of the bracketing or to the delivery.
LEMMA SetMode ==
  ASSUME NEW c \in ChannelType
  PROVE  /\ \A v \in {"off", "wait", "active"} : [c EXCEPT !.bracketing = v] \in ChannelType
         /\ \A v \in {"burst", "continuous"} : [c EXCEPT !.mode = v] \in ChannelType
<1>1. \A v \in {"off", "wait", "active"} : [c EXCEPT !.bracketing = v] \in ChannelType
  BY DEF ChannelType
<1>2. \A v \in {"burst", "continuous"} : [c EXCEPT !.mode = v] \in ChannelType
  BY DEF ChannelType
<1> QED
  BY <1>1, <1>2

\* The frame to wait for is moved on.
LEMMA FutureFrameDoes ==
  ASSUME NEW c \in ChannelType
  PROVE  FutureFrame(c) \in ChannelType /\ QueueKept(c, FutureFrame(c))
<1>1. PICK x \in Nat : x = Later(c.expected + FutureWait)
  <2>1. FutureWait \in Nat /\ c.expected \in Nat
    BY ConstantsAssumption DEF ChannelType
  <2>2. c.expected + FutureWait \in Nat
    BY <2>1
  <2> QED
    BY <2>2, LaterType
<1>2. FutureFrame(c) = [c EXCEPT !.expected = x]
  BY <1>1 DEF FutureFrame, ChannelType
<1>3. FutureFrame(c) \in ChannelType
  BY <1>2, SetNumber
<1>4. QueueKept(c, FutureFrame(c))
  BY <1>2 DEF ChannelType, QueueKept
<1> QED
  BY <1>3, <1>4

\* A frame is diverted, or none is any more.
LEMMA DivertDoes ==
  ASSUME NEW c \in ChannelType, NEW f \in Frames, NEW info \in InfoType
  PROVE  Divert(c, f, info) \in ChannelType /\ QueueKept(c, Divert(c, f, info))
<1>1. CASE info.kind = "divert"
  <2>1. PICK x \in Nat : x = IF info.id >= f THEN info.id ELSE 0
    BY <1>1, InfoFields
  <2>2. Divert(c, f, info) = [c EXCEPT !.diverted = x]
    BY <1>1, <2>1 DEF Divert
  <2>3. Divert(c, f, info) \in ChannelType
    BY <2>2, SetNumber
  <2>4. QueueKept(c, Divert(c, f, info))
    BY <2>2 DEF ChannelType, QueueKept
  <2> QED
    BY <2>3, <2>4
<1>2. CASE info.kind # "divert"
  BY <1>2 DEF Divert, QueueKept
<1> QED
  BY <1>1, <1>2

\* The snapshot is prepared: the queue is flushed, or kept.
LEMMA PrepSnapshotDoes ==
  ASSUME NEW c, Good(c), NEW info \in InfoType
  PROVE  Less(c, PrepSnapshotDone(c, info))
<1>1. c \in ChannelType
  BY DEF Good
<1>2. CASE info.kind = "future"
  <2>0. PICK e \in ChannelType : e = [c EXCEPT !.wait = FALSE]
    BY <1>1, SetFlag
  <2>1. QueueKept(c, e)
    BY <1>1, <2>0 DEF ChannelType, QueueKept
  <2>2. FutureFrame(e) \in ChannelType /\ QueueKept(e, FutureFrame(e))
    BY FutureFrameDoes
  <2>3. Less(c, FutureFrame(e))
    BY <2>1, <2>2, KeptIsLess DEF QueueKept
  <2>4. PICK g : g = Flush(FutureFrame(e)) /\ Less(FutureFrame(e), g)
    BY <2>3, FlushDoes DEF Less
  <2>5. PICK h : h = [g EXCEPT !.led = TRUE]
    OBVIOUS
  <2>6. h \in ChannelType /\ QueueKept(g, h)
    <3>1. g \in ChannelType
      BY <2>4 DEF Less, Good
    <3>2. h \in ChannelType
      BY <2>5, <3>1, SetFlag
    <3>3. QueueKept(g, h)
      BY <2>5, <3>1 DEF ChannelType, QueueKept
    <3> QED
      BY <3>2, <3>3
  <2>7. Less(g, h)
    BY <2>4, <2>6, KeptIsLess DEF Less
  <2>8. PrepSnapshotDone(c, info) = h
    BY <1>2, <2>0, <2>4, <2>5 DEF PrepSnapshotDone
  <2> QED
    BY <2>3, <2>4, <2>7, <2>8, LessTwice
<1>3. CASE info.kind = "done"
  <2>1. PICK h : h = [c EXCEPT !.wait = FALSE, !.led = FALSE]
    OBVIOUS
  <2>2. h \in ChannelType /\ QueueKept(c, h)
    <3>1. PICK e \in ChannelType : e = [c EXCEPT !.wait = FALSE]
      BY <1>1, SetFlag
    <3>2. h = [e EXCEPT !.led = FALSE]
      BY <1>1, <2>1, <3>1 DEF ChannelType
    <3>3. h \in ChannelType
      BY <3>2, SetFlag
    <3>4. QueueKept(c, h)
      BY <1>1, <2>1 DEF ChannelType, QueueKept
    <3> QED
      BY <3>3, <3>4
  <2>3. PrepSnapshotDone(c, info) = h
    BY <1>3, <2>1 DEF PrepSnapshotDone
  <2> QED
    BY <2>2, <2>3, KeptIsLess
<1>4. CASE info.kind \notin {"future", "done"}
  <2>1. PrepSnapshotDone(c, info) = c
    BY <1>4 DEF PrepSnapshotDone
  <2> QED
    BY <1>1, <2>1, KeptIsLess DEF QueueKept
<1> QED
  BY <1>2, <1>3, <1>4

SetsGood(c, d, x, l, once) ==
  d = [c EXCEPT !.expected = x, !.good = x, !.bracketing = "active", !.led_off = l, !.once = once]

\* The frame that is good for the bracketing becomes the expected one.
LEMMA SetGood ==
  ASSUME NEW c \in ChannelType, NEW d, NEW x \in Nat, NEW l \in Nat, NEW once \in BOOLEAN,
         SetsGood(c, d, x, l, once)
  PROVE  d \in ChannelType /\ QueueKept(c, d)
<1>1. PICK e1 \in ChannelType : e1 = [c EXCEPT !.expected = x]
  BY SetNumber
<1>2. PICK e2 \in ChannelType : e2 = [e1 EXCEPT !.good = x]
  BY SetNumber
<1>3. PICK e3 \in ChannelType : e3 = [e2 EXCEPT !.bracketing = "active"]
  BY SetMode
<1>4. PICK e4 \in ChannelType : e4 = [e3 EXCEPT !.led_off = l]
  BY SetNumber
<1>5. d = [e4 EXCEPT !.once = once]
  BY <1>1, <1>2, <1>3, <1>4 DEF SetsGood, ChannelType
<1>6. d \in ChannelType
  BY <1>5, SetFlag
<1>7. QueueKept(c, d)
  BY DEF SetsGood, ChannelType, QueueKept
<1> QED
  BY <1>6, <1>7

\* The good frame is known, or the wait for it goes on.
LEMMA GoodFrameDoes ==
  ASSUME NEW c, Good(c), NEW info \in InfoType
  PROVE  Less(c, GoodFrame(c, info))
<1>1. c \in ChannelType
  BY DEF Good
<1>2. CASE info.kind = "good"
  <2>1. PICK l \in Nat, once \in BOOLEAN :
          /\ l = IF c.led /\ c.burst > 1 THEN info.id + 1 ELSE c.led_off
          /\ once = (c.once /\ ~(c.led /\ c.burst > 1))
    BY <1>1, <1>2, InfoFields DEF ChannelType
  <2>2. SetsGood(c, GoodFrame(c, info), info.id, l, once)
    BY <1>1, <1>2, <2>1 DEF SetsGood, GoodFrame, ChannelType
  <2>3. info.id \in Nat
    BY <1>2, InfoFields
  <2> QED
    BY <1>1, <2>2, <2>3, SetGood, KeptIsLess
<1>3. CASE info.kind # "good" /\ c.bracketing = "wait" /\ info.kind \notin {"future", "done"}
  <2>1. PICK g : g = FlushMatched(c) /\ Less(c, g)
    BY FlushMatchedDoes
  <2>2. FutureFrame(g) \in ChannelType /\ QueueKept(g, FutureFrame(g))
    BY <2>1, FutureFrameDoes DEF Less, Good
  <2>3. Less(g, FutureFrame(g))
    BY <2>1, <2>2, KeptIsLess DEF Less
  <2>4. GoodFrame(c, info) = FutureFrame(g)
    BY <1>3, <2>1 DEF GoodFrame
  <2> QED
    BY <2>1, <2>3, <2>4, LessTwice
<1>4. CASE info.kind # "good" /\ ~(c.bracketing = "wait" /\ info.kind \notin {"future", "done"})
  <2>1. GoodFrame(c, info) = c
    BY <1>4 DEF GoodFrame
  <2> QED
    BY <1>1, <2>1, KeptIsLess DEF QueueKept
<1> QED
  BY <1>2, <1>3, <1>4

\* The frames with the flash on are over.
LEMMA LedOffDoes ==
  ASSUME NEW c \in ChannelType, NEW f \in Frames
  PROVE  LedOff(c, f) \in ChannelType /\ QueueKept(c, LedOff(c, f))
<1>1. CASE c.burst > 1 /\ c.led /\ c.bracketing = "off" /\ f >= c.led_off /\ ~c.once
  <2>1. PICK x \in Nat : x = Later(c.led_off + 1)
    <3>1. c.led_off + 1 \in Nat
      BY DEF ChannelType
    <3> QED
      BY <3>1, LaterType
  <2>2. PICK e1 \in ChannelType : e1 = [c EXCEPT !.expected = x]
    BY SetNumber
  <2>3. PICK e2 \in ChannelType : e2 = [e1 EXCEPT !.once = TRUE]
    BY SetFlag
  <2>4. PICK e3 \in ChannelType : e3 = [e2 EXCEPT !.stop_zsl = TRUE]
    BY SetFlag
  <2>5. LedOff(c, f) = [e3 EXCEPT !.led = FALSE]
    BY <1>1, <2>1, <2>2, <2>3, <2>4 DEF LedOff, ChannelType
  <2>6. LedOff(c, f) \in ChannelType
    BY <2>5, SetFlag
  <2>7. QueueKept(c, LedOff(c, f))
    BY <1>1 DEF LedOff, ChannelType, QueueKept
  <2> QED
    BY <2>6, <2>7
<1>2. CASE ~(c.burst > 1 /\ c.led /\ c.bracketing = "off" /\ f >= c.led_off /\ ~c.once)
  BY <1>2 DEF LedOff, QueueKept
<1> QED
  BY <1>1, <1>2

\* All that the metadata of a frame does gives at most some buffers back.
LEMMA HandleMetadataDoes ==
  ASSUME NEW c, Good(c), NEW f \in Frames, NEW info \in InfoType
  PROVE  Less(c, HandleMetadata(c, f, info))
<1>1. PICK c1 : c1 = Divert(c, f, info) /\ Less(c, c1)
  BY DivertDoes, KeptIsLess DEF Good
<1>2. PICK c2 : c2 = PrepSnapshotDone(c1, info) /\ Less(c1, c2)
  BY <1>1, PrepSnapshotDoes DEF Less
<1>3. PICK c3 : c3 = GoodFrame(c2, info) /\ Less(c2, c3)
  BY <1>2, GoodFrameDoes DEF Less
<1>4. PICK c4 : c4 = LedOff(c3, f) /\ Less(c3, c4)
  <2>1. Good(c3)
    BY <1>3 DEF Less
  <2>2. PICK c4 : c4 = LedOff(c3, f)
    OBVIOUS
  <2>3. Less(c3, c4)
    BY <2>1, <2>2, LedOffDoes, KeptIsLess DEF Good
  <2> QED
    BY <2>2, <2>3
<1>5. HandleMetadata(c, f, info) = c4
  BY <1>1, <1>2, <1>3, <1>4 DEF HandleMetadata
<1> QED
  BY <1>1, <1>2, <1>3, <1>4, <1>5, LessTwice

-----------------------------------------------------------------------------
(* The buffer of a frame.                                                  *)

\* No later buffer of stream s has been seen
Fresh(c, s, f) ==
  /\ \A g : Has(c.nodes, s, g) => g < f
  /\ <<s, f>> \notin c.back

\* The buffer of stream s for frame f is taken by c, which becomes d
Takes(c, d, s, f) ==
  /\ Good(d) /\ d.sent = c.sent
  /\ \A r, g : Has(d.nodes, r, g) \/ <<r, g>> \in d.back <=>
                 Has(c.nodes, r, g) \/ <<r, g>> \in c.back \/ (r = s /\ g = f)

\* To give it back at once.
LEMMA ReturnTakes ==
  ASSUME NEW c, Good(c), NEW s \in Streams, NEW f \in Frames, Fresh(c, s, f)
  PROVE  Takes(c, GiveBack(c, {<<s, f>>}), s, f)
<1> DEFINE d == GiveBack(c, {<<s, f>>})
<1>1. c \in ChannelType /\ Queue(c) /\ Clean(c)
  BY DEF Good
<1>2. /\ d \in ChannelType /\ d.nodes = c.nodes /\ d.match_cnt = c.match_cnt
      /\ d.back = c.back \cup {<<s, f>>} /\ d.sent = c.sent
  <2>1. {<<s, f>>} \in SUBSET (Streams \X Frames)
    OBVIOUS
  <2> HIDE DEF d
  <2> QED
    BY <1>1, <2>1, GiveBackDoes DEF Others, d
<1> HIDE DEF d
<1>3. Queue(d)
  BY <1>1, <1>2 DEF Queue
<1>4. ~Has(c.nodes, s, f)
  <2>1. f \in Int
    BY ConstantsAssumption DEF Frames
  <2> QED
    BY <2>1 DEF Fresh
<1>5. \A r, g : <<r, g>> \in d.back <=> <<r, g>> \in c.back \/ (r = s /\ g = f)
  BY <1>2
<1>6. Clean(d)
  BY <1>1, <1>2, <1>4, <1>5 DEF Clean
<1> QED
  BY <1>2, <1>3, <1>5, <1>6 DEF Takes, Good, d

FramesOf(q, a, b) == {q[i].frame : i \in a .. b}

\* Without the nodes from a to b, which are all that have the frames F.
LEMMA WithoutDoes ==
  ASSUME NEW c \in ChannelType, Ascending(c.nodes),
         NEW a \in Nat \ {0}, NEW b \in Nat, a <= b + 1, b <= Len(c.nodes),
         NEW F, F = FramesOf(c.nodes, a, b)
  PROVE  LET d == Without(c, F)
         IN  /\ d \in ChannelType /\ Others(c, d) /\ d.match_cnt = c.match_cnt
             /\ d.nodes = CutOut(c.nodes, a, b)
             /\ \A s, g : <<s, g>> \in d.back <=>
                  <<s, g>> \in c.back \/ \E i \in a .. b : c.nodes[i].frame = g /\ s \in c.nodes[i].bufs
<1> DEFINE q == c.nodes
           n == Len(q)
           kept == {i \in DOMAIN q : q[i].frame \notin F}
           B == UNION {Bufs(q[i]) : i \in DOMAIN q \ kept}
           e == GiveBack(c, B)
           d == Without(c, F)
           w == b + 1 - a
<1>1. q \in Seq(NodeType) /\ n \in Nat /\ DOMAIN q = 1 .. n
  BY DEF ChannelType
<1>2. \A i, j \in 1 .. n : q[i].frame = q[j].frame => i = j
  <2> SUFFICES ASSUME NEW i \in 1 .. n, NEW j \in 1 .. n, i < j
               PROVE  q[i].frame # q[j].frame
    BY <1>1
  <2>1. q[i].frame \in Nat /\ q[j].frame \in Nat
    BY <1>1, FrameOf
  <2> QED
    BY <1>1, <2>1 DEF Ascending
<1>3. kept = (1 .. n) \ (a .. b)
  <2>1. \A i \in 1 .. n : q[i].frame \in F <=> i \in a .. b
    <3>1. \A i \in a .. b : i \in 1 .. n
      BY <1>1
    <3>2. F = {q[i].frame : i \in a .. b}
      BY DEF FramesOf
    <3> QED
      BY <1>2, <3>1, <3>2
  <2> QED
    BY <1>1, <2>1
<1>4. DOMAIN q \ kept = a .. b
  <2>1. \A i \in a .. b : i \in 1 .. n
    BY <1>1
  <2> QED
    BY <1>1, <1>3, <2>1
<1>5. /\ B \in SUBSET (Streams \X Frames)
      /\ \A s, g : <<s, g>> \in B <=> \E i \in a .. b : q[i].frame = g /\ s \in q[i].bufs
  <2>1. PICK R \in SUBSET DOMAIN q : R = a .. b
    BY <1>4
  <2>2. B = UNION {Bufs(q[i]) : i \in R}
    BY <1>4, <2>1
  <2> HIDE DEF q, B
  <2>3. /\ UNION {Bufs(q[i]) : i \in R} \in SUBSET (Streams \X Frames)
        /\ \A s, f : <<s, f>> \in UNION {Bufs(q[i]) : i \in R} <=>
             \E i \in R : q[i].frame = f /\ s \in q[i].bufs
    BY <1>1, BufsOf
  <2> QED
    BY <2>1, <2>2, <2>3
<1>6. /\ Cardinality(kept) = n - w
      /\ \A k \in 1 .. n - w : Nth(kept, k) = IF k < a THEN k ELSE k + w
  <2>1. n \in Nat /\ a <= b + 1 /\ b <= n
    BY <1>1
  <2> HIDE DEF kept, n
  <2>2. kept = Rest(n, a, b)
    BY <1>3 DEF Rest
  <2>3. /\ Cardinality(Rest(n, a, b)) = n - w
        /\ \A k \in 1 .. n - w : Nth(Rest(n, a, b), k) = IF k < a THEN k ELSE k + w
    BY <2>1, NthOfTheRest
  <2> QED
    BY <2>2, <2>3
<1>7. [k \in 1 .. Cardinality(kept) |-> q[Nth(kept, k)]] = CutOut(q, a, b)
  <2>1. [k \in 1 .. Cardinality(kept) |-> q[Nth(kept, k)]]
          = [k \in 1 .. n - w |-> q[IF k < a THEN k ELSE k + w]]
    <3> HIDE DEF kept, n, q, w
    <3> QED
      BY <1>6
  <2> QED
    BY <2>1 DEF CutOut
<1>8. d = [e EXCEPT !.nodes = CutOut(q, a, b)]
  BY <1>7 DEF Without
<1>9. CutOut(q, a, b) \in Seq(NodeType)
  BY <1>1, CutOutIs
<1> HIDE DEF B, e, d, q
<1>10. /\ e \in ChannelType /\ Others(c, e) /\ e.match_cnt = c.match_cnt /\ e.back = c.back \cup B
  BY <1>5, GiveBackDoes DEF e
<1>11. d \in ChannelType
  BY <1>8, <1>9, <1>10 DEF ChannelType
<1>12. d.nodes = CutOut(q, a, b) /\ Others(e, d) /\ d.match_cnt = e.match_cnt /\ d.back = e.back
  BY <1>8, <1>10 DEF ChannelType, Others
<1>13. Others(c, d)
  BY <1>10, <1>12 DEF Others
<1>14. \A s, g : <<s, g>> \in d.back <=>
         <<s, g>> \in c.back \/ \E i \in a .. b : q[i].frame = g /\ s \in q[i].bufs
  BY <1>5, <1>10, <1>12
<1> QED
  BY <1>10, <1>11, <1>12, <1>13, <1>14 DEF d, q

\* An assignment to the nodes, how many are matched, the expected frame and the diverted one
Puts(c, d, q, m, e, v) ==
  d = [c EXCEPT !.nodes = q, !.match_cnt = m, !.expected = e, !.diverted = v]

\* What such an assignment leaves alone.
LEMMA PutsDoes ==
  ASSUME NEW c \in ChannelType, NEW q \in Seq(NodeType), NEW m \in Int, NEW e \in Nat, NEW v \in Nat,
         NEW d, Puts(c, d, q, m, e, v)
  PROVE  /\ d \in ChannelType /\ Others(c, d)
         /\ d.nodes = q /\ d.match_cnt = m /\ d.back = c.back
<1>1. PICK d1 : SetsQueue(c, d1, q, m)
  BY DEF SetsQueue
<1>2. d1 \in ChannelType
  BY <1>1, SetQueue
<1>3. PICK d2 \in ChannelType : d2 = [d1 EXCEPT !.expected = e]
  BY <1>2, SetNumber
<1>4. d = [d2 EXCEPT !.diverted = v]
  BY <1>1, <1>3 DEF SetsQueue, Puts, ChannelType
<1>5. d \in ChannelType
  BY <1>4, SetNumber
<1>6. Others(c, d)
  BY DEF Puts, ChannelType, Others
<1>7. d.nodes = q /\ d.match_cnt = m /\ d.back = c.back
  BY DEF Puts, ChannelType
<1> QED
  BY <1>5, <1>6, <1>7

\* A node is replaced
PutsNode(q, p, i, x) == p = [q EXCEPT ![i] = x]

\* A buffer put into a node: the frames stay as they are.
LEMMA PutIn ==
  ASSUME NEW q \in Seq(NodeType), Ascending(q), NEW i \in DOMAIN q, NEW s \in Streams,
         NEW x \in NodeType, x.frame = q[i].frame, x.bufs = q[i].bufs \cup {s},
         NEW p, PutsNode(q, p, i, x)
  PROVE  /\ p \in Seq(NodeType) /\ Len(p) = Len(q) /\ DOMAIN p = DOMAIN q /\ Ascending(p)
         /\ p[i] = x /\ \A j \in DOMAIN q : j # i => p[j] = q[j]
         /\ \A j \in DOMAIN q : p[j].frame = q[j].frame
         /\ \A r, g : Has(p, r, g) <=> Has(q, r, g) \/ (r = s /\ g = q[i].frame)
<1>1. p \in Seq(NodeType) /\ Len(p) = Len(q) /\ DOMAIN p = DOMAIN q
  BY DEF PutsNode
<1>2. p[i] = x /\ \A j \in DOMAIN q : j # i => p[j] = q[j]
  BY DEF PutsNode
<1>3. \A j \in DOMAIN q : p[j].frame = q[j].frame
  BY <1>2
<1>4. Ascending(p)
  BY <1>1, <1>3 DEF Ascending
<1>5. ASSUME NEW r, NEW g
      PROVE  Has(p, r, g) <=> Has(q, r, g) \/ (r = s /\ g = q[i].frame)
  <2>1. ASSUME Has(p, r, g)
        PROVE  Has(q, r, g) \/ (r = s /\ g = q[i].frame)
    BY <1>1, <1>2, <2>1 DEF Has
  <2>2. ASSUME Has(q, r, g)
        PROVE  Has(p, r, g)
    BY <1>1, <1>2, <2>2 DEF Has
  <2>3. Has(p, s, q[i].frame)
    BY <1>1, <1>2 DEF Has
  <2> QED
    BY <2>1, <2>2, <2>3
<1> QED
  BY <1>1, <1>2, <1>3, <1>4, <1>5

\* The buffer goes into the node of its frame.
LEMMA FillDoes ==
  ASSUME NEW c, Good(c), NEW s \in Streams, NEW f \in Frames, Fresh(c, s, f),
         NEW i \in Unmatched(c), c.nodes[i].frame = f
  PROVE  Takes(c, Fill(c, s, f, i), s, f)
<1> DEFINE q == c.nodes
           m == c.match_cnt
           n == Len(q)
           filled == [q[i] EXCEPT !.bufs = @ \cup {s}]
           stale == {q[j].frame : j \in {k \in 1 .. i - 1 : \E l \in Older(c, f) : l <= k}}
           d == Fill(c, s, f, i)
<1>1. /\ c \in ChannelType /\ Queue(c) /\ Clean(c)
      /\ q \in Seq(NodeType) /\ n \in Nat /\ DOMAIN q = 1 .. n /\ m \in 0 .. n /\ Ascending(q)
      /\ \A j \in 1 .. n : Matched(q[j]) <=> j <= m
      /\ \A j \in 1 .. n : q[j].bufs # {}
      /\ n - m <= MaxUnmatched + 1
  <2>1. c \in ChannelType /\ Queue(c) /\ Clean(c)
    BY DEF Good
  <2>2. q \in Seq(NodeType)
    BY <2>1 DEF ChannelType
  <2>3. n \in Nat /\ DOMAIN q = 1 .. n
    BY <2>2
  <2> QED
    BY <2>1, <2>2, <2>3 DEF Queue
<1>2. i \in (m + 1) .. n /\ i \in DOMAIN q /\ i \in Nat
  <2>1. Unmatched(c) = (m + 1) .. n
    BY <1>1, LeadingIs
  <2> QED
    BY <1>1, <2>1
<1>3. f \in Nat /\ MaxUnmatched \in Nat
  BY ConstantsAssumption DEF Frames
<1>4. s \notin q[i].bufs
  <2>1. s \in q[i].bufs => Has(q, s, f)
    BY <1>2 DEF Has
  <2>2. ~(f < f)
    BY <1>3
  <2> QED
    BY <2>1, <2>2 DEF Fresh
<1>5. /\ filled \in NodeType /\ filled.frame = f /\ filled.bufs = q[i].bufs \cup {s}
  <2>1. q[i] \in NodeType
    BY <1>1, <1>2
  <2> QED
    BY <2>1 DEF NodeType
<1>6. CASE Matched(filled)
  <2>1. PICK x \in NodeType : x = [filled EXCEPT !.expected = FALSE] /\ x.frame = f /\ x.bufs = filled.bufs
    <3>1. PICK x : x = [filled EXCEPT !.expected = FALSE]
      OBVIOUS
    <3>2. x \in NodeType /\ x.frame = f /\ x.bufs = filled.bufs
      BY <1>5, <3>1 DEF NodeType
    <3> QED
      BY <3>1, <3>2
  <2>2. PICK p : PutsNode(q, p, i, x)
    BY DEF PutsNode
  <2>3. PICK c2 : Puts(c, c2, p, m + 1, f + PostSkip, c.diverted)
    BY DEF Puts
  <2>4. [c EXCEPT !.nodes[i] = [filled EXCEPT !.expected = FALSE],
                  !.expected = f + PostSkip, !.match_cnt = @ + 1] = c2
    BY <1>1, <2>1, <2>2, <2>3 DEF Puts, PutsNode, ChannelType
  <2>5. d = Without(c2, stale)
    BY <1>4, <1>6, <2>4 DEF Fill
  <2>6. \A k \in 1 .. n : q[k].frame < f <=> k < i
    <3> TAKE k \in 1 .. n
    <3>1. q[k].frame \in Nat
      BY <1>1, FrameOf
    <3>2. k < i => q[k].frame < f
      BY <1>1, <1>2 DEF Ascending
    <3>3. i < k => f < q[k].frame
      BY <1>1, <1>2 DEF Ascending
    <3> QED
      BY <1>2, <1>3, <3>1, <3>2, <3>3
  <2>7. Older(c, f) = (m + 1) .. (i - 1)
    <3>1. Unmatched(c) = (m + 1) .. n
      BY <1>1, LeadingIs
    <3> QED
      BY <1>1, <1>2, <2>6, <3>1 DEF Older
  <2>8. {k \in 1 .. i - 1 : \E l \in Older(c, f) : l <= k} = (m + 1) .. (i - 1)
    <3>1. \A k \in 1 .. i - 1 : (\E l \in (m + 1) .. (i - 1) : l <= k) <=> k \in (m + 1) .. (i - 1)
      BY <1>1, <1>2
    <3>2. (m + 1) .. (i - 1) \subseteq 1 .. i - 1
      BY <1>1, <1>2
    <3> HIDE DEF m
    <3> QED
      BY <2>7, <3>1, <3>2
  <2>9. stale = {q[j].frame : j \in (m + 1) .. (i - 1)}
    BY <2>8
  <2> HIDE DEF q, stale, d, filled
  <2>10. /\ p \in Seq(NodeType) /\ Len(p) = n /\ DOMAIN p = DOMAIN q /\ Ascending(p)
         /\ p[i] = x /\ \A j \in DOMAIN q : j # i => p[j] = q[j]
         /\ \A j \in DOMAIN q : p[j].frame = q[j].frame
         /\ \A r, g : Has(p, r, g) <=> Has(q, r, g) \/ (r = s /\ g = f)
    <3>1. q[i].frame = f
      BY DEF q
    <3>2. x.frame = q[i].frame /\ x.bufs = q[i].bufs \cup {s}
      BY <1>5, <2>1, <3>1
    <3>3. q \in Seq(NodeType) /\ Ascending(q)
      BY <1>1
    <3>4. /\ p \in Seq(NodeType) /\ Len(p) = Len(q) /\ DOMAIN p = DOMAIN q /\ Ascending(p)
          /\ p[i] = x /\ \A j \in DOMAIN q : j # i => p[j] = q[j]
          /\ \A j \in DOMAIN q : p[j].frame = q[j].frame
          /\ \A r, g : Has(p, r, g) <=> Has(q, r, g) \/ (r = s /\ g = q[i].frame)
      BY <1>2, <2>2, <3>2, <3>3, PutIn
    <3> QED
      BY <3>1, <3>4
  <2>11. c2 \in ChannelType /\ Others(c, c2) /\ c2.nodes = p /\ c2.match_cnt = m + 1 /\ c2.back = c.back
    <3>0. PostSkip \in Nat /\ c.diverted \in Nat
      BY <1>1, ConstantsAssumption DEF ChannelType
    <3>1. m + 1 \in Int /\ f + PostSkip \in Nat /\ c.diverted \in Nat
      BY <1>1, <1>3, <3>0
    <3> QED
      BY <1>1, <2>3, <2>10, <3>1, PutsDoes
  <2>12. PICK a \in Nat \ {0}, b \in Nat : a = m + 1 /\ b = i - 1 /\ a <= b + 1 /\ b <= n
    BY <1>1, <1>2
  <2>13. stale = FramesOf(p, a, b)
    <3>1. \A j \in a .. b : j \in DOMAIN q
      BY <1>1, <1>2, <2>12, SMTT(30)
    <3>2. stale = {q[j].frame : j \in a .. b}
      BY <2>9, <2>12
    <3> QED
      BY <2>10, <3>1, <3>2 DEF FramesOf
  <2>14. /\ d \in ChannelType /\ Others(c2, d) /\ d.match_cnt = m + 1
         /\ d.nodes = CutOut(p, a, b)
         /\ \A r, g : <<r, g>> \in d.back <=>
              <<r, g>> \in c.back \/ \E j \in a .. b : p[j].frame = g /\ r \in p[j].bufs
    <3>1. c2 \in ChannelType /\ Ascending(c2.nodes) /\ stale = FramesOf(c2.nodes, a, b)
          /\ a <= b + 1 /\ b <= Len(c2.nodes)
      BY <2>10, <2>11, <2>12, <2>13
    <3>2. /\ d \in ChannelType /\ Others(c2, d) /\ d.match_cnt = c2.match_cnt
          /\ d.nodes = CutOut(c2.nodes, a, b)
          /\ \A r, g : <<r, g>> \in d.back <=>
               <<r, g>> \in c2.back \/ \E j \in a .. b : c2.nodes[j].frame = g /\ r \in c2.nodes[j].bufs
      BY <2>5, <3>1, WithoutDoes
    <3> HIDE DEF m
    <3> QED
      BY <2>11, <3>2
  <2>15. /\ d.nodes \in Seq(NodeType) /\ Len(d.nodes) = n - (b + 1 - a) /\ Ascending(d.nodes)
         /\ \A k \in DOMAIN d.nodes : d.nodes[k] = IF k < a THEN p[k] ELSE p[k + (b + 1 - a)]
         /\ \A r, g : Has(d.nodes, r, g) <=>
              Has(p, r, g) /\ ~ \E j \in a .. b : p[j].frame = g /\ r \in p[j].bufs
    <3>1. p \in Seq(NodeType) /\ Ascending(p) /\ a <= b + 1 /\ b <= Len(p)
      BY <2>10, <2>12
    <3>2. PICK z : z = CutOut(p, a, b)
      OBVIOUS
    <3>7. Cuts(p, z, a, b)
      BY <3>1, <3>2 DEF Cuts
    <3>3. /\ z \in Seq(NodeType) /\ Len(z) = Len(p) - (b + 1 - a) /\ Ascending(z)
      BY <3>7, CutsType
    <3>5. \A k \in DOMAIN z : z[k] = IF k < a THEN p[k] ELSE p[k + (b + 1 - a)]
      BY <3>7, CutsOrder
    <3>6. \A r, g : Has(z, r, g) <=>
               Has(p, r, g) /\ ~ \E j \in a .. b : p[j].frame = g /\ r \in p[j].bufs
      BY <3>7, CutsBuffers
    <3>4. d.nodes = z /\ Len(p) = n
      BY <2>10, <2>14, <3>2
    <3> HIDE DEF m, n
    <3> QED
      BY <3>3, <3>4, <3>5, <3>6
  <2>16. Queue(d)
    <3>1. PICK w \in Nat : w = b + 1 - a /\ w = i - 1 - m
      BY <1>1, <1>2, <2>12, SMTT(30)
    <3> HIDE DEF m, n
    <3>2. /\ DOMAIN d.nodes = 1 .. n - w /\ Len(d.nodes) = n - w
          /\ \A k \in 1 .. n - w : d.nodes[k] = IF k <= m THEN p[k] ELSE p[k + w]
      <4>1. DOMAIN d.nodes = 1 .. n - w /\ Len(d.nodes) = n - w
        BY <2>15, <3>1
      <4>2. \A k \in 1 .. n - w : k < a <=> k <= m
        BY <1>1, <2>12
      <4>3. \A k \in 1 .. n - w : d.nodes[k] = IF k < a THEN p[k] ELSE p[k + w]
        BY <2>15, <3>1, <4>1
      <4> QED
        BY <4>1, <4>2, <4>3
    <3>3. ASSUME NEW k \in 1 .. n - w
          PROVE  (Matched(d.nodes[k]) <=> k <= m + 1) /\ d.nodes[k].bufs # {}
      <4>1. CASE k <= m
        <5>1. k \in 1 .. n /\ k # i
          BY <1>1, <1>2, <3>1, <4>1
        <5>2. d.nodes[k] = q[k]
          BY <1>1, <2>10, <3>2, <4>1, <5>1
        <5>3. k <= m + 1
          BY <1>1, <4>1
        <5> QED
          BY <1>1, <4>1, <5>1, <5>2, <5>3
      <4>2. CASE k = m + 1
        <5>1. k + w = i /\ ~(k <= m)
          <6>1. m \in Int /\ i \in Int /\ w \in Int /\ w = i - 1 - m
            BY <1>1, <1>2, <3>1
          <6> QED
            BY <4>2, <6>1
        <5>2. d.nodes[k] = x
          BY <2>10, <3>2, <5>1
        <5>3. x.bufs # {} /\ Matched(x)
          BY <1>5, <1>6, <2>1 DEF Matched, filled
        <5>4. k <= m + 1
          BY <4>2
        <5> QED
          BY <5>2, <5>3, <5>4
      <4>3. CASE k > m + 1
        <5>1. k + w \in 1 .. n /\ k + w # i /\ ~(k + w <= m) /\ ~(k <= m + 1) /\ ~(k <= m)
          BY <1>1, <1>2, <3>1, <4>3
        <5>2. d.nodes[k] = q[k + w]
          BY <1>1, <2>10, <3>2, <5>1
        <5> QED
          BY <1>1, <5>1, <5>2
      <4> QED
        BY <1>1, <4>1, <4>2, <4>3
    <3>4. m + 1 \in 0 .. (n - w) /\ (n - w) - (m + 1) <= MaxUnmatched + 1
      <4>1. /\ m \in Nat /\ n \in Nat /\ i \in Nat /\ w \in Nat /\ MaxUnmatched \in Nat /\ w = i - 1 - m
            /\ m + 1 <= i /\ i <= n /\ n - m <= MaxUnmatched + 1
        BY <1>1, <1>2, <1>3, <3>1
      <4> QED
        BY <4>1
    <3> QED
      BY <2>14, <2>15, <3>2, <3>3, <3>4, SMTT(30) DEF Queue
  <2>17. Clean(d)
    <3>1. ASSUME NEW r, NEW g, Has(d.nodes, r, g)
          PROVE  <<r, g>> \notin d.back
      <4>1. Has(q, r, g) \/ (r = s /\ g = f)
        BY <2>10, <2>15, <3>1
      <4>2. <<r, g>> \notin c.back
        BY <1>1, <4>1 DEF Clean, Fresh, q
      <4> QED
        BY <2>14, <2>15, <3>1, <4>2
    <3> QED
      BY <3>1 DEF Clean
  <2>18. \A r, g : Has(d.nodes, r, g) \/ <<r, g>> \in d.back <=>
                     Has(q, r, g) \/ <<r, g>> \in c.back \/ (r = s /\ g = f)
    <3> TAKE r, g
    <3>1. (\E j \in a .. b : p[j].frame = g /\ r \in p[j].bufs) => Has(p, r, g)
      <4>1. \A j \in a .. b : j \in DOMAIN p
        BY <1>1, <1>2, <2>10, <2>12
      <4> QED
        BY <4>1 DEF Has
    <3> QED
      BY <2>10, <2>14, <2>15, <3>1, SMTT(30)
  <2> QED
    BY <2>11, <2>14, <2>16, <2>17, <2>18 DEF Takes, Good, Others, q, d
<1>7. CASE ~Matched(filled)
  <2>1. PICK x \in NodeType : /\ x = [filled EXCEPT !.expected = @ \/ c.diverted = f]
                              /\ x.frame = f /\ x.bufs = filled.bufs
    <3>1. PICK b \in BOOLEAN : b = (filled.expected \/ c.diverted = f)
      OBVIOUS
    <3> HIDE DEF filled
    <3>2. [filled EXCEPT !.expected = b] \in NodeType
      BY <1>5 DEF NodeType
    <3>3. [filled EXCEPT !.expected = b].frame = f /\ [filled EXCEPT !.expected = b].bufs = filled.bufs
      BY <1>5 DEF NodeType
    <3> QED
      BY <3>1, <3>2, <3>3
  <2>2. PICK p : PutsNode(q, p, i, x)
    BY DEF PutsNode
  <2>3. PICK v \in Nat : v = IF c.diverted = f THEN 0 ELSE c.diverted
    BY <1>1 DEF ChannelType
  <2>4. d = [c EXCEPT !.nodes[i] = [filled EXCEPT !.expected = @ \/ c.diverted = f],
                      !.diverted = IF @ = f THEN 0 ELSE @]
    BY <1>4, <1>7 DEF Fill
  <2>5. Puts(c, d, p, m, c.expected, v)
    <3>1. d = [c EXCEPT !.nodes = p, !.diverted = v]
      <4> HIDE DEF filled
      <4> QED
        BY <1>1, <2>1, <2>2, <2>3, <2>4 DEF PutsNode, ChannelType
    <3> QED
      BY <1>1, <3>1 DEF Puts, ChannelType
  <2> HIDE DEF q, d, filled
  <2>6. /\ p \in Seq(NodeType) /\ Len(p) = n /\ DOMAIN p = DOMAIN q /\ Ascending(p)
        /\ p[i] = x /\ \A j \in DOMAIN q : j # i => p[j] = q[j]
        /\ \A r, g : Has(p, r, g) <=> Has(q, r, g) \/ (r = s /\ g = f)
    <3>1. q[i].frame = f
      BY DEF q
    <3>2. x.frame = q[i].frame /\ x.bufs = q[i].bufs \cup {s}
      BY <1>5, <2>1, <3>1
    <3>3. q \in Seq(NodeType) /\ Ascending(q)
      BY <1>1
    <3>4. /\ p \in Seq(NodeType) /\ Len(p) = Len(q) /\ DOMAIN p = DOMAIN q /\ Ascending(p)
          /\ p[i] = x /\ \A j \in DOMAIN q : j # i => p[j] = q[j]
          /\ \A j \in DOMAIN q : p[j].frame = q[j].frame
          /\ \A r, g : Has(p, r, g) <=> Has(q, r, g) \/ (r = s /\ g = q[i].frame)
      BY <1>2, <2>2, <3>2, <3>3, PutIn
    <3> QED
      BY <3>1, <3>4
  <2>7. d \in ChannelType /\ Others(c, d) /\ d.nodes = p /\ d.match_cnt = m /\ d.back = c.back
    <3>1. m \in Int /\ c.expected \in Nat
      BY <1>1 DEF ChannelType
    <3> QED
      BY <1>1, <2>3, <2>5, <2>6, <3>1, PutsDoes
  <2>8. Queue(d)
    <3>1. \A k \in 1 .. n : /\ Matched(p[k]) <=> k <= m
                            /\ p[k].bufs # {}
      <4> TAKE k \in 1 .. n
      <4>1. CASE k = i
        BY <1>1, <1>2, <1>5, <1>7, <2>1, <2>6, <4>1 DEF Matched
      <4>2. CASE k # i
        BY <1>1, <2>6, <4>2
      <4> QED
        BY <4>1, <4>2
    <3> QED
      BY <1>1, <2>6, <2>7, <3>1 DEF Queue
  <2>9. Clean(d)
    BY <1>1, <2>6, <2>7 DEF Clean, Fresh, q
  <2> QED
    BY <2>6, <2>7, <2>8, <2>9 DEF Takes, Good, Others, q, d
<1> QED
  BY <1>6, <1>7

\* A node put before position i of q
Spliced(q, i, x) == SubSeq(q, 1, i - 1) \o <<x>> \o SubSeq(q, i, Len(q))

IsSpliced(p, q, i, x) ==
  /\ p \in Seq(NodeType) /\ Len(p) = Len(q) + 1
  /\ \A k \in 1 .. Len(q) + 1 : p[k] = IF k < i THEN q[k] ELSE IF k = i THEN x ELSE q[k - 1]
  /\ \A r, g : Has(p, r, g) <=> Has(q, r, g) \/ (x.frame = g /\ r \in x.bufs)

\* What a sequence is with a node put before one of its positions.
LEMMA SplicedIs ==
  ASSUME NEW q \in Seq(NodeType), NEW i \in 1 .. Len(q) + 1, NEW x \in NodeType
  PROVE  IsSpliced(Spliced(q, i, x), q, i, x)
<1> DEFINE n == Len(q)
           u == SubSeq(q, 1, i - 1)
           v == SubSeq(q, i, n)
           p == Spliced(q, i, x)
<1>1. n \in Nat /\ i \in Nat /\ 1 <= i /\ i <= n + 1 /\ DOMAIN q = 1 .. n
  OBVIOUS
<1>2. u \in Seq(NodeType) /\ Len(u) = i - 1 /\ \A k \in 1 .. i - 1 : u[k] = q[k]
  BY <1>1
<1>3. v \in Seq(NodeType) /\ Len(v) = n - i + 1 /\ \A k \in 1 .. n - i + 1 : v[k] = q[k + i - 1]
  BY <1>1
<1>4. <<x>> \in Seq(NodeType) /\ Len(<<x>>) = 1 /\ <<x>>[1] = x
  OBVIOUS
<1> HIDE DEF u, v, n
<1>5. PICK t : t = u \o <<x>>
  OBVIOUS
<1>6. /\ t \in Seq(NodeType) /\ Len(t) = i
      /\ \A k \in 1 .. i : t[k] = IF k < i THEN q[k] ELSE x
  BY <1>1, <1>2, <1>4, <1>5
<1>7. p = t \o v
  BY <1>5 DEF Spliced, u, v, n
<1> HIDE DEF p
<1>8. p \in Seq(NodeType) /\ Len(p) = n + 1
  <2>1. p \in Seq(NodeType) /\ Len(p) = Len(t) + Len(v)
    <3>1. t \in Seq(NodeType) /\ v \in Seq(NodeType)
      BY <1>3, <1>6
    <3> QED
      BY <1>7, <3>1
  <2>2. i + (n - i + 1) = n + 1
    BY <1>1
  <2> QED
    BY <1>3, <1>6, <2>1, <2>2
<1>9. \A k \in 1 .. n + 1 : p[k] = IF k < i THEN q[k] ELSE IF k = i THEN x ELSE q[k - 1]
  <2> TAKE k \in 1 .. n + 1
  <2>1. CASE k <= i
    <3>1. p[k] = t[k]
      BY <1>1, <1>3, <1>6, <1>7, <2>1
    <3> QED
      BY <1>1, <1>6, <2>1, <3>1
  <2>2. CASE k > i
    <3>1. k - i \in 1 .. n - i + 1 /\ (k - i) + i - 1 = k - 1
      BY <1>1, <2>2
    <3>2. p[k] = v[k - i]
      BY <1>1, <1>3, <1>6, <1>7, <2>2
    <3>3. v[k - i] = q[k - 1]
      BY <1>3, <3>1
    <3> QED
      BY <1>1, <2>2, <3>2, <3>3
  <2> QED
    BY <1>1, <2>1, <2>2
<1>10. ASSUME NEW r, NEW g
       PROVE  Has(p, r, g) <=> Has(q, r, g) \/ (x.frame = g /\ r \in x.bufs)
  <2>0. DOMAIN p = 1 .. n + 1
    BY <1>1, <1>8
  <2>1. ASSUME Has(p, r, g)
        PROVE  Has(q, r, g) \/ (x.frame = g /\ r \in x.bufs)
    <3>1. PICK k \in 1 .. n + 1 : p[k].frame = g /\ r \in p[k].bufs
      BY <2>0, <2>1 DEF Has
    <3>2. CASE k < i
      <4>1. k \in DOMAIN q /\ p[k] = q[k]
        BY <1>1, <1>9, <3>2
      <4> QED
        BY <3>1, <4>1 DEF Has
    <3>3. CASE k = i
      <4>1. p[k] = x
        BY <1>1, <1>9, <3>3
      <4> QED
        BY <3>1, <4>1
    <3>4. CASE k > i
      <4>1. k - 1 \in DOMAIN q /\ p[k] = q[k - 1]
        BY <1>1, <1>9, <3>4
      <4> QED
        BY <3>1, <4>1 DEF Has
    <3> QED
      BY <1>1, <3>2, <3>3, <3>4
  <2>2. ASSUME Has(q, r, g)
        PROVE  Has(p, r, g)
    <3>1. PICK k \in 1 .. n : q[k].frame = g /\ r \in q[k].bufs
      BY <1>1, <2>2 DEF Has
    <3>2. CASE k < i
      <4>1. k \in 1 .. n + 1 /\ p[k] = q[k]
        BY <1>1, <1>9, <3>2
      <4> QED
        BY <2>0, <3>1, <4>1 DEF Has
    <3>3. CASE k >= i
      <4>1. k + 1 \in 1 .. n + 1 /\ ~(k + 1 < i) /\ k + 1 # i /\ (k + 1) - 1 = k
        BY <1>1, <3>3
      <4>2. p[k + 1] = q[k]
        BY <1>9, <4>1
      <4> QED
        BY <2>0, <3>1, <4>1, <4>2 DEF Has
    <3> QED
      BY <1>1, <3>2, <3>3
  <2>3. ASSUME x.frame = g, r \in x.bufs
        PROVE  Has(p, r, g)
    <3>1. i \in 1 .. n + 1 /\ p[i] = x
      BY <1>1, <1>9
    <3> QED
      BY <2>0, <2>3, <3>1 DEF Has
  <2> QED
    BY <2>1, <2>2, <2>3
<1> QED
  BY <1>8, <1>9, <1>10 DEF n, p, IsSpliced

\* No buffer for frame f is in a node
Absent(c, f) == \A r : ~Has(c.nodes, r, f)

\* A new node, before the first newer unmatched one, keeps the queue in order.
LEMMA InsertNode ==
  ASSUME NEW c, Good(c), NEW s \in Streams, NEW f \in Frames, Fresh(c, s, f), Absent(c, f),
         Len(c.nodes) - c.match_cnt <= MaxUnmatched,
         NEW x \in NodeType, x.frame = f, x.bufs = {s},
         NEW i, i = IF Newer(c, f) = {} THEN Len(c.nodes) + 1 ELSE Min(Newer(c, f)),
         NEW v \in Nat, NEW d, Puts(c, d, Spliced(c.nodes, i, x), c.match_cnt, c.expected, v)
  PROVE  Takes(c, d, s, f)
<1> DEFINE q == c.nodes
           m == c.match_cnt
           n == Len(q)
<1>1. /\ c \in ChannelType /\ Queue(c) /\ Clean(c)
      /\ q \in Seq(NodeType) /\ n \in Nat /\ DOMAIN q = 1 .. n /\ m \in 0 .. n /\ Ascending(q)
      /\ \A j \in 1 .. n : Matched(q[j]) <=> j <= m
      /\ \A j \in 1 .. n : q[j].bufs # {}
  <2>1. c \in ChannelType /\ Queue(c) /\ Clean(c)
    BY DEF Good
  <2>2. q \in Seq(NodeType)
    BY <2>1 DEF ChannelType
  <2>3. n \in Nat /\ DOMAIN q = 1 .. n
    BY <2>2
  <2> QED
    BY <2>1, <2>2, <2>3 DEF Queue
<1>2. f \in Nat
  BY ConstantsAssumption DEF Frames
<1>3. \A j \in 1 .. n : q[j].frame \in Nat /\ q[j].frame # f
  <2> TAKE j \in 1 .. n
  <2>1. q[j].frame \in Nat
    BY <1>1, FrameOf
  <2>2. PICK r : r \in q[j].bufs
    BY <1>1
  <2>3. Has(q, r, q[j].frame)
    BY <1>1, <2>2 DEF Has
  <2> QED
    BY <2>1, <2>3 DEF Absent
<1>4. \A j \in 1 .. n : j <= m => q[j].frame < f
  <2> TAKE j \in 1 .. n
  <2> HAVE j <= m
  <2>1. s \in q[j].bufs
    BY <1>1 DEF Matched
  <2>2. Has(q, s, q[j].frame)
    BY <1>1, <2>1 DEF Has
  <2> QED
    BY <2>2 DEF Fresh
<1>5. /\ i \in (m + 1) .. (n + 1)
      /\ \A j \in 1 .. n : q[j].frame < f <=> j < i
  <2>1. Unmatched(c) = (m + 1) .. n
    BY <1>1, LeadingIs
  <2>2. Newer(c, f) = {j \in (m + 1) .. n : q[j].frame > f}
    BY <2>1 DEF Newer
  <2>3. CASE Newer(c, f) = {}
    <3>1. i = n + 1
      BY <2>3
    <3>2. \A j \in 1 .. n : q[j].frame < f
      <4> TAKE j \in 1 .. n
      <4>1. CASE j <= m
        BY <1>4, <4>1
      <4>2. CASE j > m
        <5>1. j \in (m + 1) .. n
          BY <1>1, <4>2
        <5>2. ~(q[j].frame > f)
          BY <2>2, <2>3, <5>1
        <5> QED
          BY <1>2, <1>3, <5>2
      <4> QED
        BY <1>1, <4>1, <4>2
    <3>3. \A j \in 1 .. n : j < n + 1
      BY <1>1
    <3>4. n + 1 \in (m + 1) .. (n + 1)
      BY <1>1
    <3> QED
      BY <3>1, <3>2, <3>3, <3>4
  <2>4. CASE Newer(c, f) # {}
    <3>1. Newer(c, f) \in SUBSET Nat
      BY <1>1, <2>2
    <3>2. i \in Newer(c, f) /\ \A j \in Newer(c, f) : i <= j
      <4>1. i = Min(Newer(c, f))
        BY <2>4
      <4> QED
        BY <2>4, <3>1, <4>1, MinExists
    <3>3. i \in (m + 1) .. n /\ q[i].frame > f
      BY <2>2, <3>2
    <3>4. ASSUME NEW j \in 1 .. n, j < i
          PROVE  q[j].frame < f
      <4>1. CASE j <= m
        BY <1>4, <4>1
      <4>2. CASE j > m
        <5>1. j \in (m + 1) .. n /\ ~(i <= j)
          BY <1>1, <3>3, <3>4, <4>2
        <5>2. ~(q[j].frame > f)
          BY <2>2, <3>2, <5>1
        <5> QED
          BY <1>2, <1>3, <5>2
      <4> QED
        BY <1>1, <4>1, <4>2
    <3>5. ASSUME NEW j \in 1 .. n, ~(j < i)
          PROVE  ~(q[j].frame < f)
      <4>1. i \in 1 .. n /\ (i = j \/ i < j)
        BY <1>1, <3>3, <3>5
      <4>2. i < j => q[i].frame < q[j].frame
        BY <1>1, <4>1 DEF Ascending
      <4>3. q[i].frame \in Nat /\ q[j].frame \in Nat
        BY <1>3, <4>1
      <4> QED
        BY <1>2, <3>3, <4>1, <4>2, <4>3
    <3>6. i \in (m + 1) .. (n + 1)
      BY <1>1, <3>3
    <3> QED
      BY <3>4, <3>5, <3>6
  <2> QED
    BY <2>3, <2>4
<1>6. i \in 1 .. n + 1 /\ i \in Nat
  BY <1>1, <1>5
<1>7. PICK p : p = Spliced(q, i, x)
  OBVIOUS
<1>8. /\ p \in Seq(NodeType) /\ Len(p) = n + 1 /\ DOMAIN p = 1 .. n + 1
      /\ \A k \in 1 .. n + 1 : p[k] = IF k < i THEN q[k] ELSE IF k = i THEN x ELSE q[k - 1]
      /\ \A r, g : Has(p, r, g) <=> Has(q, r, g) \/ (r = s /\ g = f)
  <2>1. /\ p \in Seq(NodeType) /\ Len(p) = n + 1
        /\ \A k \in 1 .. n + 1 : p[k] = IF k < i THEN q[k] ELSE IF k = i THEN x ELSE q[k - 1]
        /\ \A r, g : Has(p, r, g) <=> Has(q, r, g) \/ (x.frame = g /\ r \in x.bufs)
    <3>1. q \in Seq(NodeType) /\ i \in 1 .. Len(q) + 1
      BY <1>1, <1>6
    <3> HIDE DEF q
    <3>2. IsSpliced(p, q, i, x)
      BY <1>7, <3>1, SplicedIs
    <3> QED
      BY <3>2 DEF IsSpliced
  <2>2. DOMAIN p = 1 .. n + 1
    BY <1>1, <2>1
  <2>3. \A r : r \in x.bufs <=> r = s
    OBVIOUS
  <2> QED
    BY <2>1, <2>2, <2>3
<1>9. d \in ChannelType /\ Others(c, d) /\ d.nodes = p /\ d.match_cnt = m /\ d.back = c.back
  <2>1. m \in Int /\ c.expected \in Nat
    BY <1>1 DEF ChannelType
  <2>2. Puts(c, d, p, m, c.expected, v)
    BY <1>7
  <2> HIDE DEF m
  <2> QED
    BY <1>1, <1>8, <2>1, <2>2, PutsDoes
<1> HIDE DEF m, n, q
<1>10. ~Matched(x)
  <2>1. Cardinality({s}) = 1 /\ Cardinality(Streams) > 1
    BY FS_Singleton, ConstantsAssumption
  <2>2. {s} # Streams
    <3> SUFFICES ASSUME {s} = Streams
                 PROVE  FALSE
      OBVIOUS
    <3>1. Cardinality(Streams) = 1
      BY <2>1
    <3> QED
      BY <2>1, <3>1
  <2> QED
    BY <2>2 DEF Matched
<1>11. Ascending(p)
  <2> SUFFICES ASSUME NEW j \in 1 .. n + 1, NEW k \in 1 .. n + 1, j < k
               PROVE  p[j].frame < p[k].frame
    BY <1>8 DEF Ascending
  <2>1. CASE k < i
    <3>1. j \in 1 .. n /\ k \in 1 .. n /\ j < i /\ k < i
      BY <1>1, <1>6, <2>1
    <3> QED
      BY <1>1, <1>8, <3>1 DEF Ascending
  <2>2. CASE k = i
    <3>1. j \in 1 .. n /\ j < i
      BY <1>1, <1>6, <2>2
    <3>2. q[j].frame < f
      BY <1>5, <3>1
    <3>3. p[j] = q[j] /\ p[k] = x
      BY <1>8, <2>2, <3>1
    <3> QED
      BY <3>2, <3>3
  <2>3. CASE k > i /\ j < i
    <3>1. j \in 1 .. n /\ k - 1 \in 1 .. n /\ ~(k < i) /\ k # i /\ j < k - 1
      BY <1>1, <1>6, <2>3
    <3>2. p[j] = q[j] /\ p[k] = q[k - 1]
      BY <1>8, <2>3, <3>1
    <3> QED
      BY <1>1, <3>1, <3>2 DEF Ascending
  <2>4. CASE k > i /\ j = i
    <3>1. k - 1 \in 1 .. n /\ ~(k < i) /\ k # i /\ ~(k - 1 < i)
      BY <1>1, <1>6, <2>4
    <3>2. p[j] = x /\ p[k] = q[k - 1]
      BY <1>8, <2>4, <3>1
    <3>3. ~(q[k - 1].frame < f) /\ q[k - 1].frame \in Nat /\ q[k - 1].frame # f
      BY <1>3, <1>5, <3>1
    <3>4. f < q[k - 1].frame
      BY <1>2, <3>3
    <3> QED
      BY <3>2, <3>4
  <2>5. CASE j > i
    <3>1. /\ j - 1 \in 1 .. n /\ ~(j < i) /\ j # i /\ k - 1 \in 1 .. n /\ ~(k < i) /\ k # i
          /\ j - 1 < k - 1
      BY <1>1, <1>6, <2>5
    <3>2. p[j] = q[j - 1] /\ p[k] = q[k - 1]
      BY <1>8, <3>1
    <3> QED
      BY <1>1, <3>1, <3>2 DEF Ascending
  <2> QED
    BY <1>6, <2>1, <2>2, <2>3, <2>4, <2>5
<1>12. ASSUME NEW k \in 1 .. n + 1
       PROVE  (Matched(p[k]) <=> k <= m) /\ p[k].bufs # {}
  <2>1. CASE k < i
    <3>1. k \in 1 .. n
      BY <1>1, <1>6, <2>1
    <3> QED
      BY <1>1, <1>8, <2>1, <3>1
  <2>2. CASE k = i
    <3>1. ~(k <= m) /\ p[k] = x
      BY <1>1, <1>5, <1>8, <2>2
    <3> QED
      BY <1>10, <3>1
  <2>3. CASE k > i
    <3>1. k - 1 \in 1 .. n /\ ~(k < i) /\ k # i /\ ~(k <= m) /\ ~(k - 1 <= m)
      BY <1>1, <1>5, <1>6, <2>3
    <3>2. p[k] = q[k - 1]
      BY <1>8, <3>1
    <3> QED
      BY <1>1, <3>1, <3>2
  <2> QED
    BY <1>6, <2>1, <2>2, <2>3
<1>13. Queue(d)
  <2>1. m \in 0 .. (n + 1) /\ (n + 1) - m <= MaxUnmatched + 1
    <3>1. MaxUnmatched \in Nat /\ n - m <= MaxUnmatched
      BY ConstantsAssumption DEF n, m, q
    <3> QED
      BY <1>1, <3>1
  <2> QED
    BY <1>8, <1>9, <1>11, <1>12, <2>1 DEF Queue
<1>14. Clean(d)
  BY <1>1, <1>8, <1>9 DEF Clean, Fresh, q
<1> QED
  BY <1>8, <1>9, <1>13, <1>14 DEF Takes, Good, Others, q

\* A new frame stays new when buffers are given back.
LEMMA LessFresh ==
  ASSUME NEW c, NEW d, Good(c), Less(c, d), NEW s, NEW f \in Frames, Fresh(c, s, f)
  PROVE  /\ Fresh(d, s, f)
         /\ Absent(c, f) => Absent(d, f)
<1>1. ~(f < f)
  BY ConstantsAssumption DEF Frames
<1>2. ~Has(c.nodes, s, f)
  BY <1>1 DEF Fresh
<1> QED
  BY <1>2 DEF Less, Fresh, Absent

\* Unmatched nodes are removed and their buffers given back.
LEMMA RemoveDoes ==
  ASSUME NEW c, Good(c), NEW a \in Nat, NEW b \in Nat, c.match_cnt < a, a <= b + 1, b <= Len(c.nodes),
         NEW F, F = FramesOf(c.nodes, a, b)
  PROVE  LET d == Without(c, F)
         IN  Less(c, d) /\ Others(c, d) /\ d.match_cnt = c.match_cnt /\ Len(d.nodes) = Len(c.nodes) - (b + 1 - a)
<1> DEFINE q == c.nodes
           m == c.match_cnt
           n == Len(q)
           d == Without(c, F)
<1>1. /\ c \in ChannelType /\ Queue(c) /\ Clean(c)
      /\ q \in Seq(NodeType) /\ n \in Nat /\ DOMAIN q = 1 .. n /\ m \in 0 .. n /\ Ascending(q)
      /\ \A j \in 1 .. n : Matched(q[j]) <=> j <= m
      /\ \A j \in 1 .. n : q[j].bufs # {}
      /\ n - m <= MaxUnmatched + 1
  <2>1. c \in ChannelType /\ Queue(c) /\ Clean(c)
    BY DEF Good
  <2>2. q \in Seq(NodeType)
    BY <2>1 DEF ChannelType
  <2>3. n \in Nat /\ DOMAIN q = 1 .. n
    BY <2>2
  <2> QED
    BY <2>1, <2>2, <2>3 DEF Queue
<1>2. a \in Nat \ {0}
  BY <1>1
<1>3. /\ d \in ChannelType /\ Others(c, d) /\ d.match_cnt = m
      /\ d.nodes = CutOut(q, a, b)
      /\ \A s, g : <<s, g>> \in d.back <=>
           <<s, g>> \in c.back \/ \E i \in a .. b : q[i].frame = g /\ s \in q[i].bufs
  BY <1>1, <1>2, WithoutDoes, SMTT(30)
<1>4. PICK z : z = CutOut(q, a, b)
  OBVIOUS
<1> HIDE DEF d
<1>20. Cuts(q, z, a, b)
  <2> HIDE DEF q
  <2> QED
    BY <1>1, <1>2, <1>4 DEF Cuts, q
<1>5. z \in Seq(NodeType) /\ Len(z) = n - (b + 1 - a) /\ Ascending(z)
  <2> HIDE DEF q
  <2> QED
    BY <1>20, CutsType
<1>6. \A k \in DOMAIN z : z[k] = IF k < a THEN q[k] ELSE q[k + (b + 1 - a)]
  <2> HIDE DEF q
  <2> QED
    BY <1>20, CutsOrder
<1>7. \A r, g : Has(z, r, g) <=>
                  Has(q, r, g) /\ ~ \E j \in a .. b : q[j].frame = g /\ r \in q[j].bufs
  <2> HIDE DEF q
  <2> QED
    BY <1>20, CutsBuffers
<1>8. PICK w \in Nat : w = b + 1 - a
  OBVIOUS
<1> HIDE DEF m, n, q
<1>9. ASSUME NEW k \in 1 .. n - w
      PROVE  (Matched(z[k]) <=> k <= m) /\ z[k].bufs # {}
  <2>1. DOMAIN z = 1 .. n - w
    BY <1>5, <1>8
  <2>2. CASE k < a
    <3>1. k \in 1 .. n /\ z[k] = q[k]
      BY <1>1, <1>6, <1>8, <2>1, <2>2
    <3> QED
      BY <1>1, <3>1
  <2>3. CASE ~(k < a)
    <3>0. m < a
      BY DEF m
    <3>1. k + w \in 1 .. n /\ ~(k <= m) /\ ~(k + w <= m)
      BY <1>1, <1>8, <2>3, <3>0
    <3>2. z[k] = q[k + w]
      BY <1>6, <1>8, <2>1, <2>3
    <3> QED
      BY <1>1, <3>1, <3>2
  <2> QED
    BY <2>2, <2>3
<1>10. Queue(d)
  <2>0. m < a /\ b <= n
    BY DEF m, n, q
  <2>1. m \in 0 .. (n - w) /\ (n - w) - m <= MaxUnmatched + 1
    <3>1. MaxUnmatched \in Nat
      BY ConstantsAssumption
    <3> QED
      BY <1>1, <1>8, <2>0, <3>1
  <2>2. DOMAIN z = 1 .. n - w /\ Len(z) = n - w
    BY <1>5, <1>8
  <2> QED
    BY <1>3, <1>4, <1>5, <1>9, <2>1, <2>2 DEF Queue
<1>11. ASSUME NEW r, NEW g
       PROVE  (\E j \in a .. b : q[j].frame = g /\ r \in q[j].bufs) => Has(q, r, g)
  <2>1. \A j \in a .. b : j \in DOMAIN q
    <3>1. b <= n
      BY DEF n, q
    <3> QED
      BY <1>1, <1>2, <3>1
  <2> QED
    BY <2>1 DEF Has
<1>12. Clean(d)
  BY <1>1, <1>3, <1>4, <1>7 DEF Clean, q
<1>13. Less(c, d)
  <2>1. \A r, g : Has(d.nodes, r, g) => Has(c.nodes, r, g)
    BY <1>3, <1>4, <1>7 DEF q
  <2>2. ASSUME NEW r, NEW g
        PROVE  Has(d.nodes, r, g) \/ <<r, g>> \in d.back <=> Has(c.nodes, r, g) \/ <<r, g>> \in c.back
    <3> DEFINE X == \E j \in a .. b : q[j].frame = g /\ r \in q[j].bufs
    <3>1. Has(d.nodes, r, g) <=> Has(q, r, g) /\ ~X
      BY <1>3, <1>4, <1>7
    <3>2. <<r, g>> \in d.back <=> <<r, g>> \in c.back \/ X
      BY <1>3
    <3>3. X => Has(q, r, g)
      BY <1>11
    <3> HIDE DEF X
    <3> QED
      BY <3>1, <3>2, <3>3 DEF q
  <2> QED
    BY <1>3, <1>10, <1>12, <2>1, <2>2 DEF Less, Good, Others
<1> QED
  BY <1>3, <1>4, <1>5, <1>13 DEF d, m, n, q

\* Before a node is inserted room is made for it: one unmatched node goes when
\* there are as many as there can be, and none otherwise.
LEMMA RemovedIs ==
  ASSUME NEW c, Good(c), NEW f \in Frames,
         ~(Cardinality(Unmatched(c)) > MaxUnmatched /\ Older(c, f) = {})
  PROVE  \E a, b \in Nat :
           /\ c.match_cnt < a /\ a <= b + 1 /\ b <= Len(c.nodes)
           /\ Removed(c, f) = a .. b
           /\ Len(c.nodes) - (b + 1 - a) - c.match_cnt <= MaxUnmatched
<1> DEFINE q == c.nodes
           m == c.match_cnt
           n == Len(q)
           many == Cardinality(Unmatched(c)) - MaxUnmatched
           R == Removable(c, f)
           first == {i \in R : Cardinality({j \in R : j < i}) < many}
<1>1. c \in ChannelType /\ Queue(c) /\ q \in Seq(NodeType) /\ n \in Nat /\ DOMAIN q = 1 .. n
      /\ m \in 0 .. n /\ n - m <= MaxUnmatched + 1 /\ MaxUnmatched \in Nat
  <2>1. c \in ChannelType /\ Queue(c)
    BY DEF Good
  <2>2. q \in Seq(NodeType)
    BY <2>1 DEF ChannelType
  <2>3. n \in Nat /\ DOMAIN q = 1 .. n
    BY <2>2
  <2>4. MaxUnmatched \in Nat
    BY ConstantsAssumption
  <2> QED
    BY <2>1, <2>2, <2>3, <2>4 DEF Queue
<1>2. Unmatched(c) = (m + 1) .. n /\ many = n - m - MaxUnmatched
  <2>1. Unmatched(c) = (m + 1) .. n /\ Cardinality(Unmatched(c)) = n - m
    BY <1>1, LeadingIs
  <2> QED
    BY <1>1, <2>1
<1>3. Removed(c, f) = IF Cardinality(first) < many THEN first \cup {Min(Older(c, f))} ELSE first
  BY DEF Removed
<1>4. R \subseteq (m + 1) .. n
  <2>1. \A i \in R : i \in 1 .. n /\ \E j \in (m + 1) .. n : j <= i
    BY <1>1, <1>2 DEF Removable, Older
  <2> QED
    BY <1>1, <2>1
<1>5. \A i \in R : {j \in R : j < i} \subseteq 1 .. n
  BY <1>1, <1>4
<1>6. \A i \in R : IsFiniteSet({j \in R : j < i}) /\ Cardinality({j \in R : j < i}) \in Nat
  <2> TAKE i \in R
  <2>1. IsFiniteSet(1 .. n)
    BY <1>1, FS_Interval
  <2>2. IsFiniteSet({j \in R : j < i})
    BY <1>5, <2>1, FS_Subset
  <2> QED
    BY <2>2, FS_CardinalityType
<1> HIDE DEF R, many
<1>7. CASE many <= 0
  <2>1. many \in Int
    BY <1>1, <1>2
  <2>2. \A i \in R : ~(Cardinality({j \in R : j < i}) < many)
    <3> TAKE i \in R
    <3>1. PICK x \in Nat : x = Cardinality({j \in R : j < i})
      BY <1>6
    <3>2. ~(x < many)
      BY <1>7, <2>1
    <3> QED
      BY <3>1, <3>2
  <2>3. first = {}
    BY <2>2
  <2>4. ~(Cardinality(first) < many)
    <3>1. Cardinality(first) = 0
      BY <2>3, FS_EmptySet
    <3> QED
      BY <1>7, <2>1, <3>1
  <2>5. Removed(c, f) = {}
    BY <1>3, <2>3, <2>4
  <2>6. m + 1 \in Nat /\ m \in Nat /\ m < m + 1 /\ (m + 1) .. m = {} /\ n - (m + 1 - (m + 1)) - m <= MaxUnmatched
    <3>1. m \in Nat /\ n \in Nat /\ n - m - MaxUnmatched <= 0
      BY <1>1, <1>2, <1>7
    <3> HIDE DEF m, n
    <3> QED
      BY <1>1, <3>1
  <2>7. PICK a \in Nat, b \in Nat : a = m + 1 /\ b = m
    BY <2>6
  <2>8. m < a /\ a <= b + 1 /\ b <= n /\ Removed(c, f) = a .. b /\ n - (b + 1 - a) - m <= MaxUnmatched
    <3>1. m < a /\ a <= b + 1 /\ n - (b + 1 - a) - m <= MaxUnmatched
      BY <1>1, <2>6, <2>7
    <3>2. b <= n /\ a .. b = {}
      BY <1>1, <2>6, <2>7
    <3> QED
      BY <2>5, <3>1, <3>2
  <2> QED
    BY <2>8
<1>8. CASE many > 0
  <2>1. many = 1
    BY <1>1, <1>2, <1>8
  <2>2. \E r \in (m + 1) .. n : Removed(c, f) = {r}
    <3>1. CASE R = {}
      <4>1. Cardinality(first) = 0 /\ first = {}
        BY <3>1, FS_EmptySet
      <4>2. Removed(c, f) = {Min(Older(c, f))}
        <5>1. Cardinality(first) < many
          BY <2>1, <4>1
        <5> QED
          BY <1>3, <4>1, <5>1
      <4>3. Older(c, f) # {}
        <5>1. Cardinality(Unmatched(c)) > MaxUnmatched
          <6>1. Cardinality(Unmatched(c)) = n - m
            BY <1>1, LeadingIs
          <6> QED
            BY <1>1, <1>2, <2>1, <6>1
        <5> QED
          BY <5>1
      <4>4. Older(c, f) \subseteq (m + 1) .. n
        BY <1>2 DEF Older
      <4>5. Min(Older(c, f)) \in (m + 1) .. n
        <5>1. Older(c, f) \in SUBSET Nat
          BY <1>1, <4>4
        <5> QED
          BY <4>3, <4>4, <5>1, MinExists
      <4> QED
        BY <4>2, <4>5
    <3>2. CASE R # {}
      <4>1. R \in SUBSET Nat
        BY <1>1, <1>4
      <4>2. PICK r \in R : \A x \in R : r <= x
        BY <3>2, <4>1, MinExists
      <4>3. \A i \in R : Cardinality({j \in R : j < i}) < 1 <=> i = r
        <5> TAKE i \in R
        <5>1. PICK S : S = {j \in R : j < i}
          OBVIOUS
        <5>2. IsFiniteSet(S) /\ Cardinality(S) \in Nat
          BY <1>6, <5>1
        <5>3. Cardinality(S) < 1 <=> S = {}
          BY <5>2, FS_EmptySet
        <5>4. S = {} <=> i = r
          <6>1. i \in Nat /\ r \in Nat /\ r <= i
            BY <4>1, <4>2
          <6>2. S = {} => ~(r < i)
            BY <4>2, <5>1
          <6>3. i = r => S = {}
            <7>1. \A j \in R : r <= j /\ j \in Nat
              BY <4>1, <4>2
            <7>2. i = r => \A j \in R : ~(j < i)
              BY <6>1, <7>1
            <7> QED
              BY <5>1, <7>2
          <6> QED
            BY <6>1, <6>2, <6>3
        <5> QED
          BY <5>1, <5>3, <5>4
      <4>4. first = {r}
        BY <2>1, <4>2, <4>3
      <4>5. Cardinality(first) = 1
        BY <4>4, FS_Singleton
      <4>6. Removed(c, f) = {r}
        <5>1. ~(Cardinality(first) < many)
          BY <2>1, <4>5
        <5> QED
          BY <1>3, <4>4, <5>1
      <4> QED
        BY <1>4, <4>2, <4>6
    <3> QED
      BY <3>1, <3>2
  <2>3. PICK r \in (m + 1) .. n : Removed(c, f) = {r}
    BY <2>2
  <2>4. r \in Nat /\ m < r /\ r <= n /\ {r} = r .. r /\ r <= r + 1 /\ n - (r + 1 - r) - m <= MaxUnmatched
    BY <1>1, <2>1
  <2>5. PICK a \in Nat, b \in Nat : a = r /\ b = r
    BY <2>4
  <2>6. m < a /\ a <= b + 1 /\ b <= n /\ Removed(c, f) = a .. b /\ n - (b + 1 - a) - m <= MaxUnmatched
    BY <2>3, <2>4, <2>5
  <2> QED
    BY <2>6
<1>9. many \in Int
  BY <1>1, <1>2
<1> QED
  BY <1>7, <1>8, <1>9

\* A buffer for a frame without a node: room is made, and it gets a node of its own.
LEMMA InsertDoes ==
  ASSUME NEW c, Good(c), NEW s \in Streams, NEW f \in Frames, Fresh(c, s, f), Absent(c, f)
  PROVE  Takes(c, Insert(c, s, f), s, f)
<1>1. CASE Cardinality(Unmatched(c)) > MaxUnmatched /\ Older(c, f) = {}
  <2>1. Insert(c, s, f) = GiveBack(c, {<<s, f>>})
    BY <1>1 DEF Insert
  <2> QED
    BY <2>1, ReturnTakes
<1>2. CASE ~(Cardinality(Unmatched(c)) > MaxUnmatched /\ Older(c, f) = {})
  <2>1. PICK a \in Nat, b \in Nat :
          /\ c.match_cnt < a /\ a <= b + 1 /\ b <= Len(c.nodes)
          /\ Removed(c, f) = a .. b
          /\ Len(c.nodes) - (b + 1 - a) - c.match_cnt <= MaxUnmatched
    BY <1>2, RemovedIs
  <2>2. PICK F : F = FramesOf(c.nodes, a, b)
    OBVIOUS
  <2>3. PICK less : less = Without(c, F)
    OBVIOUS
  <2>4. /\ Less(c, less) /\ less.match_cnt = c.match_cnt
        /\ Len(less.nodes) = Len(c.nodes) - (b + 1 - a)
    <3>1. c.match_cnt < a /\ a <= b + 1 /\ b <= Len(c.nodes)
      BY <2>1
    <3>2. Less(c, Without(c, F))
      BY <2>2, <3>1, RemoveDoes, SMTT(30)
    <3>3. Without(c, F).match_cnt = c.match_cnt
      BY <2>2, <3>1, RemoveDoes, SMTT(30)
    <3>4. Len(Without(c, F).nodes) = Len(c.nodes) - (b + 1 - a)
      BY <2>2, <3>1, RemoveDoes, SMTT(30)
    <3> QED
      BY <2>3, <3>2, <3>3, <3>4
  <2>5. Good(less) /\ less.sent = c.sent /\ less \in ChannelType /\ less.nodes \in Seq(NodeType)
    <3>1. Good(less) /\ less.sent = c.sent /\ less \in ChannelType
      BY <2>4 DEF Less, Good
    <3> QED
      BY <3>1 DEF ChannelType
  <2>6. Fresh(less, s, f) /\ Absent(less, f)
    BY <2>4, LessFresh
  <2>7. PICK x \in NodeType : /\ x = [frame |-> f, bufs |-> {s}, expected |-> f \in {c.diverted, c.good}]
                              /\ x.frame = f /\ x.bufs = {s}
    <3>1. PICK e : e = (f \in {c.diverted, c.good})
      OBVIOUS
    <3>2. e \in BOOLEAN
      BY <3>1
    <3>3. [frame |-> f, bufs |-> {s}, expected |-> e] \in NodeType
      BY <3>2 DEF NodeType
    <3> QED
      BY <3>1, <3>3
  <2>8. PICK i : i = IF Newer(less, f) = {} THEN Len(less.nodes) + 1 ELSE Min(Newer(less, f))
    OBVIOUS
  <2>9. PICK v \in Nat : v = IF x.expected THEN 0 ELSE less.diverted
    BY <2>5 DEF ChannelType
  <2>10. F = {c.nodes[j].frame : j \in Removed(c, f)}
    BY <2>1, <2>2 DEF FramesOf
  <2>11. Insert(c, s, f) = [less EXCEPT !.nodes = SubSeq(@, 1, i - 1) \o <<x>> \o SubSeq(@, i, Len(@)),
                                        !.diverted = IF x.expected THEN 0 ELSE @]
    BY <1>2, <2>3, <2>7, <2>8, <2>10 DEF Insert
  <2>12. PICK d : d = Insert(c, s, f)
    OBVIOUS
  <2>13. PICK p : p = Spliced(less.nodes, i, x)
    OBVIOUS
  <2>14. d = [less EXCEPT !.nodes = p, !.diverted = v]
    BY <2>5, <2>9, <2>11, <2>12, <2>13 DEF Spliced, ChannelType
  <2>15. Puts(less, d, p, less.match_cnt, less.expected, v)
    BY <2>5, <2>14 DEF Puts, ChannelType
  <2>16. Len(less.nodes) - less.match_cnt <= MaxUnmatched
    BY <2>1, <2>4
  <2>17. Takes(less, d, s, f)
    BY <2>5, <2>6, <2>7, <2>8, <2>13, <2>15, <2>16, InsertNode
  <2> QED
    BY <2>4, <2>5, <2>12, <2>17 DEF Takes, Less
<1> QED
  BY <1>1, <1>2

\* What the command thread does with a frame: the buffer is in the queue or given back.
LEMMA CompAndEnqueueDoes ==
  ASSUME NEW c0, Good(c0), NEW s \in Streams, NEW f \in Frames, Fresh(c0, s, f), NEW info \in InfoType
  PROVE  Takes(c0, CompAndEnqueue(c0, s, f, info), s, f)
<1>1. PICK c : c = IF s = Meta THEN HandleMetadata(c0, f, info) ELSE c0
  OBVIOUS
<1>2. Less(c0, c)
  <2>1. Less(c0, c0)
    BY DEF Less
  <2> QED
    BY <1>1, <2>1, HandleMetadataDoes
<1>3. Good(c) /\ Fresh(c, s, f) /\ c.sent = c0.sent
  BY <1>2, LessFresh DEF Less
<1>4. PICK same : same = {i \in Unmatched(c) : c.nodes[i].frame = f}
  OBVIOUS
<1>5. PICK d : d = CompAndEnqueue(c0, s, f, info)
  OBVIOUS
<1>6. d = IF Discarded(c, f) THEN GiveBack(c, {<<s, f>>})
          ELSE IF same # {} THEN Fill(c, s, f, Min(same))
          ELSE Insert(c, s, f)
  BY <1>1, <1>4, <1>5 DEF CompAndEnqueue
<1>7. /\ c \in ChannelType /\ Queue(c) /\ c.nodes \in Seq(NodeType) /\ Len(c.nodes) \in Nat
      /\ c.match_cnt \in 0 .. Len(c.nodes) /\ Unmatched(c) = (c.match_cnt + 1) .. Len(c.nodes)
  <2>1. c \in ChannelType /\ Queue(c)
    BY <1>3 DEF Good
  <2>2. c.nodes \in Seq(NodeType)
    BY <2>1 DEF ChannelType
  <2>3. Unmatched(c) = (c.match_cnt + 1) .. Len(c.nodes)
    BY <2>1, LeadingIs
  <2>4. c.match_cnt \in 0 .. Len(c.nodes)
    BY <2>1 DEF Queue
  <2> QED
    BY <2>1, <2>2, <2>3, <2>4
<1>8. Takes(c, d, s, f)
  <2>1. CASE Discarded(c, f)
    BY <1>3, <1>6, <2>1, ReturnTakes
  <2>2. CASE ~Discarded(c, f) /\ same # {}
    <3>1. same \in SUBSET Nat
      BY <1>4, <1>7
    <3>2. PICK i : i = Min(same)
      OBVIOUS
    <3>3. i \in Unmatched(c) /\ c.nodes[i].frame = f
      <4>1. i \in same
        BY <2>2, <3>1, <3>2, MinExists
      <4> QED
        BY <1>4, <4>1
    <3>4. d = Fill(c, s, f, i)
      BY <1>6, <2>2, <3>2
    <3> QED
      BY <1>3, <3>3, <3>4, FillDoes
  <2>3. CASE ~Discarded(c, f) /\ same = {}
    <3>1. d = Insert(c, s, f)
      BY <1>6, <2>3
    <3>2. Absent(c, f)
      <4> SUFFICES ASSUME NEW r, Has(c.nodes, r, f)
                   PROVE  FALSE
        BY DEF Absent
      <4>1. PICK i \in DOMAIN c.nodes : c.nodes[i].frame = f /\ r \in c.nodes[i].bufs
        BY DEF Has
      <4>2. Matched(c.nodes[i])
        BY <1>4, <2>3, <4>1 DEF Unmatched
      <4>3. Has(c.nodes, s, f)
        BY <4>1, <4>2 DEF Matched, Has
      <4>4. ~(f < f)
        BY ConstantsAssumption DEF Frames
      <4> QED
        BY <1>3, <4>3, <4>4 DEF Fresh
    <3> QED
      BY <1>3, <3>1, <3>2, InsertDoes
  <2> QED
    BY <2>1, <2>2, <2>3
<1> QED
  BY <1>2, <1>5, <1>8 DEF Takes, Less

-----------------------------------------------------------------------------
(* What follows a command.                                                 *)

\* The surplus is at the head of the queue and is dropped.
LEMMA TrimDoes ==
  ASSUME NEW c, Good(c), NEW mark \in Nat
  PROVE  /\ Less(c, Trim(c, mark)) /\ Others(c, Trim(c, mark))
         /\ c.mode = "burst" => Trim(c, mark).match_cnt <= mark
<1>1. c \in ChannelType /\ Queue(c)
  BY DEF Good
<1>2. c.match_cnt \in Nat
  <2>1. c.nodes \in Seq(NodeType)
    BY <1>1 DEF ChannelType
  <2> QED
    BY <1>1, <2>1 DEF Queue
<1>3. PICK k \in 0 .. c.match_cnt :
        /\ k = Surplus(c, mark)
        /\ c.mode = "burst" => c.match_cnt - k <= mark
  <2>1. CASE c.mode = "burst" /\ c.match_cnt > mark
    <3>1. Surplus(c, mark) = c.match_cnt - mark
      BY <2>1 DEF Surplus
    <3>2. c.match_cnt - mark \in 0 .. c.match_cnt /\ c.match_cnt - (c.match_cnt - mark) <= mark
      BY <1>2, <2>1
    <3> QED
      BY <3>1, <3>2
  <2>2. CASE ~(c.mode = "burst" /\ c.match_cnt > mark)
    <3>1. Surplus(c, mark) = 0
      BY <2>2 DEF Surplus
    <3>2. 0 \in 0 .. c.match_cnt /\ (c.mode = "burst" => c.match_cnt - 0 <= mark)
      BY <1>2, <2>2
    <3> QED
      BY <3>1, <3>2
  <2> QED
    BY <2>1, <2>2
<1>4. PICK d : d = Trim(c, mark)
  OBVIOUS
<1>5. d = DropFirst(c, k)
  BY <1>3, <1>4 DEF Trim
<1>6. Less(c, d) /\ Others(c, d) /\ d.match_cnt = c.match_cnt - k
  BY <1>5, DropFirstDoes
<1> QED
  BY <1>3, <1>4, <1>6

\* The end of the snapshot mode.
LEMMA StopZslDoes ==
  ASSUME NEW c \in ChannelType
  PROVE  LET d == StopZsl(c)
         IN  /\ d \in ChannelType /\ QueueKept(c, d) /\ ~d.zsl
             /\ d.mode = c.mode /\ d.pending = c.pending /\ d.wait = c.wait
<1>1. PICK e1 \in ChannelType : e1 = [c EXCEPT !.zsl = FALSE]
  BY SetFlag
<1>2. PICK e2 \in ChannelType : e2 = [e1 EXCEPT !.led = FALSE]
  BY SetFlag
<1>3. PICK e3 \in ChannelType : e3 = [e2 EXCEPT !.burst = 0]
  <2>1. PICK z \in Nat : z = 0
    OBVIOUS
  <2> QED
    BY <2>1, SetNumber
<1>4. PICK e4 \in ChannelType : e4 = [e3 EXCEPT !.stop_zsl = FALSE]
  BY SetFlag
<1>5. PICK e5 \in ChannelType : e5 = [e4 EXCEPT !.bracketing = "off"]
  BY SetMode
<1>6. StopZsl(c) = e5
  BY <1>1, <1>2, <1>3, <1>4, <1>5 DEF StopZsl, ChannelType
<1>7. QueueKept(c, StopZsl(c)) /\ ~StopZsl(c).zsl
  BY DEF StopZsl, ChannelType, QueueKept
<1>8. /\ StopZsl(c).mode = c.mode /\ StopZsl(c).pending = c.pending
      /\ StopZsl(c).wait = c.wait
  BY DEF StopZsl, ChannelType
<1> QED
  BY <1>6, <1>7, <1>8

\* The snapshot mode is started or ended where it has to be.
LEMMA UpdateZslDoes ==
  ASSUME NEW c \in ChannelType
  PROVE  LET d == UpdateZsl(c)
         IN  d \in ChannelType /\ QueueKept(c, d) /\ d.mode = c.mode /\ ZslFine(d)
<1> DEFINE A == c.pending > 0 /\ (c.led \/ c.bracketing # "off") /\ ~c.manual /\ ~c.zsl
           B == (c.pending = 0 \/ c.stop_zsl) /\ ~c.manual /\ c.zsl
<1>1. CASE A
  <2>1. UpdateZsl(c) = StartZsl(c)
    <3>1. ~B
      BY <1>1
    <3> QED
      BY <1>1, <3>1 DEF UpdateZsl
  <2>2. PICK e1 \in ChannelType : e1 = [c EXCEPT !.zsl = TRUE]
    BY SetFlag
  <2>3. c.pending \in Nat
    BY DEF ChannelType
  <2>4. PICK e2 \in ChannelType : e2 = [e1 EXCEPT !.burst = c.pending]
    BY <2>3, SetNumber
  <2>5. PICK e3 \in ChannelType : e3 = [e2 EXCEPT !.wait = FALSE]
    BY SetFlag
  <2>6. StartZsl(c) = e3
    BY <2>2, <2>4, <2>5 DEF StartZsl, ChannelType
  <2>7. QueueKept(c, StartZsl(c)) /\ StartZsl(c).mode = c.mode /\ StartZsl(c).pending = c.pending
    BY DEF StartZsl, ChannelType, QueueKept
  <2> QED
    BY <1>1, <2>1, <2>6, <2>7 DEF ZslFine
<1>2. CASE B
  <2>1. PICK e : e = StopZsl(c)
    OBVIOUS
  <2>2. e \in ChannelType /\ QueueKept(c, e) /\ ~e.zsl /\ e.mode = c.mode
    BY <2>1, StopZslDoes
  <2>3. PICK d : d = [e EXCEPT !.wait = FALSE]
    OBVIOUS
  <2>4. UpdateZsl(c) = d
    <3>1. ~A
      BY <1>2
    <3> QED
      BY <1>2, <2>1, <2>3, <3>1 DEF UpdateZsl
  <2>5. d \in ChannelType
    BY <2>2, <2>3, SetFlag
  <2>6. QueueKept(e, d) /\ d.zsl = e.zsl /\ d.mode = e.mode
    BY <2>2, <2>3 DEF ChannelType, QueueKept
  <2> QED
    BY <2>2, <2>4, <2>5, <2>6 DEF QueueKept, ZslFine
<1>3. CASE ~A /\ ~B
  <2>1. UpdateZsl(c) = c
    BY <1>3 DEF UpdateZsl
  <2>2. ZslFine(c)
    <3>1. c.pending \in Nat
      BY DEF ChannelType
    <3> QED
      BY <1>3, <3>1 DEF ZslFine
  <2> QED
    BY <2>1, <2>2 DEF QueueKept
<1> QED
  BY <1>1, <1>2, <1>3

\* How many super buffers are sent.
LEMMA ReadyIs ==
  ASSUME NEW c \in ChannelType, Queue(c)
  PROVE  /\ Ready(c) \in 0 .. c.match_cnt
         /\ c.wait => Ready(c) = 0
         /\ ~c.wait /\ c.mode = "continuous" => Ready(c) = c.match_cnt
         /\ c.mode # "continuous" =>
              /\ Ready(c) <= c.pending
              /\ c.retro > 0 => Ready(c) <= c.retro
              /\ c.wait \/ Ready(c) \in {c.match_cnt, c.pending} \/ (c.retro > 0 /\ Ready(c) = c.retro)
<1>1. c.match_cnt \in Nat /\ c.pending \in Nat /\ c.retro \in Nat /\ Leading(c) = c.match_cnt
  <2>1. c.nodes \in Seq(NodeType) /\ c.pending \in Nat /\ c.retro \in Nat
    BY DEF ChannelType
  <2>2. c.match_cnt \in Nat
    BY <2>1 DEF Queue
  <2> QED
    BY <2>1, <2>2, LeadingIs
<1>2. CASE c.wait
  <2>1. Ready(c) = 0
    BY <1>2 DEF Ready
  <2> QED
    BY <1>1, <1>2, <2>1
<1>3. CASE ~c.wait /\ c.mode = "continuous"
  <2>1. Ready(c) = c.match_cnt
    BY <1>1, <1>3 DEF Ready
  <2> QED
    BY <1>1, <1>3, <2>1
<1>4. CASE ~c.wait /\ c.mode # "continuous"
  <2> DEFINE S == {c.match_cnt, c.pending} \cup (IF c.retro > 0 THEN {c.retro} ELSE {})
  <2>1. Ready(c) = Min(S)
    BY <1>1, <1>4 DEF Ready
  <2>2. S \in SUBSET Nat /\ S # {}
    BY <1>1
  <2> HIDE DEF S
  <2>3. Ready(c) \in S /\ \A x \in S : Ready(c) <= x
    BY <2>1, <2>2, MinExists
  <2>4. c.match_cnt \in S /\ c.pending \in S /\ (c.retro > 0 => c.retro \in S)
    BY DEF S
  <2>5. \A x \in S : x \in {c.match_cnt, c.pending} \/ (c.retro > 0 /\ x = c.retro)
    BY DEF S
  <2>6. Ready(c) \in Nat
    BY <2>2, <2>3
  <2>7. Ready(c) \in 0 .. c.match_cnt
    BY <1>1, <2>3, <2>4, <2>6
  <2> QED
    BY <1>4, <2>3, <2>4, <2>5, <2>7
<1> QED
  BY <1>2, <1>3, <1>4

\* Assignments to what is sent, and to what is still to be
SetsSent(c, d, q) == d = [c EXCEPT !.sent = q]
SetsServed(c, d, p, r, w) == d = [c EXCEPT !.pending = p, !.retro = r, !.wait = w]

\* What they leave alone.
LEMMA SentDoes ==
  ASSUME NEW c \in ChannelType, NEW q \in Seq(Frames), NEW d, SetsSent(c, d, q)
  PROVE  /\ d \in ChannelType /\ d.sent = q
         /\ d.nodes = c.nodes /\ d.match_cnt = c.match_cnt /\ d.back = c.back /\ d.mode = c.mode
         /\ d.pending = c.pending /\ d.retro = c.retro /\ d.wait = c.wait /\ d.zsl = c.zsl
         /\ d.manual = c.manual
<1>1. d \in ChannelType
  BY DEF SetsSent, ChannelType
<1> QED
  BY <1>1 DEF SetsSent, ChannelType

\* What the assignment to what is still to be sent leaves alone.
LEMMA ServedDoes ==
  ASSUME NEW c \in ChannelType, NEW p \in Nat, NEW r \in Nat, NEW w \in BOOLEAN,
         NEW d, SetsServed(c, d, p, r, w)
  PROVE  /\ d \in ChannelType /\ QueueKept(c, d) /\ d.mode = c.mode /\ d.zsl = c.zsl
         /\ d.manual = c.manual /\ d.pending = p /\ d.wait = w
<1>1. PICK e1 \in ChannelType : e1 = [c EXCEPT !.pending = p]
  BY SetNumber
<1>2. PICK e2 \in ChannelType : e2 = [e1 EXCEPT !.retro = r]
  BY SetNumber
<1>3. d = [e2 EXCEPT !.wait = w]
  BY <1>1, <1>2 DEF SetsServed, ChannelType
<1>4. d \in ChannelType
  BY <1>3, SetFlag
<1>5. QueueKept(c, d)
  BY DEF SetsServed, ChannelType, QueueKept
<1>6. /\ d.mode = c.mode /\ d.zsl = c.zsl
      /\ d.manual = c.manual /\ d.pending = p /\ d.wait = w
  BY DEF SetsServed, ChannelType
<1> QED
  BY <1>4, <1>5, <1>6

\* The first n super buffers of c are sent
FramesUpTo(q, n) == [i \in 1 .. n |-> q[i].frame]

Dispatched(c, d, n) ==
  /\ d \in ChannelType /\ Queue(d) /\ d.nodes = CutOut(c.nodes, 1, n)
  /\ d.match_cnt = c.match_cnt - n /\ d.back = c.back /\ d.mode = c.mode
  /\ d.sent = FramesUpTo(c.nodes, n)

\* The dispatch sends what is ready, and leaves nothing that is asked for.
LEMMA DispatchDoes ==
  ASSUME NEW c, Good(c), c.sent = <<>>, ZslFine(c)
  PROVE  /\ Dispatched(c, Dispatch(c), Ready(c)) /\ Ready(c) \in 0 .. c.match_cnt
         /\ ZslFine(Dispatch(c)) /\ Served(Dispatch(c))
<1>1. /\ c \in ChannelType /\ Queue(c) /\ c.nodes \in Seq(NodeType) /\ c.match_cnt \in 0 .. Len(c.nodes)
      /\ c.mode \in {"burst", "continuous"} /\ c.pending \in Nat /\ c.retro \in Nat
      /\ c.manual \in BOOLEAN /\ c.zsl \in BOOLEAN /\ c.wait \in BOOLEAN
  <2>1. c \in ChannelType /\ Queue(c)
    BY DEF Good
  <2>2. /\ c.nodes \in Seq(NodeType) /\ c.mode \in {"burst", "continuous"} /\ c.pending \in Nat
        /\ c.retro \in Nat /\ c.manual \in BOOLEAN /\ c.zsl \in BOOLEAN /\ c.wait \in BOOLEAN
    BY <2>1 DEF ChannelType
  <2> QED
    BY <2>1, <2>2 DEF Queue
<1>2. PICK n \in 0 .. c.match_cnt : n = Ready(c)
  BY <1>1, ReadyIs
<1>3. /\ c.wait => n = 0
      /\ ~c.wait /\ c.mode = "continuous" => n = c.match_cnt
      /\ c.mode # "continuous" =>
           /\ n <= c.pending
           /\ c.retro > 0 => n <= c.retro
           /\ c.wait \/ n \in {c.match_cnt, c.pending} \/ (c.retro > 0 /\ n = c.retro)
  BY <1>1, <1>2, ReadyIs
<1>4. n \in Nat /\ n <= Len(c.nodes)
  BY <1>1
<1>5. PICK q \in Seq(Frames) : q = FramesUpTo(c.nodes, n)
  <2>1. \A i \in 1 .. n : c.nodes[i].frame \in Frames
    BY <1>1, <1>4, FrameOf
  <2>2. FramesUpTo(c.nodes, n) \in [1 .. n -> Frames]
    BY <2>1 DEF FramesUpTo
  <2> QED
    BY <1>4, <2>2
<1>6. PICK e : SetsSent(c, e, q)
  BY DEF SetsSent
<1>7. /\ e \in ChannelType /\ e.sent = q
      /\ e.nodes = c.nodes /\ e.match_cnt = c.match_cnt /\ e.back = c.back /\ e.mode = c.mode
      /\ e.pending = c.pending /\ e.retro = c.retro /\ e.wait = c.wait /\ e.zsl = c.zsl
      /\ e.manual = c.manual
  BY <1>1, <1>6, SentDoes
<1>8. e = [c EXCEPT !.sent = @ \o [i \in 1 .. n |-> c.nodes[i].frame]]
  <2>1. <<>> \o q = q
    OBVIOUS
  <2>2. c.sent \o [i \in 1 .. n |-> c.nodes[i].frame] = q
    BY <1>5, <2>1 DEF FramesUpTo
  <2> QED
    BY <1>6, <2>2 DEF SetsSent
<1>9. PICK g : g = Dequeue(e, n)
  OBVIOUS
<1>10. /\ g \in ChannelType /\ Others(e, g) /\ Queue(g)
       /\ g.nodes = CutOut(c.nodes, 1, n) /\ g.match_cnt = c.match_cnt - n /\ g.back = c.back
  <2>1. Queue(e)
    BY <1>1, <1>7 DEF Queue
  <2>2. n \in 0 .. e.match_cnt
    BY <1>7
  <2>3. /\ g \in ChannelType /\ Others(e, g) /\ Queue(g)
        /\ g.nodes = CutOut(e.nodes, 1, n) /\ g.match_cnt = e.match_cnt - n /\ g.back = e.back
    BY <1>7, <1>9, <2>1, <2>2, DequeueDoes
  <2> QED
    BY <1>7, <2>3
<1>11. Dispatched(c, g, n)
  BY <1>5, <1>7, <1>10 DEF Dispatched, Others
<1>12. PICK d : d = Dispatch(c)
  OBVIOUS
<1>13. CASE c.mode = "continuous" \/ n = 0
  <2>1. d = g
    BY <1>2, <1>8, <1>9, <1>12, <1>13 DEF Dispatch
  <2>2. /\ g.mode = c.mode /\ g.wait = c.wait /\ g.zsl = c.zsl /\ g.manual = c.manual
        /\ g.pending = c.pending /\ g.match_cnt = c.match_cnt - n
    BY <1>7, <1>10 DEF Others
  <2>3. ZslFine(g)
    BY <2>2 DEF ZslFine
  <2>4. Served(g)
    <3>1. SUFFICES ASSUME c.pending > 0 \/ c.mode = "continuous", ~c.wait
                   PROVE  c.match_cnt - n = 0
      BY <2>2 DEF Served
    <3>2. n = c.match_cnt
      <4>1. CASE c.mode = "continuous"
        BY <1>3, <3>1, <4>1
      <4>2. CASE c.mode # "continuous"
        BY <1>1, <1>3, <1>13, <3>1, <4>2
      <4> QED
        BY <4>1, <4>2
    <3> QED
      BY <1>4, <3>2
  <2> QED
    BY <1>2, <1>11, <1>12, <2>1, <2>3, <2>4
<1>14. CASE ~(c.mode = "continuous" \/ n = 0)
  <2>1. PICK h : h = [g EXCEPT !.pending = @ - n,
                               !.retro = IF @ > 0 THEN @ - n ELSE 0,
                               !.wait = c.retro = n]
    OBVIOUS
  <2>2. d = IF h.pending = 0 /\ ~c.manual /\ c.zsl THEN StopZsl(h) ELSE h
    BY <1>2, <1>8, <1>9, <1>12, <1>14, <2>1 DEF Dispatch
  <2>3. g.pending = c.pending /\ g.retro = c.retro /\ g.mode = c.mode /\ g.zsl = c.zsl /\ g.manual = c.manual
        /\ g.sent = q
    BY <1>7, <1>10 DEF Others
  <2>4. PICK p \in Nat, r \in Nat, w \in BOOLEAN :
          /\ p = c.pending - n
          /\ r = IF c.retro > 0 THEN c.retro - n ELSE 0
          /\ w = (c.retro = n)
    <3>1. c.pending - n \in Nat
      BY <1>1, <1>3, <1>4, <1>14
    <3>2. (IF c.retro > 0 THEN c.retro - n ELSE 0) \in Nat
      BY <1>1, <1>3, <1>4, <1>14
    <3>3. (c.retro = n) \in BOOLEAN
      OBVIOUS
    <3> QED
      BY <3>1, <3>2, <3>3, Zenon
  <2>5. SetsServed(g, h, p, r, w)
    BY <1>10, <2>1, <2>3, <2>4 DEF SetsServed, ChannelType
  <2>6. /\ h \in ChannelType /\ QueueKept(g, h) /\ h.mode = c.mode /\ h.zsl = c.zsl
        /\ h.manual = c.manual /\ h.pending = p /\ h.wait = w
    <3>1. /\ h \in ChannelType /\ QueueKept(g, h) /\ h.mode = g.mode /\ h.zsl = g.zsl
          /\ h.manual = g.manual /\ h.pending = p /\ h.wait = w
      BY <1>10, <2>5, ServedDoes
    <3> QED
      BY <2>3, <3>1
  <2>7. p > 0 /\ ~w => c.match_cnt = n
    <3>1. c.wait => FALSE
      BY <1>3, <1>14
    <3>2. p > 0 => n # c.pending
      BY <1>1, <1>4, <2>4
    <3>3. ~w => n # c.retro
      BY <2>4
    <3> QED
      BY <1>3, <1>14, <3>1, <3>2, <3>3
  <2>8. Dispatched(c, h, n) /\ Served(h)
    <3>1. Queue(h)
      BY <1>10, <2>6 DEF Queue, QueueKept
    <3>2. h.match_cnt = c.match_cnt - n
      BY <1>10, <2>6 DEF QueueKept
    <3>3. Dispatched(c, h, n)
      BY <1>10, <1>5, <2>3, <2>6, <3>1, <3>2 DEF Dispatched, QueueKept
    <3>4. p > 0 /\ ~w => c.match_cnt - n = 0
      BY <1>1, <1>4, <2>7
    <3>5. Served(h)
      BY <1>14, <2>6, <3>2, <3>4 DEF Served
    <3> QED
      BY <3>3, <3>5
  <2>9. CASE p = 0 /\ ~c.manual /\ c.zsl
    <3>1. d = StopZsl(h)
      BY <2>2, <2>6, <2>9
    <3>2. /\ d \in ChannelType /\ QueueKept(h, d) /\ ~d.zsl
          /\ d.mode = h.mode /\ d.pending = h.pending /\ d.wait = h.wait
      BY <2>6, <3>1, StopZslDoes
    <3>3. Queue(d)
      BY <2>8, <3>2 DEF Dispatched, Queue, QueueKept
    <3>4. Dispatched(c, d, n)
      BY <2>8, <3>2, <3>3 DEF Dispatched, QueueKept
    <3>5. Served(d)
      BY <2>8, <3>2 DEF Served, QueueKept
    <3>6. ZslFine(d)
      BY <3>2 DEF ZslFine
    <3> QED
      BY <1>2, <1>12, <3>4, <3>5, <3>6
  <2>10. CASE ~(p = 0 /\ ~c.manual /\ c.zsl)
    <3>1. d = h
      BY <2>2, <2>6, <2>10
    <3>2. ZslFine(h)
      <4>1. p = 0 \/ p > 0
        BY <2>4
      <4> QED
        BY <2>6, <2>10, <4>1 DEF ZslFine
    <3> QED
      BY <1>2, <1>12, <2>8, <3>1, <3>2
  <2> QED
    BY <2>9, <2>10
<1> QED
  BY <1>13, <1>14

-----------------------------------------------------------------------------
(* The commands.                                                           *)

\* What a command can be.
LEMMA CmdIs ==
  ASSUME NEW cmd \in CmdType
  PROVE  /\ cmd.type \in {"data", "flush", "exit", "request", "notify", "zsl", "bracket"}
         /\ cmd.type = "data" <=> cmd \in DataType
         /\ cmd.type = "data" => cmd.stream \in Streams /\ cmd.frame \in Frames /\ cmd.info \in InfoType
         /\ cmd.type = "flush" => cmd.frame \in Nat
         /\ cmd.type = "request" => cmd.num \in Nat /\ cmd.retro \in Nat
         /\ cmd.type = "notify" => cmd.mode \in {"burst", "continuous"}
         /\ cmd.type \in {"zsl", "bracket"} => cmd.start \in BOOLEAN
<1>1. CASE cmd \in DataType
  BY <1>1 DEF DataType
<1>2. CASE cmd \in FlushType
  BY <1>2 DEF FlushType, DataType
<1>3. CASE cmd \in ExitType
  BY <1>3 DEF ExitType, DataType
<1>4. CASE cmd \in Commands
  <2>1. CASE cmd \in [type : {"request"}, num : Nat, retro : Nat]
    BY <2>1 DEF DataType
  <2>2. CASE cmd \in [type : {"flush"}, frame : Nat]
    BY <2>2 DEF DataType
  <2>3. CASE cmd \in [type : {"notify"}, mode : {"burst", "continuous"}]
    BY <2>3 DEF DataType
  <2>4. CASE cmd \in [type : {"zsl", "bracket"}, start : BOOLEAN]
    BY <2>4 DEF DataType
  <2> QED
    BY <1>4, <2>1, <2>2, <2>3, <2>4, CommandsAssumption
<1> QED
  BY <1>1, <1>2, <1>3, <1>4 DEF CmdType

\* The command is taken by c, which becomes d: nothing but its buffer comes, and nothing goes
Gets(c, d, cmd) ==
  /\ Good(d) /\ d.sent = c.sent
  /\ \A r, g : Has(d.nodes, r, g) \/ <<r, g>> \in d.back <=>
                 Has(c.nodes, r, g) \/ <<r, g>> \in c.back \/ Brings(cmd, r, g)

\* A request sets what is asked for.
LEMMA RequestDoes ==
  ASSUME NEW c \in ChannelType, NEW n \in Nat, NEW retro \in Nat
  PROVE  Request(c, n, retro) \in ChannelType /\ QueueKept(c, Request(c, n, retro))
<1>1. PICK r \in Nat, l \in BOOLEAN :
        /\ r = IF n = 0 \/ retro > n THEN n ELSE retro
        /\ l = (c.led /\ r = 0)
  <2>1. PICK r \in Nat : r = IF n = 0 \/ retro > n THEN n ELSE retro
    OBVIOUS
  <2>2. PICK l : l = (c.led /\ r = 0)
    OBVIOUS
  <2>3. l \in BOOLEAN
    BY <2>2, Zenon
  <2> QED
    BY <2>1, <2>2, <2>3
<1>2. PICK e1 \in ChannelType : e1 = [c EXCEPT !.pending = n]
  BY SetNumber
<1>3. PICK e2 \in ChannelType : e2 = [e1 EXCEPT !.retro = r]
  BY SetNumber
<1>4. PICK e3 \in ChannelType : e3 = [e2 EXCEPT !.wait = FALSE]
  BY SetFlag
<1>5. PICK e4 \in ChannelType : e4 = [e3 EXCEPT !.led = l]
  BY SetFlag
<1>6. PICK e5 \in ChannelType : e5 = [e4 EXCEPT !.stop_zsl = FALSE]
  BY SetFlag
<1>7. Request(c, n, retro) = [c EXCEPT !.pending = n, !.retro = r, !.wait = FALSE, !.led = l, !.stop_zsl = FALSE]
  <2>1. Request(c, n, retro) = [c EXCEPT !.pending = n, !.retro = r, !.wait = FALSE,
                                         !.led = @ /\ r = 0, !.stop_zsl = FALSE]
    BY <1>1 DEF Request
  <2> QED
    BY <1>1, <2>1
<1>8. Request(c, n, retro) = e5
  BY <1>2, <1>3, <1>4, <1>5, <1>6, <1>7 DEF ChannelType
<1>9. QueueKept(c, Request(c, n, retro))
  BY <1>7 DEF ChannelType, QueueKept
<1> QED
  BY <1>8, <1>9

\* What a command but a flush does itself.
LEMMA EffectDoes ==
  ASSUME NEW c, Good(c), NEW cmd \in CmdType, cmd.type \notin {"flush", "exit"},
         cmd.type = "data" => Fresh(c, cmd.stream, cmd.frame)
  PROVE  Gets(c, Effect(c, cmd), cmd)
<1>1. c \in ChannelType
  BY DEF Good
<1>2. ASSUME NEW d, Less(c, d), cmd.type # "data"
      PROVE  Gets(c, d, cmd)
  BY <1>2 DEF Less, Gets, Brings
<1>3. CASE cmd.type = "data"
  <2>1. cmd.stream \in Streams /\ cmd.frame \in Frames /\ cmd.info \in InfoType
    BY <1>3, CmdIs
  <2>2. PICK d : d = CompAndEnqueue(c, cmd.stream, cmd.frame, cmd.info)
    OBVIOUS
  <2>3. Takes(c, d, cmd.stream, cmd.frame)
    BY <1>3, <2>1, <2>2, CompAndEnqueueDoes
  <2>4. Effect(c, cmd) = d
    BY <1>3, <2>2 DEF Effect
  <2> QED
    BY <1>3, <2>3, <2>4 DEF Takes, Gets, Brings
<1>4. CASE cmd.type = "request"
  <2>1. PICK e : e = Request(c, cmd.num, cmd.retro)
    OBVIOUS
  <2>2. Less(c, e)
    <3>1. cmd.num \in Nat /\ cmd.retro \in Nat
      BY <1>4, CmdIs
    <3>2. e \in ChannelType /\ QueueKept(c, e)
      BY <1>1, <2>1, <3>1, RequestDoes
    <3> QED
      BY <3>2, KeptIsLess
  <2>3. Less(e, Trim(e, LookBack))
    <3>1. LookBack \in Nat
      BY ConstantsAssumption
    <3> QED
      BY <2>2, <3>1, TrimDoes DEF Less
  <2>4. Effect(c, cmd) = Trim(e, LookBack)
    BY <1>4, <2>1 DEF Effect
  <2> QED
    BY <1>2, <1>4, <2>2, <2>3, <2>4, LessTwice
<1>5. CASE cmd.type = "notify"
  <2>1. PICK d \in ChannelType : d = [c EXCEPT !.mode = cmd.mode]
    <3>1. cmd.mode \in {"burst", "continuous"}
      BY <1>5, CmdIs
    <3> QED
      BY <1>1, <3>1, SetMode
  <2>2. QueueKept(c, d)
    BY <1>1, <2>1 DEF ChannelType, QueueKept
  <2>3. Effect(c, cmd) = d
    BY <1>5, <2>1 DEF Effect
  <2> QED
    BY <1>2, <1>5, <2>2, <2>3, KeptIsLess
<1>6. CASE cmd.type = "zsl"
  <2>1. PICK d \in ChannelType : d = [c EXCEPT !.manual = cmd.start]
    <3>1. cmd.start \in BOOLEAN
      BY <1>6, CmdIs
    <3> QED
      BY <1>1, <3>1, SetFlag
  <2>2. QueueKept(c, d)
    BY <1>1, <2>1 DEF ChannelType, QueueKept
  <2>3. Effect(c, cmd) = d
    BY <1>6, <2>1 DEF Effect
  <2> QED
    BY <1>2, <1>6, <2>2, <2>3, KeptIsLess
<1>7. CASE cmd.type = "bracket"
  <2>1. PICK e : e = Flush(c)
    OBVIOUS
  <2>2. Less(c, e)
    BY <2>1, FlushDoes
  <2>3. PICK b \in {"off", "wait", "active"} : b = IF cmd.start THEN "wait" ELSE "off"
    OBVIOUS
  <2>4. PICK d \in ChannelType : d = [e EXCEPT !.bracketing = b]
    BY <2>2, SetMode DEF Less, Good
  <2>5. QueueKept(e, d)
    BY <2>2, <2>4 DEF Less, Good, ChannelType, QueueKept
  <2>6. Effect(c, cmd) = d
    BY <1>7, <2>1, <2>3, <2>4 DEF Effect
  <2>7. Less(e, d)
    BY <2>2, <2>5, KeptIsLess DEF Less
  <2> QED
    BY <1>2, <1>7, <2>2, <2>6, <2>7, LessTwice
<1> QED
  BY <1>3, <1>4, <1>5, <1>6, <1>7, CmdIs

\* The command is handled: its buffer is in the queue, sent or given back, and
\* in one of them; the super buffers are sent in the order of their frames,
\* each before any that is left
Handles(c, d, cmd) ==
  /\ d \in ChannelType /\ Queue(d)
  /\ \A r \in Streams : \A g : Has(d.nodes, r, g) \/ Sends(d.sent, g) \/ <<r, g>> \in d.back <=>
                                 Has(c.nodes, r, g) \/ Brings(cmd, r, g)
  /\ \A r \in Streams : \A g : <<r, g>> \in d.back => ~Has(d.nodes, r, g) /\ ~Sends(d.sent, g)
  /\ \A r, g, i : i \in DOMAIN d.sent /\ Has(d.nodes, r, g) => d.sent[i] < g
  /\ \A i, j \in DOMAIN d.sent : i < j => d.sent[i] < d.sent[j]
  /\ d.mode = "burst" => d.match_cnt <= WaterMark
  /\ Served(d) /\ (cmd.type # "flush" \/ ZslFine(c) => ZslFine(d))

\* What the dispatch does to the buffers.
LEMMA DispatchedBuffers ==
  ASSUME NEW c, Good(c), NEW n \in 0 .. c.match_cnt, NEW d, Dispatched(c, d, n)
  PROVE  /\ \A r \in Streams : \A g : Has(d.nodes, r, g) \/ Sends(d.sent, g) <=> Has(c.nodes, r, g)
         /\ \A r, g : Has(d.nodes, r, g) => Has(c.nodes, r, g)
         /\ \A r, g, i : i \in DOMAIN d.sent /\ Has(d.nodes, r, g) => d.sent[i] < g
         /\ \A i, j \in DOMAIN d.sent : i < j => d.sent[i] < d.sent[j]
<1> DEFINE q == c.nodes
           m == c.match_cnt
           l == Len(q)
<1>1. /\ q \in Seq(NodeType) /\ l \in Nat /\ DOMAIN q = 1 .. l /\ m \in 0 .. l /\ Ascending(q)
      /\ \A j \in 1 .. l : Matched(q[j]) <=> j <= m
  <2>1. c \in ChannelType /\ Queue(c)
    BY DEF Good
  <2>2. q \in Seq(NodeType)
    BY <2>1 DEF ChannelType
  <2>3. l \in Nat /\ DOMAIN q = 1 .. l
    BY <2>2
  <2> QED
    BY <2>1, <2>2, <2>3 DEF Queue
<1>2. n \in Nat /\ n <= l /\ \A j \in 1 .. n : j \in 1 .. l /\ j <= m
  BY <1>1
<1>3. DOMAIN d.sent = 1 .. n /\ \A j \in 1 .. n : d.sent[j] = q[j].frame
  BY DEF Dispatched, FramesUpTo
<1>4. PICK z : z = CutOut(q, 1, n) /\ z = d.nodes
  BY DEF Dispatched
<1>5. PICK a \in Nat \ {0} : a = 1
  OBVIOUS
<1>6. /\ z \in Seq(NodeType) /\ Len(z) = l - n
      /\ \A k \in DOMAIN z : z[k] = q[k + n]
      /\ \A r, g : Has(z, r, g) <=> Has(q, r, g) /\ ~ \E j \in 1 .. n : q[j].frame = g /\ r \in q[j].bufs
  <2>1. q \in Seq(NodeType) /\ Ascending(q) /\ n \in Nat /\ a <= n + 1 /\ n <= Len(q) /\ z = CutOut(q, a, n)
    BY <1>1, <1>2, <1>4, <1>5
  <2> HIDE DEF q
  <2>8. Cuts(q, z, a, n)
    BY <1>2, <1>5, <2>1 DEF Cuts
  <2>2. z \in Seq(NodeType) /\ Len(z) = Len(q) - (n + 1 - a)
    BY <2>8, CutsType
  <2>3. \A k \in DOMAIN z : z[k] = IF k < a THEN q[k] ELSE q[k + (n + 1 - a)]
    BY <2>8, CutsOrder
  <2>4. \A r, g : Has(z, r, g) <=> Has(q, r, g) /\ ~ \E j \in a .. n : q[j].frame = g /\ r \in q[j].bufs
    BY <2>8, CutsBuffers
  <2>5. \A k \in DOMAIN z : k >= 1 /\ k \in Nat
    BY <2>2
  <2>6. n + 1 - a = n
    BY <1>2, <1>5
  <2>7. \A k \in DOMAIN z : z[k] = q[k + n]
    <3>1. \A k \in DOMAIN z : ~(k < a)
      BY <1>5, <2>5
    <3> QED
      BY <2>3, <2>6, <3>1
  <2> QED
    BY <1>5, <2>2, <2>4, <2>6, <2>7
<1> HIDE DEF q, m, l
<1>7. ASSUME NEW r \in Streams, NEW g
      PROVE  Sends(d.sent, g) <=> \E j \in 1 .. n : q[j].frame = g /\ r \in q[j].bufs
  <2>1. \A j \in 1 .. n : r \in q[j].bufs
    BY <1>1, <1>2 DEF Matched
  <2> QED
    BY <1>3, <2>1 DEF Sends
<1>8. ASSUME NEW r, NEW g
      PROVE  (\E j \in 1 .. n : q[j].frame = g /\ r \in q[j].bufs) => Has(q, r, g)
  BY <1>1, <1>2 DEF Has
<1>9. ASSUME NEW r \in Streams, NEW g
      PROVE  Has(d.nodes, r, g) \/ Sends(d.sent, g) <=> Has(q, r, g)
  <2> DEFINE X == \E j \in 1 .. n : q[j].frame = g /\ r \in q[j].bufs
  <2>1. Has(d.nodes, r, g) <=> Has(q, r, g) /\ ~X
    BY <1>4, <1>6
  <2>2. Sends(d.sent, g) <=> X
    BY <1>7
  <2>3. X => Has(q, r, g)
    BY <1>8
  <2> HIDE DEF X
  <2> QED
    BY <2>1, <2>2, <2>3
<1>10. ASSUME NEW r, NEW g, NEW i, i \in DOMAIN d.sent, Has(d.nodes, r, g)
       PROVE  d.sent[i] < g
  <2>1. PICK k \in DOMAIN z : z[k].frame = g
    BY <1>4, <1>10 DEF Has
  <2>2. k + n \in 1 .. l /\ z[k] = q[k + n] /\ i \in 1 .. n /\ i \in 1 .. l /\ i < k + n
    BY <1>1, <1>2, <1>3, <1>6, <1>10, <2>1
  <2>3. q[i].frame < q[k + n].frame
    BY <1>1, <2>2 DEF Ascending
  <2> QED
    BY <1>3, <2>1, <2>2, <2>3
<1>11. ASSUME NEW i \in DOMAIN d.sent, NEW j \in DOMAIN d.sent, i < j
       PROVE  d.sent[i] < d.sent[j]
  <2>1. i \in 1 .. n /\ j \in 1 .. n /\ i \in DOMAIN q /\ j \in DOMAIN q
    BY <1>1, <1>2, <1>3
  <2>2. q[i].frame < q[j].frame
    BY <1>1, <1>11, <2>1 DEF Ascending
  <2> QED
    BY <1>3, <2>1, <2>2
<1>12. \A r, g : Has(d.nodes, r, g) => Has(q, r, g)
  BY <1>4, <1>6
<1> QED
  BY <1>9, <1>10, <1>11, <1>12 DEF q

\* What the command thread does with a command.
LEMMA ProcessDoes ==
  ASSUME NEW c, Good(c), c.back = {}, c.sent = <<>>, NEW cmd \in CmdType, cmd.type # "exit",
         cmd.type = "data" => Fresh(c, cmd.stream, cmd.frame)
  PROVE  Handles(c, ProcessStreamBuf(c, cmd), cmd)
<1>1. c \in ChannelType
  BY DEF Good
<1>2. CASE cmd.type = "flush"
  <2>1. PICK e \in ChannelType : e = [c EXCEPT !.expected = cmd.frame]
    <3>1. cmd.frame \in Nat
      BY <1>2, CmdIs
    <3> QED
      BY <1>1, <3>1, SetNumber
  <2>2. QueueKept(c, e) /\ Others(c, e)
    BY <1>1, <2>1 DEF ChannelType, QueueKept, Others
  <2>3. Less(c, e)
    BY <2>2, KeptIsLess
  <2>4. PICK d : d = Flush(e)
    OBVIOUS
  <2>5. Less(e, d) /\ Others(e, d) /\ d.match_cnt = 0 /\ d.nodes = <<>>
    BY <2>3, <2>4, FlushDoes DEF Less
  <2>6. ProcessStreamBuf(c, cmd) = d
    BY <1>2, <2>1, <2>4 DEF ProcessStreamBuf
  <2>7. d.sent = <<>> /\ \A g : ~Sends(d.sent, g)
    BY <2>2, <2>5 DEF Others, Sends
  <2>8. \A r, g : Has(d.nodes, r, g) \/ <<r, g>> \in d.back <=> Has(c.nodes, r, g)
    BY <2>3, <2>5 DEF Less
  <2>9. \A r, g : ~Brings(cmd, r, g)
    BY <1>2 DEF Brings
  <2>10. 0 <= WaterMark
    BY ConstantsAssumption
  <2>11. Served(d) /\ (ZslFine(c) => ZslFine(d))
    BY <2>2, <2>5 DEF Served, ZslFine, Others
  <2>12. d \in ChannelType /\ Queue(d) /\ Clean(d)
    BY <2>5 DEF Less, Good
  <2> QED
    BY <1>2, <2>5, <2>6, <2>7, <2>8, <2>9, <2>10, <2>11, <2>12 DEF Handles, Clean
<1>3. CASE cmd.type # "flush"
  <2>1. PICK c1 : c1 = Effect(c, cmd)
    OBVIOUS
  <2>2. Gets(c, c1, cmd)
    BY <1>3, <2>1, EffectDoes
  <2>3. Good(c1) /\ c1 \in ChannelType /\ c1.sent = <<>>
    BY <2>2 DEF Gets, Good
  <2>4. PICK c2 : c2 = UpdateZsl(c1)
    OBVIOUS
  <2>5. c2 \in ChannelType /\ QueueKept(c1, c2) /\ ZslFine(c2)
    BY <2>3, <2>4, UpdateZslDoes
  <2>6. Less(c1, c2)
    BY <2>3, <2>5, KeptIsLess
  <2>7. PICK c3 : c3 = Trim(c2, WaterMark)
    OBVIOUS
  <2>8. /\ Less(c2, c3) /\ Others(c2, c3)
        /\ c2.mode = "burst" => c3.match_cnt <= WaterMark
    <3>1. WaterMark \in Nat
      BY ConstantsAssumption
    <3> QED
      BY <2>6, <2>7, <3>1, TrimDoes DEF Less
  <2>9. /\ Good(c3) /\ c3.sent = <<>> /\ ZslFine(c3) /\ c3 \in ChannelType
        /\ c3.mode = "burst" => c3.match_cnt <= WaterMark
    BY <2>3, <2>5, <2>6, <2>8 DEF Less, Good, Others, ZslFine
  <2>10. PICK d : d = Dispatch(c3)
    OBVIOUS
  <2>11. PICK n \in 0 .. c3.match_cnt : Dispatched(c3, d, n) /\ ZslFine(d) /\ Served(d)
    BY <2>9, <2>10, DispatchDoes
  <2>12. ProcessStreamBuf(c, cmd) = d
    BY <1>3, <2>1, <2>4, <2>7, <2>10 DEF ProcessStreamBuf
  <2>13. d \in ChannelType /\ Queue(d) /\ d.back = c3.back /\ d.mode = c3.mode /\ d.match_cnt = c3.match_cnt - n
    BY <2>11 DEF Dispatched
  <2>14. d.mode = "burst" => d.match_cnt <= WaterMark
    <3>1. c3.match_cnt \in Int /\ WaterMark \in Int /\ n \in Nat
      <4>1. c3.match_cnt \in Int
        BY <2>9 DEF ChannelType
      <4> QED
        BY <4>1, ConstantsAssumption
    <3> QED
      BY <2>9, <2>13, <3>1
  <2>15. /\ \A r \in Streams : \A g : Has(d.nodes, r, g) \/ Sends(d.sent, g) <=> Has(c3.nodes, r, g)
         /\ \A r, g : Has(d.nodes, r, g) => Has(c3.nodes, r, g)
         /\ \A r, g, i : i \in DOMAIN d.sent /\ Has(d.nodes, r, g) => d.sent[i] < g
         /\ \A i, j \in DOMAIN d.sent : i < j => d.sent[i] < d.sent[j]
    BY <2>9, <2>11, DispatchedBuffers
  <2>16. ASSUME NEW r, NEW g
         PROVE  Has(c3.nodes, r, g) \/ <<r, g>> \in c3.back <=> Has(c.nodes, r, g) \/ Brings(cmd, r, g)
    <3>1. Has(c1.nodes, r, g) \/ <<r, g>> \in c1.back <=> Has(c.nodes, r, g) \/ Brings(cmd, r, g)
      BY <2>2 DEF Gets
    <3>2. Has(c2.nodes, r, g) \/ <<r, g>> \in c2.back <=> Has(c1.nodes, r, g) \/ <<r, g>> \in c1.back
      BY <2>6 DEF Less
    <3>3. Has(c3.nodes, r, g) \/ <<r, g>> \in c3.back <=> Has(c2.nodes, r, g) \/ <<r, g>> \in c2.back
      BY <2>8 DEF Less
    <3> QED
      BY <3>1, <3>2, <3>3
  <2>17. \A r \in Streams : \A g : Has(d.nodes, r, g) \/ Sends(d.sent, g) \/ <<r, g>> \in d.back <=>
                                     Has(c.nodes, r, g) \/ Brings(cmd, r, g)
    BY <2>13, <2>15, <2>16
  <2>18. \A r \in Streams : \A g : <<r, g>> \in d.back => ~Has(d.nodes, r, g) /\ ~Sends(d.sent, g)
    <3>1. Clean(c3)
      BY <2>9 DEF Good
    <3> QED
      BY <2>13, <2>15, <3>1 DEF Clean
  <2> QED
    BY <2>11, <2>12, <2>13, <2>14, <2>15, <2>17, <2>18 DEF Handles
<1> QED
  BY <1>2, <1>3

-----------------------------------------------------------------------------
(* The queues between the threads.                                         *)

\* A command appended to a queue.
LEMMA AppendCmd ==
  ASSUME NEW q \in Seq(CmdType), NEW cmd \in CmdType
  PROVE  /\ Append(q, cmd) \in Seq(CmdType)
         /\ \A s, f : Carries(Append(q, cmd), s, f) <=> Carries(q, s, f) \/ Brings(cmd, s, f)
         /\ InTurn(q) /\ (\A s, f, g : Carries(q, s, f) /\ Brings(cmd, s, g) => f < g) => InTurn(Append(q, cmd))
<1> DEFINE p == Append(q, cmd)
           n == Len(q)
<1>1. /\ p \in Seq(CmdType) /\ n \in Nat /\ DOMAIN q = 1 .. n /\ DOMAIN p = 1 .. n + 1
      /\ p[n + 1] = cmd /\ \A i \in 1 .. n : p[i] = q[i]
  OBVIOUS
<1>2. \A i \in 1 .. n + 1 : i \in 1 .. n \/ i = n + 1
  BY <1>1
<1>3. n + 1 \in 1 .. n + 1 /\ \A i \in 1 .. n : i \in 1 .. n + 1
  BY <1>1
<1> HIDE DEF n, p
<1>4. \A s, f : Carries(p, s, f) <=> Carries(q, s, f) \/ Brings(cmd, s, f)
  BY <1>1, <1>2, <1>3 DEF Carries
<1>5. ASSUME InTurn(q), \A s, f, g : Carries(q, s, f) /\ Brings(cmd, s, g) => f < g
      PROVE  InTurn(p)
  <2> SUFFICES ASSUME NEW i \in 1 .. n + 1, NEW j \in 1 .. n + 1, i < j,
                      NEW s, NEW f, NEW g, Brings(p[i], s, f), Brings(p[j], s, g)
               PROVE  f < g
    BY <1>1 DEF InTurn
  <2>1. i \in 1 .. n
    BY <1>1
  <2>2. CASE j \in 1 .. n
    BY <1>1, <1>5, <2>1, <2>2 DEF InTurn
  <2>3. CASE j = n + 1
    BY <1>1, <1>5, <2>1, <2>3 DEF Carries
  <2> QED
    BY <1>2, <2>2, <2>3
<1> QED
  BY <1>1, <1>4, <1>5 DEF p

\* The first command of a queue.
LEMMA HeadCmd ==
  ASSUME NEW q \in Seq(CmdType), q # <<>>
  PROVE  /\ Head(q) \in CmdType /\ Tail(q) \in Seq(CmdType)
         /\ \A s, f : Carries(q, s, f) <=> Brings(Head(q), s, f) \/ Carries(Tail(q), s, f)
         /\ InTurn(q) => /\ InTurn(Tail(q))
                         /\ \A s, f, g : Brings(Head(q), s, f) /\ Carries(Tail(q), s, g) => f < g
<1> DEFINE p == Tail(q)
           n == Len(q)
           h == Head(q)
<1>1. /\ p \in Seq(CmdType) /\ n \in Nat /\ DOMAIN q = 1 .. n /\ DOMAIN p = 1 .. n - 1
      /\ n > 0 /\ h = q[1] /\ h \in CmdType /\ \A i \in 1 .. n - 1 : p[i] = q[i + 1]
  OBVIOUS
<1>2. \A i \in 1 .. n - 1 : i + 1 \in 1 .. n /\ 1 < i + 1
  BY <1>1
<1>3. \A i \in 1 .. n : i = 1 \/ (i - 1 \in 1 .. n - 1 /\ (i - 1) + 1 = i)
  BY <1>1
<1>4. 1 \in 1 .. n
  BY <1>1
<1>5. \A i, j \in 1 .. n - 1 : i < j => i + 1 < j + 1
  BY <1>1
<1> HIDE DEF p, n, h
<1>6. \A s, f : Carries(q, s, f) <=> Brings(h, s, f) \/ Carries(p, s, f)
  <2> TAKE s, f
  <2>1. ASSUME NEW i \in 1 .. n, Brings(q[i], s, f)
        PROVE  Brings(h, s, f) \/ Carries(p, s, f)
    <3>1. CASE i = 1
      BY <1>1, <2>1, <3>1
    <3>2. CASE i - 1 \in 1 .. n - 1 /\ (i - 1) + 1 = i
      <4>1. p[i - 1] = q[i]
        BY <1>1, <3>2
      <4> QED
        BY <1>1, <2>1, <3>2, <4>1 DEF Carries
    <3> QED
      BY <1>3, <3>1, <3>2
  <2>2. Brings(h, s, f) => Carries(q, s, f)
    BY <1>1, <1>4 DEF Carries
  <2>3. Carries(p, s, f) => Carries(q, s, f)
    BY <1>1, <1>2 DEF Carries
  <2> QED
    BY <1>1, <2>1, <2>2, <2>3 DEF Carries
<1>7. ASSUME InTurn(q)
      PROVE  InTurn(p) /\ \A s, f, g : Brings(h, s, f) /\ Carries(p, s, g) => f < g
  <2>1. InTurn(p)
    BY <1>1, <1>2, <1>5, <1>7 DEF InTurn
  <2>2. \A s, f, g : Brings(h, s, f) /\ Carries(p, s, g) => f < g
    BY <1>1, <1>2, <1>4, <1>7 DEF InTurn, Carries
  <2> QED
    BY <2>1, <2>2
<1> QED
  BY <1>1, <1>6, <1>7 DEF p, h

\* The first super buffer of a queue.
LEMMA HeadSuper ==
  ASSUME NEW q \in Seq(Frames), q # <<>>
  PROVE  /\ Head(q) \in Frames /\ Tail(q) \in Seq(Frames)
         /\ \A f : Sends(q, f) <=> f = Head(q) \/ Sends(Tail(q), f)
         /\ Increasing(q) => Increasing(Tail(q)) /\ \A f : Sends(Tail(q), f) => Head(q) < f
<1> DEFINE p == Tail(q)
           n == Len(q)
           h == Head(q)
<1>1. /\ p \in Seq(Frames) /\ n \in Nat /\ DOMAIN q = 1 .. n /\ DOMAIN p = 1 .. n - 1
      /\ n > 0 /\ h = q[1] /\ h \in Frames /\ \A i \in 1 .. n - 1 : p[i] = q[i + 1]
  OBVIOUS
<1>2. \A i \in 1 .. n - 1 : i + 1 \in 1 .. n /\ 1 < i + 1
  BY <1>1
<1>3. \A i \in 1 .. n : i = 1 \/ (i - 1 \in 1 .. n - 1 /\ (i - 1) + 1 = i)
  BY <1>1
<1>4. 1 \in 1 .. n
  BY <1>1
<1>5. \A i, j \in 1 .. n - 1 : i < j => i + 1 < j + 1
  BY <1>1
<1> HIDE DEF p, n, h
<1>6. \A f : Sends(q, f) <=> f = h \/ Sends(p, f)
  <2> TAKE f
  <2>1. ASSUME NEW i \in 1 .. n, q[i] = f
        PROVE  f = h \/ Sends(p, f)
    <3>1. CASE i = 1
      BY <1>1, <2>1, <3>1
    <3>2. CASE i - 1 \in 1 .. n - 1 /\ (i - 1) + 1 = i
      <4>1. p[i - 1] = q[i]
        BY <1>1, <3>2
      <4> QED
        BY <1>1, <2>1, <3>2, <4>1 DEF Sends
    <3> QED
      BY <1>3, <3>1, <3>2
  <2>2. f = h => Sends(q, f)
    BY <1>1, <1>4 DEF Sends
  <2>3. Sends(p, f) => Sends(q, f)
    BY <1>1, <1>2 DEF Sends
  <2> QED
    BY <1>1, <2>1, <2>2, <2>3 DEF Sends
<1>7. ASSUME Increasing(q)
      PROVE  Increasing(p) /\ \A f : Sends(p, f) => h < f
  <2>1. Increasing(p)
    BY <1>1, <1>2, <1>5, <1>7 DEF Increasing
  <2>2. \A f : Sends(p, f) => h < f
    BY <1>1, <1>2, <1>4, <1>7 DEF Increasing, Sends
  <2> QED
    BY <2>1, <2>2
<1> QED
  BY <1>1, <1>6, <1>7 DEF p, h

\* Super buffers appended to a queue.
LEMMA ConcatSupers ==
  ASSUME NEW q \in Seq(Frames), NEW p \in Seq(Frames)
  PROVE  /\ q \o p \in Seq(Frames)
         /\ \A f : Sends(q \o p, f) <=> Sends(q, f) \/ Sends(p, f)
         /\ /\ Increasing(q) /\ Increasing(p)
            /\ \A f, g : Sends(q, f) /\ Sends(p, g) => f < g
            => Increasing(q \o p)
<1> DEFINE t == q \o p
           n == Len(q)
           m == Len(p)
<1>1. /\ t \in Seq(Frames) /\ n \in Nat /\ m \in Nat /\ Len(t) = n + m
      /\ \A i \in 1 .. n + m : t[i] = IF i <= n THEN q[i] ELSE p[i - n]
  OBVIOUS
<1>2. DOMAIN q = 1 .. n /\ DOMAIN p = 1 .. m /\ DOMAIN t = 1 .. n + m
  BY <1>1
<1>3. \A i \in 1 .. n : i \in 1 .. n + m /\ t[i] = q[i]
  BY <1>1
<1>4. \A i \in 1 .. m : i + n \in 1 .. n + m /\ t[i + n] = p[i]
  <2> TAKE i \in 1 .. m
  <2>1. i + n \in 1 .. n + m /\ ~(i + n <= n) /\ (i + n) - n = i
    BY <1>1
  <2> HIDE DEF t, n, m
  <2> QED
    BY <1>1, <2>1
<1>5. \A i \in 1 .. n + m : i \in 1 .. n \/ (i - n \in 1 .. m /\ t[i] = p[i - n])
  BY <1>1
<1> HIDE DEF t, n, m
<1>6. \A f : Sends(t, f) <=> Sends(q, f) \/ Sends(p, f)
  BY <1>2, <1>3, <1>4, <1>5 DEF Sends
<1>7. ASSUME Increasing(q), Increasing(p), \A f, g : Sends(q, f) /\ Sends(p, g) => f < g
      PROVE  Increasing(t)
  <2> SUFFICES ASSUME NEW i \in 1 .. n + m, NEW j \in 1 .. n + m, i < j
               PROVE  t[i] < t[j]
    BY <1>2 DEF Increasing
  <2>1. CASE j \in 1 .. n
    <3>1. i \in 1 .. n
      BY <1>1, <2>1
    <3> QED
      BY <1>2, <1>3, <1>7, <2>1, <3>1 DEF Increasing
  <2>2. CASE i \in 1 .. n /\ j - n \in 1 .. m /\ t[j] = p[j - n]
    BY <1>2, <1>3, <1>7, <2>2 DEF Sends
  <2>3. CASE i - n \in 1 .. m /\ t[i] = p[i - n] /\ j - n \in 1 .. m /\ t[j] = p[j - n]
    <3>1. i - n < j - n
      BY <1>1
    <3> QED
      BY <1>2, <1>7, <2>3, <3>1 DEF Increasing
  <2> QED
    BY <1>5, <2>1, <2>2, <2>3
<1> QED
  BY <1>1, <1>6, <1>7 DEF t

\* A buffer in the queue of super buffers is one of a stream.
LEMMA HasType ==
  ASSUME NEW c \in ChannelType, NEW s, NEW f, Has(c.nodes, s, f)
  PROVE  s \in Streams /\ f \in Frames /\ f \in Nat
<1>1. c.nodes \in Seq(NodeType)
  BY DEF ChannelType
<1>2. PICK i \in DOMAIN c.nodes : c.nodes[i].frame = f /\ s \in c.nodes[i].bufs
  BY DEF Has
<1> QED
  BY <1>1, <1>2, FrameOf

\* What a command or a super buffer names is a buffer of a stream.
LEMMA CarriesType ==
  ASSUME NEW q \in Seq(CmdType), NEW s, NEW f, Carries(q, s, f)
  PROVE  s \in Streams /\ f \in Frames
<1>1. PICK i \in DOMAIN q : Brings(q[i], s, f)
  BY DEF Carries
<1>2. q[i] \in CmdType
  OBVIOUS
<1> QED
  BY <1>1, <1>2, CmdIs DEF Brings

\* What a queue of super buffers names is a frame.
LEMMA SendsType ==
  ASSUME NEW q \in Seq(Frames), NEW f, Sends(q, f)
  PROVE  f \in Frames
BY DEF Sends

-----------------------------------------------------------------------------
(* Each step keeps the invariant.                                          *)

\* The channel is ready for the next command.
Clears(c, d) == d = [c EXCEPT !.back = {}, !.sent = <<>>]

\* To forget what the last step gave back and sent leaves the rest alone.
LEMMA ClearDoes ==
  ASSUME NEW c \in ChannelType, NEW d, Clears(c, d)
  PROVE  /\ d \in ChannelType /\ d.back = {} /\ d.sent = <<>>
         /\ d.nodes = c.nodes /\ d.match_cnt = c.match_cnt /\ d.mode = c.mode
         /\ d.pending = c.pending /\ d.wait = c.wait /\ d.zsl = c.zsl /\ d.manual = c.manual
<1>1. <<>> \in Seq(Frames)
  OBVIOUS
<1>2. PICK e \in ChannelType : e = [c EXCEPT !.back = {}]
  BY DEF ChannelType
<1>3. PICK z \in Seq(Frames) : z = <<>>
  BY <1>1
<1>4. PICK h \in ChannelType : h = [e EXCEPT !.sent = z]
  BY DEF ChannelType
<1>5. d = h
  BY <1>2, <1>3, <1>4 DEF Clears, ChannelType
<1>6. /\ d.back = {} /\ d.sent = <<>>
      /\ d.nodes = c.nodes /\ d.match_cnt = c.match_cnt /\ d.mode = c.mode
      /\ d.pending = c.pending /\ d.wait = c.wait /\ d.zsl = c.zsl /\ d.manual = c.manual
  BY DEF Clears, ChannelType
<1> QED
  BY <1>5, <1>6

\* A channel with the same queue, delivery and snapshot mode
Alike(c, d) ==
  /\ QueueKept(c, d) /\ Served(d)
  /\ d.mode = c.mode /\ d.pending = c.pending /\ d.zsl = c.zsl /\ d.manual = c.manual

\* The invariant on a channel holds for one that differs in nothing it speaks of.
LEMMA AlikeDoes ==
  ASSUME NEW c, NEW d, Channel(c), Alike(c, d)
  PROVE  Channel(d)
BY DEF Channel, Alike, QueueKept, Queue, ZslFine

\* The invariant on the buffers holds when there are no more of them.
LEMMA OrderKept ==
  ASSUME IInv, InTurn(cmds'),
         \A s, f : Carries(cmds', s, f) => Carries(cmds, s, f),
         \A s, f : Has(ch'.nodes, s, f) => Has(ch.nodes, s, f),
         UNCHANGED <<supers, client, next, last>>
  PROVE  InOrder'
<1>1. InOrder
  BY DEF IInv
<1> QED
  BY <1>1 DEF InOrder

\* The command thread handles a command.
LEMMA HandleCommandKeeps ==
  ASSUME IInv, HandleCommand
  PROVE  IInv'
<1> DEFINE cmd == Head(cmds)
<1>1. /\ ch \in ChannelType /\ cmds \in Seq(CmdType) /\ cmds # <<>> /\ supers \in Seq(Frames)
      /\ client \subseteq Streams \X Frames /\ out \in [Streams -> SUBSET Frames]
      /\ on \subseteq Streams /\ posted \in Int
      /\ next \in [Streams -> Nat] /\ last \in Nat /\ Frames \subseteq Nat
  <2>1. Frames \subseteq Nat
    BY ConstantsAssumption DEF Frames
  <2> QED
    BY <2>1 DEF IInv, Types, HandleCommand
<1>2. /\ cmd \in CmdType /\ Tail(cmds) \in Seq(CmdType)
      /\ \A s, f : Carries(cmds, s, f) <=> Brings(cmd, s, f) \/ Carries(Tail(cmds), s, f)
      /\ InTurn(Tail(cmds)) /\ \A s, f, g : Brings(cmd, s, f) /\ Carries(Tail(cmds), s, g) => f < g
  <2>1. InTurn(cmds)
    BY DEF IInv, InOrder
  <2> QED
    BY <1>1, <2>1, HeadCmd
<1>3. PICK c : c = ProcessStreamBuf(ch, cmd)
  OBVIOUS
<1> HIDE DEF cmd
<1>4. /\ cmds' = Tail(cmds) /\ Clears(c, ch') /\ supers' = supers \o c.sent
      /\ out' = [s \in Streams |-> {f \in out[s] : <<s, f>> \notin c.back}]
      /\ cmd.type # "exit" /\ posted' \in Int
      /\ UNCHANGED <<phase, on, waiting, client, next, last, count>>
  <2>1. posted' \in Int
    BY <1>1 DEF HandleCommand
  <2> QED
    BY <1>3, <2>1 DEF HandleCommand, Clears, cmd
<1>5. /\ InOrder /\ Channel(ch) /\ Stopped /\ Accounted
  BY DEF IInv
<1>6. Good(ch) /\ ch.back = {} /\ ch.sent = <<>> /\ ZslFine(ch)
  <2>1. Queue(ch) /\ ch.back = {} /\ ch.sent = <<>> /\ ZslFine(ch)
    BY <1>5 DEF Channel
  <2> QED
    BY <1>1, <2>1 DEF Good, Clean
<1>7. cmd.type = "data" => Fresh(ch, cmd.stream, cmd.frame)
  <2> SUFFICES ASSUME cmd.type = "data", NEW g, Has(ch.nodes, cmd.stream, g)
               PROVE  g < cmd.frame
    BY <1>6 DEF Fresh
  <2>1. Carries(cmds, cmd.stream, cmd.frame)
    BY <1>2 DEF Brings
  <2>2. cmd.stream \in Streams /\ cmd.frame \in Frames
    BY <1>2, CmdIs
  <2>3. g \in Frames
    BY <1>1, HasType
  <2> QED
    BY <1>5, <2>1, <2>2, <2>3 DEF InOrder
<1>8. Handles(ch, c, cmd)
  BY <1>2, <1>3, <1>4, <1>6, <1>7, ProcessDoes
<1>9. /\ ch' \in ChannelType /\ ch'.back = {} /\ ch'.sent = <<>>
      /\ ch'.nodes = c.nodes /\ ch'.match_cnt = c.match_cnt /\ ch'.mode = c.mode
      /\ ch'.pending = c.pending /\ ch'.wait = c.wait /\ ch'.zsl = c.zsl /\ ch'.manual = c.manual
  <2>1. c \in ChannelType
    BY <1>8 DEF Handles
  <2> QED
    BY <1>4, <2>1, ClearDoes
<1>10. c.sent \in Seq(Frames) /\ c.back \subseteq Streams \X Frames
  BY <1>8 DEF Handles, ChannelType
<1>11. Channel(ch')
  BY <1>6, <1>8, <1>9 DEF Handles, Channel, Queue, Served, ZslFine
<1>12. ASSUME NEW s \in Streams, NEW f
       PROVE  /\ Has(ch'.nodes, s, f) \/ Sends(c.sent, f) \/ <<s, f>> \in c.back <=>
                   Has(ch.nodes, s, f) \/ Brings(cmd, s, f)
              /\ <<s, f>> \in c.back => ~Has(ch'.nodes, s, f) /\ ~Sends(c.sent, f)
  BY <1>8, <1>9 DEF Handles
<1>13. /\ supers' \in Seq(Frames)
       /\ \A f : Sends(supers', f) <=> Sends(supers, f) \/ Sends(c.sent, f)
  BY <1>1, <1>4, <1>10, ConcatSupers
<1>14. Meta \in Streams
  BY ConstantsAssumption
<1>15. ASSUME NEW s \in Streams, NEW f \in Frames, NEW g \in Frames,
              Has(ch.nodes, s, f) \/ Brings(cmd, s, f), Carries(cmds', s, g)
       PROVE  f < g
  <2>1. Carries(cmds, s, g)
    BY <1>2, <1>4, <1>15
  <2> QED
    BY <1>2, <1>4, <1>5, <1>15, <2>1 DEF InOrder
<1>16. ASSUME NEW s \in Streams, NEW f \in Frames, Has(ch.nodes, s, f) \/ Brings(cmd, s, f)
       PROVE  /\ f <= next[s] /\ last < f
              /\ \A g \in Frames : Sends(supers, g) => g < f
  <2>1. Has(ch.nodes, s, f) \/ Carries(cmds, s, f)
    BY <1>2, <1>16
  <2> QED
    BY <1>5, <2>1 DEF InOrder
<1>17. InOrder'
  <2>1. InTurn(cmds')
    BY <1>2, <1>4
  <2>2. Increasing(supers')
    <3>1. Increasing(supers) /\ Increasing(c.sent)
      BY <1>5, <1>8 DEF InOrder, Handles, Increasing
    <3>2. ASSUME NEW f, NEW g, Sends(supers, f), Sends(c.sent, g)
          PROVE  f < g
      <4>1. f \in Frames /\ g \in Frames
        BY <1>1, <1>10, <3>2, SendsType
      <4>2. Has(ch.nodes, Meta, g) \/ Brings(cmd, Meta, g)
        BY <1>12, <1>14, <3>2
      <4> QED
        BY <1>14, <1>16, <3>2, <4>1, <4>2
    <3> QED
      BY <1>1, <1>4, <1>10, <3>1, <3>2, ConcatSupers
  <2>3. ASSUME NEW s \in Streams, NEW f \in Frames, Carries(cmds', s, f) \/ Has(ch'.nodes, s, f)
        PROVE  f <= next'[s] /\ last' < f
    <3>1. Carries(cmds, s, f) \/ Has(ch.nodes, s, f) \/ Brings(cmd, s, f)
      BY <1>2, <1>4, <1>12, <2>3
    <3>2. Carries(cmds, s, f) => f <= next[s] /\ last < f
      BY <1>5 DEF InOrder
    <3> QED
      BY <1>4, <1>16, <3>1, <3>2
  <2>4. ASSUME NEW s \in Streams, NEW f \in Frames, NEW g \in Frames,
               Has(ch'.nodes, s, f), Carries(cmds', s, g)
        PROVE  f < g
    BY <1>12, <1>15, <2>4
  <2>5. ASSUME NEW s \in Streams, NEW f \in Frames, NEW g \in Frames,
               Sends(supers', f), Carries(cmds', s, g) \/ Has(ch'.nodes, s, g)
        PROVE  f < g
    <3>1. CASE Sends(supers, f)
      <4>1. CASE Carries(cmds', s, g)
        <5>1. Carries(cmds, s, g)
          BY <1>2, <1>4, <4>1
        <5> QED
          BY <1>5, <3>1, <5>1 DEF InOrder
      <4>2. CASE Has(ch'.nodes, s, g)
        <5>1. Has(ch.nodes, s, g) \/ Brings(cmd, s, g)
          BY <1>12, <4>2
        <5> QED
          BY <1>16, <3>1, <5>1
      <4> QED
        BY <2>5, <4>1, <4>2
    <3>2. CASE Sends(c.sent, f)
      <4>1. CASE Carries(cmds', s, g)
        BY <1>12, <1>15, <3>2, <4>1
      <4>2. CASE Has(ch'.nodes, s, g)
        <5>1. PICK i \in DOMAIN c.sent : c.sent[i] = f
          BY <3>2 DEF Sends
        <5> QED
          BY <1>8, <1>9, <4>2, <5>1 DEF Handles
      <4> QED
        BY <2>5, <4>1, <4>2
    <3> QED
      BY <1>13, <2>5, <3>1, <3>2
  <2>6. ASSUME NEW s \in Streams, NEW f \in Frames, Sends(supers', f)
        PROVE  f <= next'[s] /\ last' < f
    <3>1. CASE Sends(supers, f)
      BY <1>4, <1>5, <3>1 DEF InOrder
    <3>2. CASE Sends(c.sent, f)
      BY <1>4, <1>12, <1>16, <3>2
    <3> QED
      BY <1>13, <2>6, <3>1, <3>2
  <2>7. /\ \A s \in Streams, f \in Frames : <<s, f>> \in client' => f <= last'
        /\ \A s \in Streams : last' <= next'[s]
    BY <1>4, <1>5 DEF InOrder
  <2> QED
    BY <2>1, <2>2, <2>3, <2>4, <2>5, <2>6, <2>7 DEF InOrder
<1>18. Stopped'
  BY <1>1, <1>4, <1>5 DEF Stopped
<1>19. Accounted'
  <2> SUFFICES ASSUME NEW s \in on, NEW f \in Frames
               PROVE  f \in out'[s] <=> \/ Carries(cmds', s, f) \/ Has(ch'.nodes, s, f)
                                        \/ Sends(supers', f) \/ <<s, f>> \in client
    BY <1>4 DEF Accounted
  <2>1. s \in Streams /\ f \in Nat /\ ~(f < f)
    BY <1>1
  <2>2. f \in out'[s] <=> f \in out[s] /\ <<s, f>> \notin c.back
    BY <1>4, <2>1
  <2>3. f \in out[s] <=> \/ Carries(cmds, s, f) \/ Has(ch.nodes, s, f)
                         \/ Sends(supers, f) \/ <<s, f>> \in client
    BY <1>5 DEF Accounted
  <2>4. Carries(cmds, s, f) <=> Brings(cmd, s, f) \/ Carries(cmds', s, f)
    BY <1>2, <1>4
  <2>5. Sends(supers', f) <=> Sends(supers, f) \/ Sends(c.sent, f)
    BY <1>13
  <2>6. Has(ch.nodes, s, f) \/ Brings(cmd, s, f) =>
          ~Carries(cmds', s, f) /\ ~Sends(supers, f) /\ <<s, f>> \notin client
    <3> SUFFICES ASSUME Has(ch.nodes, s, f) \/ Brings(cmd, s, f)
                 PROVE  ~Carries(cmds', s, f) /\ ~Sends(supers, f) /\ <<s, f>> \notin client
      OBVIOUS
    <3>1. ~Carries(cmds', s, f)
      BY <1>15, <2>1
    <3>2. last < f /\ ~Sends(supers, f)
      BY <1>16, <2>1
    <3>3. <<s, f>> \in client => f <= last
      BY <1>5, <2>1 DEF InOrder
    <3>4. ~(f <= last)
      BY <1>1, <2>1, <3>2
    <3> QED
      BY <3>1, <3>2, <3>3, <3>4
  <2>7. /\ Has(ch'.nodes, s, f) \/ Sends(c.sent, f) \/ <<s, f>> \in c.back <=>
             Has(ch.nodes, s, f) \/ Brings(cmd, s, f)
        /\ <<s, f>> \in c.back => ~Has(ch'.nodes, s, f) /\ ~Sends(c.sent, f)
    BY <1>12, <2>1
  <2> QED
    BY <2>2, <2>3, <2>4, <2>5, <2>6, <2>7
<1>20. Types'
  <2>1. out' \in [Streams -> SUBSET Frames]
    BY <1>1, <1>4
  <2>2. cmds' \in Seq(CmdType)
    BY <1>2, <1>4
  <2> QED
    BY <1>4, <1>9, <1>13, <2>1, <2>2 DEF IInv, Types
<1> QED
  BY <1>11, <1>17, <1>18, <1>19, <1>20 DEF IInv

\* The callback thread passes a super buffer to the client.
LEMMA DispatchSuperBufKeeps ==
  ASSUME IInv, DispatchSuperBuf
  PROVE  IInv'
<1> DEFINE h == Head(supers)
<1>1. /\ supers \in Seq(Frames) /\ supers # <<>> /\ cmds \in Seq(CmdType)
      /\ client \subseteq Streams \X Frames /\ last \in Nat /\ Frames \subseteq Nat
  <2>1. Frames \subseteq Nat
    BY ConstantsAssumption DEF Frames
  <2> QED
    BY <2>1 DEF IInv, Types, DispatchSuperBuf
<1>2. InOrder /\ Channel(ch) /\ Stopped /\ Accounted
  BY DEF IInv
<1>3. /\ h \in Frames /\ Tail(supers) \in Seq(Frames)
      /\ \A f : Sends(supers, f) <=> f = h \/ Sends(Tail(supers), f)
      /\ Increasing(Tail(supers)) /\ \A f : Sends(Tail(supers), f) => h < f
  <2>1. Increasing(supers)
    BY <1>2 DEF InOrder
  <2> QED
    BY <1>1, <2>1, HeadSuper
<1>4. /\ client' = client \cup {<<s, h>> : s \in Streams} /\ last' = h /\ supers' = Tail(supers)
      /\ UNCHANGED <<ch, phase, on, cmds, posted, waiting, out, next, count>>
  BY DEF DispatchSuperBuf
<1> HIDE DEF h
<1>5. Sends(supers, h)
  BY <1>3
<1>6. \A s \in Streams : last < h /\ h <= next[s]
  BY <1>2, <1>3, <1>5 DEF InOrder
<1>7. \A s \in Streams, f \in Frames : <<s, f>> \in client' <=> <<s, f>> \in client \/ f = h
  BY <1>4
<1>8. InOrder'
  <2>1. InTurn(cmds') /\ Increasing(supers')
    BY <1>2, <1>3, <1>4 DEF InOrder
  <2>2. ASSUME NEW s \in Streams, NEW f \in Frames, Carries(cmds', s, f) \/ Has(ch'.nodes, s, f)
        PROVE  f <= next'[s] /\ last' < f
    BY <1>2, <1>3, <1>4, <1>5, <2>2 DEF InOrder
  <2>3. ASSUME NEW s \in Streams, NEW f \in Frames, NEW g \in Frames,
               Has(ch'.nodes, s, f), Carries(cmds', s, g)
        PROVE  f < g
    BY <1>2, <1>4, <2>3 DEF InOrder
  <2>4. ASSUME NEW s \in Streams, NEW f \in Frames, Sends(supers', f)
        PROVE  /\ f <= next'[s] /\ last' < f
               /\ \A g \in Frames : Carries(cmds', s, g) \/ Has(ch'.nodes, s, g) => f < g
    BY <1>2, <1>3, <1>4, <2>4 DEF InOrder
  <2>5. ASSUME NEW s \in Streams, NEW f \in Frames, <<s, f>> \in client'
        PROVE  f <= last'
    <3>1. <<s, f>> \in client => f <= last
      BY <1>2 DEF InOrder
    <3>2. f \in Nat /\ h \in Nat
      BY <1>1, <1>3
    <3> QED
      BY <1>1, <1>4, <1>6, <1>7, <2>5, <3>1, <3>2
  <2>6. \A s \in Streams : last' <= next'[s]
    BY <1>4, <1>6
  <2> QED
    BY <2>1, <2>2, <2>3, <2>4, <2>5, <2>6 DEF InOrder
<1>9. Accounted'
  <2> SUFFICES ASSUME NEW s \in on, NEW f \in Frames
               PROVE  f \in out[s] <=> \/ Carries(cmds, s, f) \/ Has(ch.nodes, s, f)
                                       \/ Sends(supers', f) \/ <<s, f>> \in client'
    BY <1>4 DEF Accounted
  <2>1. s \in Streams
    BY DEF IInv, Types
  <2>2. Sends(supers, f) <=> f = h \/ Sends(supers', f)
    BY <1>3, <1>4
  <2>3. <<s, f>> \in client' <=> <<s, f>> \in client \/ f = h
    BY <1>7, <2>1
  <2> QED
    BY <1>2, <2>2, <2>3 DEF Accounted
<1>10. Stopped' /\ Channel(ch')
  <2>1. phase = "stopped" => FALSE
    BY <1>1, <1>2 DEF Stopped
  <2> QED
    BY <1>2, <1>4, <2>1 DEF Stopped
<1>11. Types'
  <2>1. client' \subseteq Streams \X Frames
    BY <1>1, <1>3, <1>4
  <2>2. last' \in Nat /\ supers' \in Seq(Frames)
    BY <1>1, <1>3, <1>4
  <2> QED
    BY <1>4, <2>1, <2>2 DEF IInv, Types
<1> QED
  BY <1>8, <1>9, <1>10, <1>11 DEF IInv

\* The client returns a buffer.
LEMMA QBufKeeps ==
  ASSUME IInv, NEW s \in Streams, NEW f \in Frames, QBuf(s, f)
  PROVE  IInv'
<1>1. /\ <<s, f>> \in client /\ client' = client \ {<<s, f>>}
      /\ out' = [out EXCEPT ![s] = @ \ {f}]
      /\ UNCHANGED <<ch, phase, on, cmds, posted, waiting, supers, next, last, count>>
  BY DEF QBuf
<1>2. InOrder /\ Channel(ch) /\ Stopped /\ Accounted
  BY DEF IInv
<1>3. /\ on \subseteq Streams /\ out \in [Streams -> SUBSET Frames] /\ last \in Nat
      /\ f \in Nat /\ client \subseteq Streams \X Frames
  <2>1. Frames \subseteq Nat
    BY ConstantsAssumption DEF Frames
  <2> QED
    BY <2>1 DEF IInv, Types
<1>4. InOrder'
  BY <1>1, <1>2 DEF InOrder
<1>5. ~Carries(cmds, s, f) /\ ~Has(ch.nodes, s, f) /\ ~Sends(supers, f)
  <2>1. ~(last < f)
    <3>1. f <= last
      BY <1>1, <1>2 DEF InOrder
    <3> QED
      BY <1>3, <3>1
  <2> QED
    BY <1>2, <2>1 DEF InOrder
<1>6. Accounted'
  <2> SUFFICES ASSUME NEW r \in on, NEW g \in Frames
               PROVE  g \in out'[r] <=> \/ Carries(cmds, r, g) \/ Has(ch.nodes, r, g)
                                        \/ Sends(supers, g) \/ <<r, g>> \in client'
    BY <1>1 DEF Accounted
  <2>1. g \in out[r] <=> \/ Carries(cmds, r, g) \/ Has(ch.nodes, r, g)
                         \/ Sends(supers, g) \/ <<r, g>> \in client
    BY <1>2 DEF Accounted
  <2>2. CASE r = s /\ g = f
    <3>1. g \notin out'[r] /\ <<r, g>> \notin client'
      BY <1>1, <1>3, <2>2
    <3> QED
      BY <1>5, <2>2, <3>1
  <2>3. CASE ~(r = s /\ g = f)
    <3>1. g \in out'[r] <=> g \in out[r]
      BY <1>1, <1>3, <2>3
    <3>2. <<r, g>> \in client' <=> <<r, g>> \in client
      BY <1>1, <2>3
    <3> QED
      BY <2>1, <3>1, <3>2
  <2> QED
    BY <2>2, <2>3
<1>7. Types'
  <2>1. out' \in [Streams -> SUBSET Frames] /\ client' \subseteq Streams \X Frames
    BY <1>1, <1>3
  <2> QED
    BY <1>1, <2>1 DEF IInv, Types
<1>8. Stopped' /\ Channel(ch')
  BY <1>1, <1>2 DEF Stopped
<1> QED
  BY <1>4, <1>6, <1>7, <1>8 DEF IInv

\* A stream brings a frame.
LEMMA StreamFrameKeeps ==
  ASSUME IInv, NEW s \in Streams, NEW f \in Frames, StreamFrame(s, f)
  PROVE  IInv'
<1>1. PICK info \in Infos(s, f) :
        cmds' = Append(cmds, [type |-> "data", stream |-> s, frame |-> f, info |-> info])
  BY DEF StreamFrame
<1>2. /\ s \in on /\ f > next[s]
      /\ next' = [next EXCEPT ![s] = f] /\ out' = [out EXCEPT ![s] = @ \cup {f}]
      /\ UNCHANGED <<ch, phase, on, posted, waiting, supers, client, last>>
  BY DEF StreamFrame
<1>3. InOrder /\ Channel(ch) /\ Stopped /\ Accounted
  BY DEF IInv
<1>4. /\ on \subseteq Streams /\ out \in [Streams -> SUBSET Frames] /\ last \in Nat
      /\ next \in [Streams -> Nat] /\ cmds \in Seq(CmdType) /\ Frames \subseteq Nat
      /\ ch \in ChannelType
  <2>1. Frames \subseteq Nat
    BY ConstantsAssumption DEF Frames
  <2> QED
    BY <2>1 DEF IInv, Types
<1>5. PICK cmd \in CmdType : /\ cmds' = Append(cmds, cmd)
                             /\ \A r, g : Brings(cmd, r, g) <=> r = s /\ g = f
  <2>1. info \in InfoType
    <3>1. CASE info = [kind |-> "none"]
      BY <3>1 DEF InfoType
    <3>2. CASE info \in {[kind |-> "done"], [kind |-> "future"]}
      BY <3>2 DEF InfoType
    <3>3. CASE info \in {[kind |-> k, id |-> i] : k \in {"good", "divert"}, i \in f .. MaxFrame}
      <4>1. PICK k \in {"good", "divert"}, i \in f .. MaxFrame : info = [kind |-> k, id |-> i]
        BY <3>3
      <4>2. i \in Frames
        BY ConstantsAssumption DEF Frames
      <4> QED
        BY <4>1, <4>2 DEF InfoType
    <3> QED
      BY <3>1, <3>2, <3>3 DEF Infos
  <2>2. PICK cmd : cmd = [type |-> "data", stream |-> s, frame |-> f, info |-> info]
    OBVIOUS
  <2>3. cmd \in CmdType
    BY <2>1, <2>2 DEF CmdType, DataType
  <2>4. \A r, g : Brings(cmd, r, g) <=> r = s /\ g = f
    BY <2>2 DEF Brings
  <2> QED
    BY <1>1, <2>2, <2>3, <2>4
<1>6. ASSUME NEW g \in Frames, Carries(cmds, s, g) \/ Has(ch.nodes, s, g) \/ Sends(supers, g)
      PROVE  g < f
  <2>1. g <= next[s]
    BY <1>3, <1>6 DEF InOrder
  <2> QED
    BY <1>2, <1>4, <2>1
<1>7. /\ cmds' \in Seq(CmdType)
      /\ \A r, g : Carries(cmds', r, g) <=> Carries(cmds, r, g) \/ (r = s /\ g = f)
      /\ InTurn(cmds')
  <2>1. InTurn(cmds)
    BY <1>3 DEF InOrder
  <2>2. ASSUME NEW r, NEW g, NEW i, Carries(cmds, r, g), Brings(cmd, r, i)
        PROVE  g < i
    <3>1. r = s /\ i = f /\ g \in Frames
      BY <1>4, <1>5, <2>2, CarriesType
    <3> QED
      BY <1>6, <2>2, <3>1
  <2>3. \A r, g : Carries(Append(cmds, cmd), r, g) <=> Carries(cmds, r, g) \/ Brings(cmd, r, g)
    BY <1>4, AppendCmd
  <2>4. Append(cmds, cmd) \in Seq(CmdType) /\ InTurn(Append(cmds, cmd))
    BY <1>4, <2>1, <2>2, AppendCmd
  <2> QED
    BY <1>5, <2>3, <2>4
<1>8. \A r \in Streams : next'[r] \in Nat /\ next[r] <= next'[r]
  BY <1>2, <1>4
<1>9. next'[s] = f /\ last < f /\ f \in Nat
  <2>1. last <= next[s]
    BY <1>3 DEF InOrder
  <2> QED
    BY <1>2, <1>4, <2>1
<1>10. InOrder'
  <2>1. InTurn(cmds') /\ Increasing(supers')
    BY <1>2, <1>3, <1>7 DEF InOrder
  <2>2. ASSUME NEW r \in Streams, NEW g \in Frames, Carries(cmds', r, g) \/ Has(ch'.nodes, r, g)
        PROVE  g <= next'[r] /\ last' < g
    <3>1. CASE r = s /\ g = f
      BY <1>2, <1>9, <3>1
    <3>2. CASE Carries(cmds, r, g) \/ Has(ch.nodes, r, g)
      <4>1. g <= next[r] /\ last < g
        BY <1>3, <3>2 DEF InOrder
      <4>2. g \in Nat /\ next[r] \in Nat
        BY <1>4
      <4> QED
        BY <1>2, <1>8, <4>1, <4>2
    <3> QED
      BY <1>2, <1>7, <2>2, <3>1, <3>2
  <2>3. ASSUME NEW r \in Streams, NEW g \in Frames, NEW i \in Frames,
               Has(ch'.nodes, r, g) \/ Sends(supers', g), Carries(cmds', r, i)
        PROVE  g < i
    <3>1. CASE r = s /\ i = f
      BY <1>2, <1>6, <2>3, <3>1
    <3>2. CASE Carries(cmds, r, i)
      BY <1>2, <1>3, <2>3, <3>2 DEF InOrder
    <3> QED
      BY <1>7, <2>3, <3>1, <3>2
  <2>4. ASSUME NEW r \in Streams, NEW g \in Frames, NEW i \in Frames,
               Sends(supers', g), Has(ch'.nodes, r, i)
        PROVE  g < i
    BY <1>2, <1>3, <2>4 DEF InOrder
  <2>5. ASSUME NEW r \in Streams, NEW g \in Frames, Sends(supers', g)
        PROVE  g <= next'[r] /\ last' < g
    <3>1. g <= next[r] /\ last < g
      BY <1>2, <1>3, <2>5 DEF InOrder
    <3>2. g \in Nat /\ next[r] \in Nat
      BY <1>4
    <3> QED
      BY <1>2, <1>8, <3>1, <3>2
  <2>6. \A r \in Streams : last' <= next'[r]
    <3> TAKE r \in Streams
    <3>1. last <= next[r] /\ next[r] \in Nat
      BY <1>3, <1>4 DEF InOrder
    <3> QED
      BY <1>2, <1>4, <1>8, <3>1
  <2>7. \A r \in Streams, g \in Frames : <<r, g>> \in client' => g <= last'
    BY <1>2, <1>3 DEF InOrder
  <2> QED
    BY <2>1, <2>2, <2>3, <2>4, <2>5, <2>6, <2>7 DEF InOrder
<1>11. Accounted'
  <2> SUFFICES ASSUME NEW r \in on, NEW g \in Frames
               PROVE  g \in out'[r] <=> \/ Carries(cmds', r, g) \/ Has(ch.nodes, r, g)
                                        \/ Sends(supers, g) \/ <<r, g>> \in client
    BY <1>2 DEF Accounted
  <2>1. g \in out[r] <=> \/ Carries(cmds, r, g) \/ Has(ch.nodes, r, g)
                         \/ Sends(supers, g) \/ <<r, g>> \in client
    BY <1>3 DEF Accounted
  <2>2. g \in out'[r] <=> g \in out[r] \/ (r = s /\ g = f)
    BY <1>2, <1>4
  <2> QED
    BY <1>7, <2>1, <2>2
<1>12. Types'
  <2>1. out' \in [Streams -> SUBSET Frames] /\ next' \in [Streams -> Nat]
    BY <1>2, <1>4
  <2> QED
    BY <1>2, <1>7, <2>1 DEF IInv, Types
<1>13. Stopped' /\ Channel(ch')
  <2>1. phase \notin {"stopped", "joining cb"}
    BY <1>2, <1>3 DEF Stopped
  <2> QED
    BY <1>2, <1>3, <2>1 DEF Stopped
<1> QED
  BY <1>10, <1>11, <1>12, <1>13 DEF IInv

\* A command that brings no buffer is appended, or nothing is.
LEMMA AskedKeeps ==
  ASSUME IInv, NEW cmd \in CmdType, cmd.type # "data",
         cmds' = Append(cmds, cmd) \/ cmds' = cmds,
         UNCHANGED <<ch, supers, client, out, next, last>>, on' \subseteq on,
         phase' \in Phases, posted' \in Int, waiting' \in BOOLEAN, Stopped'
  PROVE  IInv'
<1>1. cmds \in Seq(CmdType) /\ InTurn(cmds)
  BY DEF IInv, Types, InOrder
<1>2. \A s, f : ~Brings(cmd, s, f)
  BY DEF Brings
<1>3. cmds' \in Seq(CmdType) /\ InTurn(cmds') /\ \A s, f : Carries(cmds', s, f) <=> Carries(cmds, s, f)
  <2>1. CASE cmds' = cmds
    BY <1>1, <2>1
  <2>2. CASE cmds' = Append(cmds, cmd)
    <3>1. Append(cmds, cmd) \in Seq(CmdType) /\ InTurn(Append(cmds, cmd))
      BY <1>1, <1>2, AppendCmd
    <3>2. \A s, f : Carries(Append(cmds, cmd), s, f) <=> Carries(cmds, s, f) \/ Brings(cmd, s, f)
      BY <1>1, AppendCmd
    <3> QED
      BY <1>2, <2>2, <3>1, <3>2
  <2> QED
    BY <2>1, <2>2
<1>4. InOrder'
  BY <1>3, OrderKept
<1>5. Types'
  BY <1>3 DEF IInv, Types
<1>6. Accounted'
  BY <1>3 DEF IInv, Accounted
<1>7. Channel(ch')
  BY DEF IInv
<1> QED
  BY <1>4, <1>5, <1>6, <1>7 DEF IInv

\* Two commands of the client's side that bring no buffer.
LEMMA PlainCommands ==
  /\ [type |-> "exit"] \in CmdType /\ [type |-> "exit"].type # "data"
  /\ [type |-> "flush", frame |-> 0] \in CmdType /\ [type |-> "flush", frame |-> 0].type # "data"
BY DEF CmdType, ExitType, FlushType

\* The client asks for something.
LEMMA AskKeeps ==
  ASSUME IInv, NEW cmd \in Commands, Ask(cmd)
  PROVE  IInv'
<1>1. cmd \in CmdType /\ cmd.type # "data"
  <2>1. cmd \in CmdType
    BY DEF CmdType
  <2>2. cmd.type # "data"
    BY CommandsAssumption
  <2> QED
    BY <2>1, <2>2
<1>2. /\ phase = "active" /\ cmds' = Append(cmds, cmd)
      /\ waiting' \in BOOLEAN
      /\ UNCHANGED <<ch, phase, on, posted, supers, client, out, next, last>>
  BY DEF Ask
<1>3. phase' \in Phases /\ posted' \in Int
  BY <1>2 DEF IInv, Types
<1>4. Stopped'
  BY <1>2 DEF Stopped
<1> QED
  BY <1>1, <1>2, <1>3, <1>4, AskedKeeps

\* The end of a flush and the start of a stop.
LEMMA ClientKeeps ==
  ASSUME IInv, EndFlush \/ Stop
  PROVE  IInv'
<1>1. /\ phase = "active" /\ phase' \in {"active", "stopping"}
      /\ UNCHANGED <<ch, on, cmds, supers, client, out, next, last>>
  BY DEF EndFlush, Stop
<1>2. posted' \in Int /\ waiting' \in BOOLEAN
  <2>1. posted \in Int /\ waiting \in BOOLEAN
    BY DEF IInv, Types
  <2>2. posted - 1 \in Int
    BY <2>1
  <2>3. CASE EndFlush
    BY <2>2, <2>3 DEF EndFlush
  <2>4. CASE Stop
    BY <2>1, <2>4 DEF Stop
  <2> QED
    BY <2>3, <2>4
<1>3. Stopped' /\ phase' \in Phases
  BY <1>1 DEF Stopped, Phases
<1>4. PICK cmd \in CmdType : cmd.type # "data"
  BY PlainCommands
<1> QED
  BY <1>1, <1>2, <1>3, <1>4, AskedKeeps

\* A stream is stopped, and after the last one the queue is flushed.
LEMMA StopStreamKeeps ==
  ASSUME IInv, NEW s \in Streams, StopStream(s)
  PROVE  IInv'
<1>1. /\ phase = "stopping" /\ s \in on /\ (s = Meta => on = {Meta}) /\ on' = on \ {s}
      /\ UNCHANGED <<ch, posted, supers, client, out, next, last>>
  BY DEF StopStream
<1>2. PICK cmd \in CmdType : cmd.type # "data" /\ cmd = [type |-> "flush", frame |-> 0]
  BY PlainCommands
<1>3. posted' \in Int /\ waiting \in BOOLEAN
  BY <1>1 DEF IInv, Types
<1>4. CASE on = {Meta}
  <2>1. phase' = "flushing" /\ cmds' = Append(cmds, cmd) /\ waiting' = TRUE
    BY <1>2, <1>4 DEF StopStream
  <2>2. on' = {}
    BY <1>1, <1>4
  <2>3. Stopped' /\ phase' \in Phases
    BY <2>1, <2>2 DEF Stopped, Phases
  <2> QED
    BY <1>1, <1>2, <1>3, <2>1, <2>2, <2>3, AskedKeeps
<1>5. CASE on # {Meta}
  <2>1. phase' = "stopping" /\ cmds' = cmds /\ waiting' = waiting
    BY <1>1, <1>5 DEF StopStream
  <2>2. Stopped' /\ phase' \in Phases
    BY <2>1 DEF Stopped, Phases
  <2> QED
    BY <1>1, <1>2, <1>3, <2>1, <2>2, AskedKeeps
<1> QED
  BY <1>4, <1>5

\* The command thread is told to end.
LEMMA StopThreadKeeps ==
  ASSUME IInv, StopThread
  PROVE  IInv'
<1>1. /\ phase = "flushing" /\ posted' = posted - 1 /\ waiting' = FALSE
      /\ phase' = "joining cmd" /\ UNCHANGED <<ch, on, supers, client, out, next, last>>
  BY DEF StopThread
<1>2. PICK cmd \in CmdType : cmd.type # "data" /\ cmds' = Append(cmds, cmd)
  BY PlainCommands DEF StopThread
<1>3. posted' \in Int
  <2>1. posted \in Int
    BY DEF IInv, Types
  <2>2. posted - 1 \in Int
    BY <2>1
  <2> QED
    BY <1>1, <2>2
<1>4. Stopped' /\ phase' \in Phases
  BY <1>1 DEF IInv, Stopped, Phases
<1> QED
  BY <1>1, <1>2, <1>3, <1>4, AskedKeeps

\* The command thread has ended: what is left in its queue is freed.
LEMMA JoinCmdThreadKeeps ==
  ASSUME IInv, JoinCmdThread
  PROVE  IInv'
<1>1. /\ phase = "joining cmd" /\ phase' = "joining cb" /\ cmds' = <<>>
      /\ UNCHANGED <<ch, on, posted, waiting, supers, client, out, next, last>>
  BY DEF JoinCmdThread
<1>2. InTurn(cmds') /\ \A s, f : ~Carries(cmds', s, f)
  <2>1. cmds' = <<>>
    BY <1>1
  <2> QED
    BY <2>1 DEF InTurn, Carries
<1>3. InOrder'
  BY <1>1, <1>2, OrderKept
<1>4. Stopped' /\ on' = {}
  BY <1>1 DEF IInv, Stopped
<1>5. Accounted'
  BY <1>4 DEF Accounted
<1>6. Types'
  <2>1. <<>> \in Seq(CmdType)
    OBVIOUS
  <2>2. cmds' \in Seq(CmdType)
    BY <1>1, <2>1
  <2> QED
    BY <1>1, <2>2 DEF IInv, Types, Phases
<1> QED
  BY <1>1, <1>3, <1>4, <1>5, <1>6 DEF IInv

\* The callback thread has ended, too: the queue of super buffers is freed.
Frees(c, d) == d = [c EXCEPT !.nodes = <<>>, !.match_cnt = 0, !.expected = 0, !.good = 0]

\* The freed queue is empty, and the invariant on the channel holds.
LEMMA FreeDoes ==
  ASSUME NEW c \in ChannelType, NEW d, Channel(c), Frees(c, d)
  PROVE  d \in ChannelType /\ Channel(d) /\ d.nodes = <<>>
<1>1. PICK q \in Seq(NodeType), m \in Int, z \in Nat : q = <<>> /\ m = 0 /\ z = 0
  <2>1. <<>> \in Seq(NodeType)
    OBVIOUS
  <2>2. PICK q \in Seq(NodeType) : q = <<>>
    BY <2>1
  <2>3. PICK m \in Int, z \in Nat : m = 0 /\ z = 0
    OBVIOUS
  <2> QED
    BY <2>2, <2>3
<1>2. PICK d1 : SetsQueue(c, d1, q, m)
  BY DEF SetsQueue
<1>3. d1 \in ChannelType
  BY <1>2, SetQueue
<1>4. PICK d2 \in ChannelType : d2 = [d1 EXCEPT !.expected = z]
  BY <1>3, SetNumber
<1>5. PICK d3 \in ChannelType : d3 = [d2 EXCEPT !.good = z]
  BY SetNumber
<1>6. d = d3
  BY <1>1, <1>2, <1>4, <1>5 DEF Frees, SetsQueue, ChannelType
<1>7. /\ d.nodes = <<>> /\ d.match_cnt = 0 /\ d.mode = c.mode /\ d.pending = c.pending
      /\ d.wait = c.wait /\ d.zsl = c.zsl /\ d.manual = c.manual /\ d.back = c.back /\ d.sent = c.sent
  BY DEF Frees, ChannelType
<1>8. Queue(d)
  BY <1>7, ConstantsAssumption DEF Queue, Ascending
<1>9. 0 <= WaterMark
  BY ConstantsAssumption
<1>10. Channel(d)
  BY <1>7, <1>8, <1>9 DEF Channel, Served, ZslFine
<1> QED
  BY <1>6, <1>7, <1>10

\* The callback thread is joined and the queue of super buffers freed.
LEMMA JoinCbThreadKeeps ==
  ASSUME IInv, JoinCbThread
  PROVE  IInv'
<1>1. /\ phase = "joining cb" /\ phase' = "stopped" /\ supers = <<>> /\ Frees(ch, ch')
      /\ UNCHANGED <<on, cmds, posted, waiting, supers, client, out, next, last>>
  BY DEF JoinCbThread, Frees
<1>2. ch \in ChannelType /\ Channel(ch)
  BY DEF IInv, Types
<1>3. ch' \in ChannelType /\ Channel(ch') /\ ch'.nodes = <<>>
  BY <1>1, <1>2, FreeDoes
<1>4. InOrder'
  <2>1. InTurn(cmds')
    BY <1>1 DEF IInv, InOrder
  <2>2. \A s, f : ~Has(ch'.nodes, s, f)
    BY <1>3 DEF Has
  <2> QED
    BY <1>1, <2>1, <2>2, OrderKept
<1>5. Stopped' /\ on' = {}
  BY <1>1, <1>3 DEF IInv, Stopped
<1>6. Accounted'
  BY <1>5 DEF Accounted
<1>7. Types'
  BY <1>1, <1>3 DEF IInv, Types, Phases
<1> QED
  BY <1>3, <1>4, <1>5, <1>6, <1>7 DEF IInv

\* The channel is started again.
Restarts(c, d) == d = [c EXCEPT !.expected = 0, !.good = 0, !.led_off = 0, !.wait = FALSE]

\* The restarted channel keeps its empty queue, and the invariant holds.
LEMMA RestartDoes ==
  ASSUME NEW c \in ChannelType, NEW d, Channel(c), c.nodes = <<>>, Restarts(c, d)
  PROVE  d \in ChannelType /\ Channel(d) /\ d.nodes = <<>>
<1>1. PICK z \in Nat : z = 0
  OBVIOUS
<1>2. PICK d1 \in ChannelType : d1 = [c EXCEPT !.expected = z]
  BY SetNumber
<1>3. PICK d2 \in ChannelType : d2 = [d1 EXCEPT !.good = z]
  BY SetNumber
<1>4. PICK d3 \in ChannelType : d3 = [d2 EXCEPT !.led_off = z]
  BY SetNumber
<1>5. PICK d4 \in ChannelType : d4 = [d3 EXCEPT !.wait = FALSE]
  BY SetFlag
<1>6. d = d4
  BY <1>1, <1>2, <1>3, <1>4, <1>5 DEF Restarts, ChannelType
<1>7. /\ QueueKept(c, d) /\ d.mode = c.mode /\ d.pending = c.pending
      /\ d.zsl = c.zsl /\ d.manual = c.manual
  BY DEF Restarts, ChannelType, QueueKept
<1>8. Served(d)
  <2>1. Len(c.nodes) = 0
    OBVIOUS
  <2>2. c.match_cnt = 0
    BY <2>1 DEF Channel, Queue
  <2> QED
    BY <1>7, <2>2 DEF Served, QueueKept
<1>9. Channel(d)
  BY <1>7, <1>8, AlikeDoes DEF Alike
<1> QED
  BY <1>6, <1>7, <1>9 DEF QueueKept

\* The channel is started.
LEMMA StartKeeps ==
  ASSUME IInv, Start
  PROVE  IInv'
<1>1. /\ phase = "stopped" /\ phase' = "active" /\ on' = Streams /\ Restarts(ch, ch')
      /\ client = {} /\ posted' = 0 /\ last' = 0
      /\ out' = [s \in Streams |-> {}] /\ next' = [s \in Streams |-> 0]
      /\ UNCHANGED <<cmds, waiting, supers, client>>
  BY DEF Start, Restarts
<1>2. ch \in ChannelType /\ Channel(ch) /\ cmds = <<>> /\ supers = <<>> /\ ch.nodes = <<>>
  BY <1>1 DEF IInv, Types, Stopped
<1>3. ch' \in ChannelType /\ Channel(ch') /\ ch'.nodes = <<>>
  BY <1>1, <1>2, RestartDoes
<1>4. /\ \A s, f : ~Carries(cmds', s, f) /\ ~Has(ch'.nodes, s, f) /\ <<s, f>> \notin client'
      /\ \A f : ~Sends(supers', f)
  BY <1>1, <1>2, <1>3 DEF Carries, Has, Sends
<1>5. InOrder'
  <2>1. InTurn(cmds') /\ Increasing(supers')
    BY <1>1, <1>2 DEF InTurn, Increasing
  <2>2. \A s \in Streams : last' <= next'[s]
    BY <1>1
  <2> QED
    BY <1>4, <2>1, <2>2 DEF InOrder
<1>6. Accounted'
  <2> SUFFICES ASSUME NEW s \in Streams, NEW f \in Frames
               PROVE  f \notin out'[s]
    BY <1>1, <1>4 DEF Accounted
  <2> QED
    BY <1>1
<1>7. Stopped'
  BY <1>1 DEF Stopped
<1>8. Types'
  <2>1. out' \in [Streams -> SUBSET Frames] /\ next' \in [Streams -> Nat]
    BY <1>1
  <2>2. posted' \in Int /\ last' \in Nat /\ on' \subseteq Streams /\ phase' \in Phases
    BY <1>1 DEF Phases
  <2> QED
    BY <1>1, <1>3, <2>1, <2>2 DEF IInv, Types
<1> QED
  BY <1>3, <1>5, <1>6, <1>7, <1>8 DEF IInv

\* A step that changes nothing.
LEMMA StutterKeeps ==
  ASSUME IInv, UNCHANGED vars
  PROVE  IInv'
BY DEF vars, IInv, Types, InOrder, Stopped, Accounted

\* The first state.
LEMMA InitHolds ==
  ASSUME Init
  PROVE  IInv
<1>1. /\ ch = InitChannel /\ phase = "stopped" /\ on = {} /\ cmds = <<>> /\ posted = 0 /\ waiting = FALSE
      /\ supers = <<>> /\ client = {} /\ out = [s \in Streams |-> {}]
      /\ next = [s \in Streams |-> 0] /\ last = 0
  BY DEF Init
<1>2. ch \in ChannelType
  <2>1. <<>> \in Seq(NodeType) /\ <<>> \in Seq(Frames)
    OBVIOUS
  <2>2. {} \in SUBSET (Streams \X Frames)
    OBVIOUS
  <2> QED
    BY <1>1, <2>1, <2>2 DEF InitChannel, ChannelType
<1>3. /\ ch.nodes = <<>> /\ ch.match_cnt = 0 /\ ch.back = {} /\ ch.sent = <<>> /\ ch.zsl = FALSE
  BY <1>1 DEF InitChannel
<1>4. Channel(ch)
  <2>1. Queue(ch)
    BY <1>3, ConstantsAssumption DEF Queue, Ascending
  <2>2. 0 <= WaterMark
    BY ConstantsAssumption
  <2> QED
    BY <1>3, <2>1, <2>2 DEF Channel, Served, ZslFine
<1>5. /\ \A s, f : ~Carries(cmds, s, f) /\ ~Has(ch.nodes, s, f) /\ <<s, f>> \notin client
      /\ \A f : ~Sends(supers, f)
  BY <1>1, <1>3 DEF Carries, Has, Sends
<1>6. InOrder
  <2>1. InTurn(cmds) /\ Increasing(supers)
    BY <1>1 DEF InTurn, Increasing
  <2>2. \A s \in Streams : last <= next[s]
    BY <1>1
  <2> QED
    BY <1>5, <2>1, <2>2 DEF InOrder
<1>7. Stopped /\ Accounted
  BY <1>1, <1>3 DEF Stopped, Accounted
<1>8. Types
  <2>1. cmds \in Seq(CmdType) /\ supers \in Seq(Frames)
    BY <1>1
  <2>2. out \in [Streams -> SUBSET Frames] /\ next \in [Streams -> Nat]
    BY <1>1
  <2>3. phase \in Phases /\ waiting \in BOOLEAN
    BY <1>1 DEF Phases
  <2>4. on \subseteq Streams /\ client \subseteq Streams \X Frames
    BY <1>1
  <2>5. posted \in Int /\ last \in Nat
    BY <1>1
  <2> QED
    BY <1>2, <2>1, <2>2, <2>3, <2>4, <2>5 DEF Types
<1> QED
  BY <1>4, <1>6, <1>7, <1>8 DEF IInv

\* Every step keeps the invariant.
LEMMA NextKeeps ==
  ASSUME IInv, [Next]_vars
  PROVE  IInv'
<1>1. CASE HandleCommand
  BY <1>1, HandleCommandKeeps
<1>2. CASE DispatchSuperBuf
  BY <1>2, DispatchSuperBufKeeps
<1>3. CASE EndFlush \/ Stop
  BY <1>3, ClientKeeps
<1>4. CASE Start
  BY <1>4, StartKeeps
<1>5. CASE Stopping
  <2>1. CASE StopThread
    BY <2>1, StopThreadKeeps
  <2>2. CASE JoinCmdThread
    BY <2>2, JoinCmdThreadKeeps
  <2>3. CASE JoinCbThread
    BY <2>3, JoinCbThreadKeeps
  <2>4. ASSUME NEW s \in Streams, StopStream(s)
        PROVE  IInv'
    BY <2>4, StopStreamKeeps
  <2> QED
    BY <1>5, <2>1, <2>2, <2>3, <2>4 DEF Stopping
<1>6. ASSUME NEW cmd \in Commands, Ask(cmd)
      PROVE  IInv'
  BY <1>6, AskKeeps
<1>7. ASSUME NEW s \in Streams, NEW f \in Frames, StreamFrame(s, f)
      PROVE  IInv'
  BY <1>7, StreamFrameKeeps
<1>8. ASSUME NEW s \in Streams, NEW f \in Frames, QBuf(s, f)
      PROVE  IInv'
  BY <1>8, QBufKeeps
<1>9. CASE UNCHANGED vars
  BY <1>9, StutterKeeps
<1> QED
  BY <1>1, <1>2, <1>3, <1>4, <1>5, <1>6, <1>7, <1>8, <1>9 DEF Next

-----------------------------------------------------------------------------
(* The theorems.                                                           *)

\* The inductive invariant holds in every state of the channel and its
\* threads: the types, the order of the queue of super buffers and its bounds
\* (mm_channel_superbuf_comp_and_enqueue), the order of the frames on their
\* way through the two command queues, and where each buffer is.
THEOREM Invariance == Spec => []IInv
<1>1. Init => IInv
  BY InitHolds
<1>2. IInv /\ [Next]_vars => IInv'
  BY NextKeeps
<1> QED
  BY <1>1, <1>2, PTL DEF Spec

\* The queue of super buffers keeps no more matched nodes than its water mark
\* and no more unmatched ones than its limit, and match_cnt counts the nodes
\* that can be dequeued: the loops of mm_channel_superbuf_bufdone_overflow and
\* mm_channel_superbuf_skip end.
THEOREM AlwaysQueueIsBounded == Spec => []QueueIsBounded
<1>1. IInv => QueueIsBounded
  <2> SUFFICES ASSUME IInv
               PROVE  QueueIsBounded
    OBVIOUS
  <2>1. ch \in ChannelType /\ Queue(ch)
    BY DEF IInv, Types, Channel
  <2>2. /\ Leading(ch) = ch.match_cnt
        /\ Cardinality(Unmatched(ch)) = Len(ch.nodes) - ch.match_cnt
        /\ {i \in DOMAIN ch.nodes : Matched(ch.nodes[i])} = 1 .. ch.match_cnt
        /\ Cardinality(1 .. ch.match_cnt) = ch.match_cnt
    BY <2>1, LeadingIs
  <2>3. DOMAIN ch.nodes \ Unmatched(ch) = {i \in DOMAIN ch.nodes : Matched(ch.nodes[i])}
    BY DEF Unmatched
  <2>4. ch.match_cnt = Cardinality(DOMAIN ch.nodes \ Unmatched(ch))
    BY <2>2, <2>3
  <2>5. Cardinality(Unmatched(ch)) <= MaxUnmatched + 1
    BY <2>1, <2>2 DEF Queue
  <2>6. ch.mode = "burst" => ch.match_cnt <= WaterMark
    BY DEF IInv, Channel
  <2> QED
    BY <2>2, <2>4, <2>5, <2>6 DEF QueueIsBounded
<1> QED
  BY <1>1, Invariance, PTL

\* Outside a command no matched super buffer waits in the queue while some are
\* pending: mm_channel_process_stream_buf has sent what there was.
THEOREM AlwaysRequestIsServed == Spec => []RequestIsServed
<1>1. IInv => RequestIsServed
  <2> SUFFICES ASSUME IInv, (ch.pending > 0 \/ ch.mode = "continuous") /\ ~ch.wait,
                      NEW i \in DOMAIN ch.nodes
               PROVE  ~Matched(ch.nodes[i])
    BY DEF RequestIsServed
  <2>1. ch \in ChannelType /\ Queue(ch) /\ ch.match_cnt = 0
    BY DEF IInv, Types, Channel, Served
  <2>2. ch.nodes \in Seq(NodeType)
    BY <2>1 DEF ChannelType
  <2>3. ~(i <= 0)
    BY <2>2
  <2> QED
    BY <2>1, <2>3 DEF Queue
<1> QED
  BY <1>1, Invariance, PTL

\* The daemon is left in its snapshot mode only for pictures that are still to
\* come (mm_channel_process_stream_buf).
THEOREM AlwaysZslEnds == Spec => []ZslEnds
<1>1. IInv => ZslEnds
  BY DEF IInv, Channel, ZslFine, ZslEnds
<1> QED
  BY <1>1, Invariance, PTL

\* The client gets super buffers in the order of their frames, each frame
\* once, from one start of the channel to the next (mm_channel_dispatch_super_buf).
THEOREM AlwaysSentInOrder == Spec => SentInOrder
<1>1. IInv /\ [Next]_vars => (phase # "stopped" /\ last' # last => last' > last)
  <2> SUFFICES ASSUME IInv, Next, phase # "stopped", last' # last
               PROVE  last' > last
    BY DEF vars
  <2>1. CASE DispatchSuperBuf
    <3>1. supers \in Seq(Frames) /\ supers # <<>> /\ last' = Head(supers)
      BY <2>1 DEF DispatchSuperBuf, IInv, Types
    <3>2. Sends(supers, Head(supers)) /\ Head(supers) \in Frames
      BY <3>1, HeadSuper
    <3>3. Meta \in Streams
      BY ConstantsAssumption
    <3>4. last < Head(supers)
      BY <3>2, <3>3 DEF IInv, InOrder
    <3> QED
      BY <3>1, <3>4
  <2>2. CASE ~DispatchSuperBuf
    <3>1. last' = last
      BY <2>2 DEF Next, Stopping, HandleCommand, EndFlush, Start, Stop, StopThread, JoinCmdThread,
                  JoinCbThread, StopStream, Ask, StreamFrame, QBuf
    <3> QED
      BY <3>1
  <2> QED
    BY <2>1, <2>2
<1>2. IInv /\ [Next]_vars => [phase # "stopped" /\ last' # last => last' > last]_vars
  BY <1>1
<1> QED
  BY <1>2, Invariance, PTL DEF Spec, SentInOrder

-----------------------------------------------------------------------------
(* The places of a buffer.                                                 *)

\* How many positions there are, when there is at most one.
LEMMA AtMostOne ==
  ASSUME NEW S, \A i, j \in S : i = j
  PROVE  Cardinality(S) = IF S = {} THEN 0 ELSE 1
<1>1. CASE S = {}
  BY <1>1, FS_EmptySet
<1>2. CASE S # {}
  <2>1. PICK i \in S : TRUE
    BY <1>2
  <2>2. S = {i}
    BY <2>1
  <2>3. Cardinality({i}) = 1
    BY FS_Singleton
  <2> QED
    BY <1>2, <2>2, <2>3
<1> QED
  BY <1>1, <1>2

\* A buffer that has not come back to its stream is in exactly one place, any
\* other in none: no discard (mm_channel_superbuf_comp_and_enqueue), flush or
\* stop loses a buffer or returns it twice.
THEOREM AlwaysBuffersAccounted == Spec => []BuffersAccounted
<1>1. IInv => BuffersAccounted
  <2> SUFFICES ASSUME IInv, NEW s \in on, NEW f \in Frames
               PROVE  Places(s, f) = IF f \in out[s] THEN 1 ELSE 0
    BY DEF BuffersAccounted
  <2> DEFINE A == {i \in DOMAIN cmds : cmds[i].type = "data" /\ cmds[i].stream = s /\ cmds[i].frame = f}
             B == {i \in DOMAIN ch.nodes : ch.nodes[i].frame = f /\ s \in ch.nodes[i].bufs}
             C == {i \in DOMAIN supers : supers[i] = f}
             D == {<<s, f>>} \cap client
  <2>1. /\ cmds \in Seq(CmdType) /\ supers \in Seq(Frames) /\ ch.nodes \in Seq(NodeType)
        /\ s \in Streams /\ f \in Nat /\ last \in Nat
    <3>1. Frames \subseteq Nat
      BY ConstantsAssumption DEF Frames
    <3>2. ch \in ChannelType /\ cmds \in Seq(CmdType) /\ supers \in Seq(Frames) /\ on \subseteq Streams
          /\ last \in Nat
      BY DEF IInv, Types
    <3> QED
      BY <3>1, <3>2 DEF ChannelType
  <2>2. InOrder /\ Accounted /\ Ascending(ch.nodes)
    BY DEF IInv, Channel, Queue
  <2>3. ~(f < f)
    BY <2>1
  <2>4. \A i, j \in A : i = j
    <3> SUFFICES ASSUME NEW i \in A, NEW j \in A, i < j
                 PROVE  FALSE
      BY <2>1
    <3>1. Brings(cmds[i], s, f) /\ Brings(cmds[j], s, f)
      BY DEF Brings
    <3> QED
      BY <2>2, <2>3, <3>1 DEF InOrder, InTurn
  <2>5. \A i, j \in B : i = j
    <3> SUFFICES ASSUME NEW i \in B, NEW j \in B, i < j
                 PROVE  FALSE
      BY <2>1
    <3> QED
      BY <2>2, <2>3 DEF Ascending
  <2>6. \A i, j \in C : i = j
    <3> SUFFICES ASSUME NEW i \in C, NEW j \in C, i < j
                 PROVE  FALSE
      BY <2>1
    <3> QED
      BY <2>2, <2>3 DEF InOrder, Increasing
  <2>7. \A i, j \in D : i = j
    OBVIOUS
  <2>8. /\ A = {} <=> ~Carries(cmds, s, f)
        /\ B = {} <=> ~Has(ch.nodes, s, f)
        /\ C = {} <=> ~Sends(supers, f)
        /\ D = {} <=> <<s, f>> \notin client
    BY DEF Carries, Brings, Has, Sends
  <2>9. Places(s, f) = Cardinality(A) + Cardinality(B) + Cardinality(C) + Cardinality(D)
    BY DEF Places
  <2> HIDE DEF A, B, C, D
  <2>10. /\ Cardinality(A) = IF A = {} THEN 0 ELSE 1
         /\ Cardinality(B) = IF B = {} THEN 0 ELSE 1
         /\ Cardinality(C) = IF C = {} THEN 0 ELSE 1
         /\ Cardinality(D) = IF D = {} THEN 0 ELSE 1
    BY <2>4, <2>5, <2>6, <2>7, AtMostOne
  <2>11. f \in out[s] <=> A # {} \/ B # {} \/ C # {} \/ D # {}
    BY <2>2, <2>8 DEF Accounted
  <2>12. A # {} => B = {} /\ C = {}
    BY <2>1, <2>2, <2>3, <2>8 DEF InOrder
  <2>13. B # {} => C = {}
    BY <2>1, <2>2, <2>3, <2>8 DEF InOrder
  <2>14. D # {} => A = {} /\ B = {} /\ C = {}
    <3>1. D # {} => f <= last
      BY <2>1, <2>2, <2>8 DEF InOrder
    <3>2. A # {} \/ B # {} \/ C # {} => last < f
      BY <2>1, <2>2, <2>8 DEF InOrder
    <3>3. ~(f <= last /\ last < f)
      BY <2>1
    <3> QED
      BY <3>1, <3>2, <3>3
  <2>15. CASE A # {}
    BY <2>9, <2>10, <2>11, <2>12, <2>14, <2>15
  <2>16. CASE B # {}
    BY <2>9, <2>10, <2>11, <2>12, <2>13, <2>14, <2>16
  <2>17. CASE C # {}
    BY <2>9, <2>10, <2>11, <2>12, <2>13, <2>14, <2>17
  <2>18. CASE D # {}
    BY <2>9, <2>10, <2>11, <2>14, <2>18
  <2>19. CASE A = {} /\ B = {} /\ C = {} /\ D = {}
    BY <2>9, <2>10, <2>11, <2>19
  <2> QED
    BY <2>15, <2>16, <2>17, <2>18, <2>19
<1> QED
  BY <1>1, Invariance, PTL
=============================================================================
