---------------------- MODULE MaintenanceWorkerProofs ----------------------
(***************************************************************************)
(* That kraken's maintenance thread loses no update silently, for any      *)
(* sets of entities and any number of updates, reloads and outages.        *)
(*                                                                         *)
(* RealtimeConverges speaks of the whole queue, retrieved messages         *)
(* included, because the loss of their acknowledgements brings them back.  *)
(* It is not inductive: an acknowledgement removes the head of the queue,  *)
(* and what its message said must by then be in the dataset or in the      *)
(* batch.  CInv separates the two: QueueInv says that the queue ends with  *)
(* the latest versions (so a redelivery does no harm), Converging that     *)
(* everything else is in the dataset with its batch, and KirinInv that an  *)
(* answer of kirin on its way may stand for the ids not heard of since.    *)
(***************************************************************************)
EXTENDS MaintenanceWorker, SequenceTheorems, WellFoundedInduction, TLAPS

-----------------------------------------------------------------------------
(* What a batch does *)

\* A batch that mentions i has a last message about i.
LEMMA LastMention ==
    ASSUME NEW feeds \in Seq(Feed), NEW i \in IdsIn(feeds)
    PROVE  \E k \in DOMAIN feeds : i \in DOMAIN feeds[k] /\ ~Skipped(feeds, k, i)
  <1> DEFINE T == {n \in Nat : \E k \in DOMAIN feeds : n = Len(feeds) - k /\ i \in DOMAIN feeds[k]}
  <1>1. DOMAIN feeds = 1 .. Len(feeds) /\ Len(feeds) \in Nat
    BY LenProperties
  <1>2. T # {}
    <2>1. PICK k \in DOMAIN feeds : i \in DOMAIN feeds[k]
      BY DEF IdsIn
    <2>2. Len(feeds) - k \in T
      BY <1>1, <2>1
    <2> QED BY <2>2
  <1>3. PICK m \in T : \A n \in T : ~(<<n, m>> \in OpToRel(<, Nat))
    BY <1>2, NatLessThanWellFounded, WFMin, Zenon
  <1>4. \A n \in T : ~(n < m)
    BY <1>3 DEF OpToRel
  <1>5. PICK k \in DOMAIN feeds : m = Len(feeds) - k /\ i \in DOMAIN feeds[k]
    BY <1>3
  <1>6. ASSUME NEW l \in DOMAIN feeds, l > k, i \in DOMAIN feeds[l]
        PROVE  FALSE
    <2>1. Len(feeds) - l \in T
      BY <1>1, <1>6
    <2>2. Len(feeds) - l < m
      BY <1>1, <1>5, <1>6
    <2> QED BY <1>4, <2>1, <2>2
  <1> QED BY <1>5, <1>6 DEF Skipped

\* The last message about i decides.
LEMMA LastMentionWins ==
    ASSUME NEW feeds \in Seq(Feed), NEW applied, NEW i \in Ids,
           NEW k \in DOMAIN feeds, i \in DOMAIN feeds[k], ~Skipped(feeds, k, i)
    PROVE  ApplyBatch(applied, feeds)[i] = feeds[k][i]
  <1>1. DOMAIN feeds = 1 .. Len(feeds) /\ Len(feeds) \in Nat
    BY LenProperties
  <1>2. i \in IdsIn(feeds)
    BY DEF IdsIn
  <1>3. <<k, i>> \in AppliedIn(feeds)
    BY <1>2 DEF AppliedIn
  <1> DEFINE e == CHOOSE e \in AppliedIn(feeds) : e[2] = i
  <1>4. e \in AppliedIn(feeds) /\ e[2] = i
    BY <1>3
  <1>5. e[1] = k
    <2> HIDE DEF e
    <2>1. e[1] \in DOMAIN feeds /\ i \in DOMAIN feeds[e[1]] /\ ~Skipped(feeds, e[1], i)
      BY <1>4 DEF AppliedIn
    <2> QED BY <1>1, <2>1 DEF Skipped
  <1>6. ApplyBatch(applied, feeds)[i] = feeds[e[1]][i]
    BY <1>2 DEF ApplyBatch
  <1> QED BY <1>5, <1>6

\* A batch that does not mention i leaves it alone.
LEMMA NotMentioned ==
    ASSUME NEW feeds, NEW applied, NEW i \in Ids, i \notin IdsIn(feeds)
    PROVE  ApplyBatch(applied, feeds)[i] = applied[i]
  BY DEF ApplyBatch

\* A concatenation mentions what its parts mention.
LEMMA IdsInConcat ==
    ASSUME NEW s \in Seq(Feed), NEW t \in Seq(Feed)
    PROVE  IdsIn(s \o t) = IdsIn(s) \cup IdsIn(t)
  <1> DEFINE u == s \o t
  <1>1. /\ DOMAIN s = 1 .. Len(s) /\ Len(s) \in Nat
        /\ DOMAIN t = 1 .. Len(t) /\ Len(t) \in Nat
    BY LenProperties
  <1>2. /\ u \in Seq(Feed)
        /\ Len(u) = Len(s) + Len(t)
        /\ \A k \in 1 .. Len(s) + Len(t) : u[k] = IF k <= Len(s) THEN s[k] ELSE t[k - Len(s)]
    BY ConcatProperties
  <1>3. DOMAIN u = 1 .. Len(s) + Len(t)
    BY <1>2, LenProperties
  <1> HIDE DEF u
  <1>4. ASSUME NEW i \in IdsIn(u) PROVE i \in IdsIn(s) \cup IdsIn(t)
    <2>1. PICK k \in DOMAIN u : i \in DOMAIN u[k]
      BY DEF IdsIn
    <2>2. CASE k <= Len(s)
      BY <1>1, <1>2, <1>3, <2>1, <2>2 DEF IdsIn
    <2>3. CASE k > Len(s)
      <3>1. k - Len(s) \in DOMAIN t /\ i \in DOMAIN t[k - Len(s)]
        BY <1>1, <1>2, <1>3, <2>1, <2>3
      <3> QED BY <3>1 DEF IdsIn
    <2> QED BY <1>1, <1>3, <2>2, <2>3
  <1>5. ASSUME NEW i \in IdsIn(s) PROVE i \in IdsIn(u)
    <2>1. PICK k \in DOMAIN s : i \in DOMAIN s[k]
      BY DEF IdsIn
    <2>2. k \in DOMAIN u /\ u[k] = s[k]
      BY <1>1, <1>2, <1>3
    <2> QED BY <2>1, <2>2 DEF IdsIn
  <1>6. ASSUME NEW i \in IdsIn(t) PROVE i \in IdsIn(u)
    <2>1. PICK k \in DOMAIN t : i \in DOMAIN t[k]
      BY DEF IdsIn
    <2>2. k + Len(s) \in DOMAIN u /\ u[k + Len(s)] = t[k]
      BY <1>1, <1>2, <1>3
    <2> QED BY <2>1, <2>2 DEF IdsIn
  <1> QED BY <1>4, <1>5, <1>6 DEF u

\* Of two batches in a row, the second decides if it mentions i, whatever the state before ...
LEMMA SecondBatchWins ==
    ASSUME NEW s \in Seq(Feed), NEW t \in Seq(Feed), NEW a, NEW b, NEW i \in Ids,
           i \in IdsIn(t)
    PROVE  ApplyBatch(a, s \o t)[i] = ApplyBatch(b, t)[i]
  <1> DEFINE u == s \o t
  <1>1. /\ DOMAIN s = 1 .. Len(s) /\ Len(s) \in Nat
        /\ DOMAIN t = 1 .. Len(t) /\ Len(t) \in Nat
    BY LenProperties
  <1>2. /\ u \in Seq(Feed)
        /\ Len(u) = Len(s) + Len(t)
        /\ \A k \in 1 .. Len(s) + Len(t) : u[k] = IF k <= Len(s) THEN s[k] ELSE t[k - Len(s)]
    BY ConcatProperties
  <1>3. DOMAIN u = 1 .. Len(s) + Len(t)
    BY <1>2, LenProperties
  <1> HIDE DEF u
  <1>4. PICK k \in DOMAIN t : i \in DOMAIN t[k] /\ ~Skipped(t, k, i)
    BY LastMention
  <1>5. k + Len(s) \in DOMAIN u /\ u[k + Len(s)] = t[k]
    BY <1>1, <1>2, <1>3
  <1>6. ASSUME NEW l \in DOMAIN u, l > k + Len(s) PROVE i \notin DOMAIN u[l]
    <2>1. l - Len(s) \in DOMAIN t /\ l - Len(s) > k /\ u[l] = t[l - Len(s)]
      BY <1>1, <1>2, <1>3, <1>6
    <2> QED BY <1>4, <2>1 DEF Skipped
  <1>7. ~Skipped(u, k + Len(s), i)
    BY <1>6 DEF Skipped
  <1>8. ApplyBatch(a, u)[i] = u[k + Len(s)][i]
    BY <1>2, <1>4, <1>5, <1>7, LastMentionWins
  <1>9. ApplyBatch(b, t)[i] = t[k][i]
    BY <1>4, LastMentionWins
  <1> QED BY <1>5, <1>8, <1>9 DEF u

\* ... and the first one if it does not.
LEMMA FirstBatchStays ==
    ASSUME NEW s \in Seq(Feed), NEW t \in Seq(Feed), NEW a, NEW i \in Ids,
           i \notin IdsIn(t)
    PROVE  ApplyBatch(a, s \o t)[i] = ApplyBatch(a, s)[i]
  <1> DEFINE u == s \o t
  <1>1. /\ DOMAIN s = 1 .. Len(s) /\ Len(s) \in Nat
        /\ DOMAIN t = 1 .. Len(t) /\ Len(t) \in Nat
    BY LenProperties
  <1>2. /\ u \in Seq(Feed)
        /\ Len(u) = Len(s) + Len(t)
        /\ \A k \in 1 .. Len(s) + Len(t) : u[k] = IF k <= Len(s) THEN s[k] ELSE t[k - Len(s)]
    BY ConcatProperties
  <1>3. DOMAIN u = 1 .. Len(s) + Len(t)
    BY <1>2, LenProperties
  <1>4. IdsIn(u) = IdsIn(s) \cup IdsIn(t)
    BY IdsInConcat
  <1> HIDE DEF u
  <1>5. CASE i \notin IdsIn(s)
    BY <1>4, <1>5, NotMentioned DEF u
  <1>6. CASE i \in IdsIn(s)
    <2>1. PICK k \in DOMAIN s : i \in DOMAIN s[k] /\ ~Skipped(s, k, i)
      BY <1>6, LastMention
    <2>2. k \in DOMAIN u /\ u[k] = s[k]
      BY <1>1, <1>2, <1>3
    <2>3. ASSUME NEW l \in DOMAIN u, l > k PROVE i \notin DOMAIN u[l]
      <3>1. CASE l <= Len(s)
        BY <1>1, <1>2, <1>3, <2>1, <2>3, <3>1 DEF Skipped
      <3>2. CASE l > Len(s)
        <4>1. l - Len(s) \in DOMAIN t /\ u[l] = t[l - Len(s)]
          BY <1>1, <1>2, <1>3, <3>2
        <4> QED BY <4>1 DEF IdsIn
      <3> QED BY <1>1, <1>3, <3>1, <3>2
    <2>4. ~Skipped(u, k, i)
      BY <2>3 DEF Skipped
    <2>5. ApplyBatch(a, u)[i] = u[k][i]
      BY <1>2, <2>1, <2>2, <2>4, LastMentionWins
    <2>6. ApplyBatch(a, s)[i] = s[k][i]
      BY <2>1, LastMentionWins
    <2> QED BY <2>2, <2>5, <2>6 DEF u
  <1> QED BY <1>5, <1>6

\* Feeds are about known ids and carry versions.
LEMMA FeedType ==
    /\ \A f \in Feed : DOMAIN f \subseteq Ids /\ \A i \in DOMAIN f : f[i] \in Version
    /\ \A S \in SUBSET Ids : [S -> Version] \subseteq Feed
    /\ <<>> \in Feed
  <1>1. \A f \in Feed : DOMAIN f \subseteq Ids /\ \A i \in DOMAIN f : f[i] \in Version
    BY DEF Feed
  <1>2. \A S \in SUBSET Ids : [S -> Version] \subseteq Feed
    BY DEF Feed
  <1>3. <<>> \in [{} -> Version]
    <2>1. <<>> \in Seq(Version) /\ Len(<<>>) = 0
      BY EmptySeq
    <2>2. <<>> \in [1 .. 0 -> Version]
      BY <2>1, LenProperties
    <2>3. 1 .. 0 = {}
      OBVIOUS
    <2> QED BY <2>2, <2>3
  <1> QED BY <1>1, <1>2, <1>3

\* Batches are about known ids.
LEMMA IdsInType ==
    ASSUME NEW feeds \in Seq(Feed)
    PROVE  IdsIn(feeds) \subseteq Ids
  <1>1. \A k \in DOMAIN feeds : feeds[k] \in Feed
    BY LenProperties, ElementOfSeq
  <1> QED BY <1>1, FeedType DEF IdsIn

\* Applying a batch yields versions.
LEMMA ApplyBatchType ==
    ASSUME NEW feeds \in Seq(Feed), NEW applied \in [Ids -> Version]
    PROVE  ApplyBatch(applied, feeds) \in [Ids -> Version]
  <1>1. ASSUME NEW i \in Ids PROVE ApplyBatch(applied, feeds)[i] \in Version
    <2>1. CASE i \notin IdsIn(feeds)
      BY <2>1, NotMentioned
    <2>2. CASE i \in IdsIn(feeds)
      <3>1. PICK k \in DOMAIN feeds : i \in DOMAIN feeds[k] /\ ~Skipped(feeds, k, i)
        BY <2>2, LastMention
      <3>2. feeds[k] \in Feed
        BY LenProperties, ElementOfSeq
      <3>3. ApplyBatch(applied, feeds)[i] = feeds[k][i]
        BY <3>1, LastMentionWins
      <3> QED BY <3>1, <3>2, <3>3, FeedType
    <2> QED BY <2>1, <2>2
  <1>2. /\ DOMAIN ApplyBatch(applied, feeds) = Ids
        /\ ApplyBatch(applied, feeds) = [i \in Ids |-> ApplyBatch(applied, feeds)[i]]
    BY DEF ApplyBatch
  <1> QED BY <1>1, <1>2

-----------------------------------------------------------------------------
(* Type correctness *)

\* The constructor has its type.
LEMMA NewDataType ==
    NewData \in DataType
  BY MaintenanceWorkerAssumption DEF NewData, DataType, Nothing, Version

\* So have absent and new queues ...
LEMMA NoQueueType ==
    /\ NoTaskQueue \in TaskQueue /\ [NoTaskQueue EXCEPT !.bound = TRUE] \in TaskQueue
    /\ NoRtQueue \in RtQueue /\ [NoRtQueue EXCEPT !.bound = TRUE] \in RtQueue
    /\ NoRtQueue.taken <= Len(NoRtQueue.msgs)
    /\ [NoRtQueue EXCEPT !.bound = TRUE].taken <= Len([NoRtQueue EXCEPT !.bound = TRUE].msgs)
    /\ NoRpc \in Rpc /\ [NoRpc EXCEPT !.state = "asked"] \in Rpc
  <1>1. /\ <<>> \in Seq({"wait", "main"}) /\ <<>> \in Seq(Feed) /\ Len(<<>>) = 0
        /\ <<>> \in Feed
    BY EmptySeq, FeedType
  <1>2. NoTaskQueue \in TaskQueue /\ [NoTaskQueue EXCEPT !.bound = TRUE] \in TaskQueue
    BY <1>1 DEF NoTaskQueue, TaskQueue
  <1>3. NoRtQueue \in RtQueue /\ [NoRtQueue EXCEPT !.bound = TRUE] \in RtQueue
    BY <1>1 DEF NoRtQueue, RtQueue
  <1>4. /\ NoRtQueue.taken <= Len(NoRtQueue.msgs)
        /\ [NoRtQueue EXCEPT !.bound = TRUE].taken <= Len([NoRtQueue EXCEPT !.bound = TRUE].msgs)
    BY <1>1 DEF NoRtQueue
  <1>5. NoRpc \in Rpc /\ [NoRpc EXCEPT !.state = "asked"] \in Rpc
    BY <1>1 DEF NoRpc, Rpc
  <1> QED BY <1>2, <1>3, <1>4, <1>5

\* ... the task queue after the operations of its consumers ...
LEMMA TaskQueueType ==
    ASSUME NEW q \in TaskQueue
    PROVE  /\ \A c \in Seq({"wait", "main"}) : [q EXCEPT !.consumers = c] \in TaskQueue
           /\ \A c \in Seq({"wait", "main"}), n \in Nat, h \in [{"wait", "main"} -> Nat] :
                 [q EXCEPT !.ready = n, !.held = h, !.consumers = c] \in TaskQueue
  BY DEF TaskQueue

\* ... and the realtime queue after those of its own.
LEMMA RtQueueType ==
    ASSUME NEW q \in RtQueue
    PROVE  /\ \A n \in Nat : [q EXCEPT !.taken = n] \in RtQueue
           /\ \A m \in Seq(Feed) : [q EXCEPT !.msgs = m] \in RtQueue
           /\ \A m \in Seq(Feed), n \in Nat : [q EXCEPT !.msgs = m, !.taken = n] \in RtQueue
  BY DEF RtQueue

\* The loss of the connection puts the unacknowledged tasks back.
LEMMA ReconnectTaskQueue ==
    ASSUME TypeOK, Reconnect
    PROVE  taskq' \in TaskQueue
  <1>1. <<>> \in Seq({"wait", "main"})
    BY EmptySeq
  <1>2. /\ taskq.ready + taskq.held["wait"] + taskq.held["main"] \in Nat
        /\ [t \in {"wait", "main"} |-> 0] \in [{"wait", "main"} -> Nat]
    BY DEF TypeOK, BrokerTypeOK, TaskQueue
  <1> QED BY <1>1, <1>2, TaskQueueType DEF TypeOK, BrokerTypeOK, Reconnect

\* A load replaces the dataset by the one it has filled.
LEMMA SetDataType ==
    ASSUME TypeOK, SetData
    PROVE  TypeOK'
  <1>1. ThreadTypeOK'
    BY DEF TypeOK, ThreadTypeOK, Pc, OnChannel, flags, SetData, AfterLoad
  <1>2. data' \in DataType /\ fresh' \in DataType
    BY NewDataType DEF TypeOK, SetData, DataType
  <1>3. BrokerTypeOK'
    BY DEF TypeOK, BrokerTypeOK, broker, SetData
  <1>4. WorldTypeOK'
    BY DEF TypeOK, WorldTypeOK, world, SetData
  <1> QED BY <1>1, <1>2, <1>3, <1>4 DEF TypeOK

\* A failed load leaves it alone.
LEMMA LoadFailsType ==
    ASSUME TypeOK, LoadFails
    PROVE  TypeOK'
  <1>1. ThreadTypeOK'
    BY DEF TypeOK, ThreadTypeOK, Pc, OnChannel, flags, LoadFails, AfterLoad
  <1>2. data' \in DataType /\ fresh' \in DataType
    BY DEF TypeOK, LoadFails
  <1>3. BrokerTypeOK'
    BY DEF TypeOK, BrokerTypeOK, broker, LoadFails
  <1>4. WorldTypeOK'
    BY MaintenanceWorkerAssumption DEF TypeOK, WorldTypeOK, world, LoadFails
  <1> QED BY <1>1, <1>2, <1>3, <1>4 DEF TypeOK

\* The channel is opened.
LEMMA OpenChannelType ==
    ASSUME TypeOK, OpenChannel
    PROVE  TypeOK'
  <1>1. ThreadTypeOK'
    BY DEF TypeOK, ThreadTypeOK, Pc, OnChannel, flags, OpenChannel
  <1>2. data' \in DataType /\ fresh' \in DataType
    BY DEF TypeOK, OpenChannel
  <1>3. BrokerTypeOK'
    BY DEF TypeOK, BrokerTypeOK, broker, OpenChannel
  <1>4. WorldTypeOK'
    BY DEF TypeOK, WorldTypeOK, world, OpenChannel
  <1> QED BY <1>1, <1>2, <1>3, <1>4 DEF TypeOK

\* The task queue is created empty.
LEMMA CreateTaskQueueType ==
    ASSUME TypeOK, CreateTaskQueue
    PROVE  TypeOK'
  <1>1. ThreadTypeOK'
    BY DEF TypeOK, ThreadTypeOK, Pc, OnChannel, flags, CreateTaskQueue
  <1>2. data' \in DataType /\ fresh' \in DataType
    BY DEF TypeOK, CreateTaskQueue
  <1>3. BrokerTypeOK'
    BY NoQueueType DEF TypeOK, BrokerTypeOK, broker, CreateTaskQueue
  <1>4. WorldTypeOK'
    BY DEF TypeOK, WorldTypeOK, world, CreateTaskQueue
  <1> QED BY <1>1, <1>2, <1>3, <1>4 DEF TypeOK

\* So is the realtime queue.
LEMMA CreateRealtimeQueueType ==
    ASSUME TypeOK, CreateRealtimeQueue
    PROVE  TypeOK'
  <1>1. ThreadTypeOK'
    BY DEF TypeOK, ThreadTypeOK, Pc, OnChannel, flags, CreateRealtimeQueue
  <1>2. data' \in DataType /\ fresh' \in DataType
    BY DEF TypeOK, CreateRealtimeQueue
  <1>3. BrokerTypeOK'
    BY NoQueueType DEF TypeOK, BrokerTypeOK, broker, CreateRealtimeQueue
  <1>4. WorldTypeOK'
    BY DEF TypeOK, WorldTypeOK, world, CreateRealtimeQueue
  <1> QED BY <1>1, <1>2, <1>3, <1>4 DEF TypeOK

\* A consumer is added to the task queue.
LEMMA BasicConsumeType ==
    ASSUME TypeOK, BasicConsume
    PROVE  TypeOK'
  <1>1. ThreadTypeOK'
    BY DEF TypeOK, ThreadTypeOK, Pc, OnChannel, flags, BasicConsume, NextTurn
  <1>2. data' \in DataType /\ fresh' \in DataType
    BY DEF TypeOK, BasicConsume
  <1>3. BrokerTypeOK'
    <2>1. taskq \in TaskQueue /\ Append(taskq.consumers, loop) \in Seq({"wait", "main"})
      BY AppendProperties DEF TypeOK, ThreadTypeOK, BrokerTypeOK, TaskQueue
    <2>2. taskq' \in TaskQueue
      BY <2>1, TaskQueueType DEF BasicConsume
    <2> QED BY <2>2 DEF TypeOK, BrokerTypeOK, BasicConsume
  <1>4. WorldTypeOK'
    BY DEF TypeOK, WorldTypeOK, world, BasicConsume
  <1> QED BY <1>1, <1>2, <1>3, <1>4 DEF TypeOK

\* A queue that is missing sends the thread back to reconnect.
LEMMA BasicConsumeFailsType ==
    ASSUME TypeOK, BasicConsumeFails
    PROVE  TypeOK'
  <1>1. ThreadTypeOK'
    BY DEF TypeOK, ThreadTypeOK, Pc, OnChannel, flags, BasicConsumeFails, Reconnect
  <1>2. data' \in DataType /\ fresh' \in DataType
    BY DEF TypeOK, BasicConsumeFails, Reconnect
  <1>3. BrokerTypeOK'
    <2>1. taskq' \in TaskQueue
      BY ReconnectTaskQueue DEF BasicConsumeFails
    <2>2. rtq' \in RtQueue /\ rtq'.taken <= Len(rtq'.msgs)
      <3>1. rtq' \in RtQueue
        BY RtQueueType DEF TypeOK, BrokerTypeOK, BasicConsumeFails
      <3> QED BY <3>1 DEF TypeOK, BrokerTypeOK, BasicConsumeFails, RtQueue
    <2> QED BY <2>1, <2>2, NoQueueType DEF BrokerTypeOK, BasicConsumeFails, Reconnect
  <1>4. WorldTypeOK'
    BY DEF TypeOK, WorldTypeOK, world, BasicConsumeFails
  <1> QED BY <1>1, <1>2, <1>3, <1>4 DEF TypeOK

\* A turn of the event loop.
LEMMA EventLoopType ==
    ASSUME TypeOK, EventLoop
    PROVE  TypeOK'
  <1>1. ThreadTypeOK'
    BY DEF TypeOK, ThreadTypeOK, Pc, OnChannel, flags, EventLoop
  <1>2. data' \in DataType /\ fresh' \in DataType
    BY DEF TypeOK, EventLoop
  <1>3. BrokerTypeOK'
    BY DEF TypeOK, BrokerTypeOK, broker, EventLoop
  <1>4. WorldTypeOK'
    BY DEF TypeOK, WorldTypeOK, world, EventLoop
  <1> QED BY <1>1, <1>2, <1>3, <1>4 DEF TypeOK

\* Realtime already loaded: nothing to ask.
LEMMA SkipLoadRealtimeType ==
    ASSUME TypeOK, SkipLoadRealtime
    PROVE  TypeOK'
  <1>1. ThreadTypeOK'
    BY DEF TypeOK, ThreadTypeOK, Pc, OnChannel, flags, SkipLoadRealtime, AfterLoadRealtime, NextTurn
  <1>2. data' \in DataType /\ fresh' \in DataType
    BY DEF TypeOK, SkipLoadRealtime
  <1>3. BrokerTypeOK'
    BY DEF TypeOK, BrokerTypeOK, broker, SkipLoadRealtime
  <1>4. WorldTypeOK'
    BY DEF TypeOK, WorldTypeOK, world, SkipLoadRealtime
  <1> QED BY <1>1, <1>2, <1>3, <1>4 DEF TypeOK

\* A question to kirin opens an exchange.
LEMMA AskKirinType ==
    ASSUME TypeOK, AskKirin
    PROVE  TypeOK'
  <1>1. ThreadTypeOK'
    BY DEF TypeOK, ThreadTypeOK, Pc, OnChannel, flags, AskKirin
  <1>2. data' \in DataType /\ fresh' \in DataType
    BY DEF TypeOK, AskKirin
  <1>3. BrokerTypeOK'
    BY NoQueueType DEF TypeOK, BrokerTypeOK, broker, AskKirin
  <1>4. WorldTypeOK'
    BY DEF TypeOK, WorldTypeOK, world, AskKirin
  <1> QED BY <1>1, <1>2, <1>3, <1>4 DEF TypeOK

\* An exception closes it.
LEMMA ReceiveKirinThrowsType ==
    ASSUME TypeOK, ReceiveKirinThrows
    PROVE  TypeOK'
  <1>1. ThreadTypeOK'
    BY DEF TypeOK, ThreadTypeOK, Pc, OnChannel, flags, ReceiveKirinThrows, NextTurn
  <1>2. data' \in DataType /\ fresh' \in DataType
    BY DEF TypeOK, ReceiveKirinThrows
  <1>3. BrokerTypeOK'
    BY NoQueueType DEF TypeOK, BrokerTypeOK, broker, ReceiveKirinThrows
  <1>4. WorldTypeOK'
    BY DEF TypeOK, WorldTypeOK, world, ReceiveKirinThrows
  <1> QED BY <1>1, <1>2, <1>3, <1>4 DEF TypeOK

\* A timeout closes it.
LEMMA KirinTimeoutType ==
    ASSUME TypeOK, KirinTimeout
    PROVE  TypeOK'
  <1>1. ThreadTypeOK'
    BY DEF TypeOK, ThreadTypeOK, Pc, OnChannel, flags, KirinTimeout, AfterLoadRealtime, NextTurn
  <1>2. data' \in DataType /\ fresh' \in DataType
    BY DEF TypeOK, KirinTimeout
  <1>3. BrokerTypeOK'
    BY NoQueueType DEF TypeOK, BrokerTypeOK, broker, KirinTimeout
  <1>4. WorldTypeOK'
    BY DEF TypeOK, WorldTypeOK, world, KirinTimeout
  <1> QED BY <1>1, <1>2, <1>3, <1>4 DEF TypeOK

\* A task is taken from those held for the loop's tag.
LEMMA ConsumeTaskType ==
    ASSUME TypeOK, ConsumeTask
    PROVE  TypeOK'
  <1>1. ThreadTypeOK'
    BY DEF TypeOK, ThreadTypeOK, Pc, OnChannel, flags, ConsumeTask, NextTurn
  <1>2. data' \in DataType /\ fresh' \in DataType
    BY DEF TypeOK, ConsumeTask
  <1>3. BrokerTypeOK'
    <2>1. taskq' \in TaskQueue
      BY DEF TypeOK, ThreadTypeOK, BrokerTypeOK, TaskQueue, ConsumeTask
    <2> QED BY <2>1 DEF TypeOK, BrokerTypeOK, ConsumeTask
  <1>4. WorldTypeOK'
    BY DEF TypeOK, WorldTypeOK, world, ConsumeTask
  <1> QED BY <1>1, <1>2, <1>3, <1>4 DEF TypeOK

\* A reload order is queued.
LEMMA OrderReloadType ==
    ASSUME TypeOK, OrderReload
    PROVE  TypeOK'
  <1>1. ThreadTypeOK'
    BY DEF TypeOK, ThreadTypeOK, Pc, OnChannel, flags, OrderReload
  <1>2. data' \in DataType /\ fresh' \in DataType
    BY DEF TypeOK, OrderReload
  <1>3. BrokerTypeOK'
    <2>1. taskq' \in TaskQueue
      BY DEF TypeOK, BrokerTypeOK, TaskQueue, OrderReload
    <2> QED BY <2>1 DEF TypeOK, BrokerTypeOK, OrderReload
  <1>4. WorldTypeOK'
    BY DEF TypeOK, WorldTypeOK, world, OrderReload
  <1> QED BY <1>1, <1>2, <1>3, <1>4 DEF TypeOK

\* A task goes to the next consumer.
LEMMA DeliverType ==
    ASSUME TypeOK, Deliver
    PROVE  TypeOK'
  <1>1. ThreadTypeOK'
    BY DEF TypeOK, ThreadTypeOK, Pc, OnChannel, flags, Deliver
  <1>2. data' \in DataType /\ fresh' \in DataType
    BY DEF TypeOK, Deliver
  <1>3. BrokerTypeOK'
    <2>1. /\ Head(taskq.consumers) \in {"wait", "main"}
          /\ Append(Tail(taskq.consumers), Head(taskq.consumers)) \in Seq({"wait", "main"})
      BY HeadTailProperties, AppendProperties DEF TypeOK, BrokerTypeOK, TaskQueue, Deliver
    <2> DEFINE t == Head(taskq.consumers)
               c == Append(Tail(taskq.consumers), t)
    <2>2. /\ taskq' = [taskq EXCEPT !.ready = taskq.ready - 1,
                                   !.held = [taskq.held EXCEPT ![t] = taskq.held[t] + 1],
                                   !.consumers = c]
          /\ taskq.ready - 1 \in Nat
          /\ [taskq.held EXCEPT ![t] = taskq.held[t] + 1] \in [{"wait", "main"} -> Nat]
          /\ taskq \in TaskQueue
      <3> HIDE DEF t, c
      <3> QED BY <2>1 DEF TypeOK, BrokerTypeOK, TaskQueue, Deliver, t, c
    <2>3. taskq' \in TaskQueue
      BY <2>1, <2>2, TaskQueueType
    <2> QED BY <2>3 DEF TypeOK, BrokerTypeOK, Deliver
  <1>4. WorldTypeOK'
    BY DEF TypeOK, WorldTypeOK, world, Deliver
  <1> QED BY <1>1, <1>2, <1>3, <1>4 DEF TypeOK

\* The head of the queue is acknowledged, if it was taken.
LEMMA BrokerAckType ==
    ASSUME TypeOK, BrokerAck
    PROVE  TypeOK'
  <1>1. ThreadTypeOK'
    BY DEF TypeOK, ThreadTypeOK, Pc, OnChannel, flags, BrokerAck
  <1>2. data' \in DataType /\ fresh' \in DataType
    BY DEF TypeOK, BrokerAck
  <1>3. BrokerTypeOK'
    <2>1. rtq.msgs # <<>> /\ rtq.msgs \in Seq(Feed) /\ rtq.taken \in Nat /\ rtq.taken <= Len(rtq.msgs)
      BY EmptySeq DEF TypeOK, BrokerTypeOK, RtQueue, BrokerAck
    <2>2. Tail(rtq.msgs) \in Seq(Feed) /\ Len(Tail(rtq.msgs)) = Len(rtq.msgs) - 1
      BY <2>1, HeadTailProperties
    <2>3. rtq' = [rtq EXCEPT !.msgs = Tail(rtq.msgs), !.taken = rtq.taken - 1]
      BY DEF BrokerAck
    <2>4. rtq.taken - 1 \in Nat /\ Len(rtq.msgs) \in Nat
      BY <2>1, LenProperties DEF BrokerAck
    <2>5. rtq' \in RtQueue
      BY <2>2, <2>3, <2>4, RtQueueType DEF TypeOK, BrokerTypeOK
    <2>6. rtq'.taken <= Len(rtq'.msgs)
      BY <2>1, <2>2, <2>3, <2>4 DEF TypeOK, BrokerTypeOK, RtQueue
    <2> QED BY <2>5, <2>6 DEF TypeOK, BrokerTypeOK, BrokerAck
  <1>4. WorldTypeOK'
    BY DEF TypeOK, WorldTypeOK, world, BrokerAck
  <1> QED BY <1>1, <1>2, <1>3, <1>4 DEF TypeOK

\* Time passes.
LEMMA TickType ==
    ASSUME TypeOK, Tick
    PROVE  TypeOK'
  <1>1. ThreadTypeOK'
    BY DEF TypeOK, ThreadTypeOK, Pc, OnChannel, flags, Tick
  <1>2. data' \in DataType /\ fresh' \in DataType
    BY DEF TypeOK, Tick
  <1>3. BrokerTypeOK'
    BY DEF TypeOK, BrokerTypeOK, broker, Tick
  <1>4. WorldTypeOK'
    BY DEF TypeOK, WorldTypeOK, world, Tick
  <1> QED BY <1>1, <1>2, <1>3, <1>4 DEF TypeOK

\* A load reads versions of disruptions.
LEMMA LoadNavAndDisruptionsType ==
    ASSUME TypeOK, NEW b \in BOOLEAN, LoadNavAndDisruptions(b)
    PROVE  TypeOK'
  <1>1. ThreadTypeOK'
    BY DEF TypeOK, ThreadTypeOK, Pc, OnChannel, flags, LoadNavAndDisruptions
  <1>2. data' \in DataType
    BY DEF TypeOK, LoadNavAndDisruptions
  <1>3. fresh' \in DataType
    <2> DEFINE a == [i \in Ids |-> IF b /\ i \in ChaosIds THEN truth[i] ELSE 0]
    <2>1. a \in [Ids -> Version]
      BY MaintenanceWorkerAssumption DEF TypeOK, WorldTypeOK, Version
    <2>2. fresh' = [NewData EXCEPT !.nav = disk, !.loaded = TRUE, !.last_load_succeeded = TRUE,
                                   !.chaos_read = b, !.applied = a]
      BY DEF LoadNavAndDisruptions
    <2> HIDE DEF a
    <2>3. disk \in Nat
      BY DEF TypeOK, WorldTypeOK
    <2> QED BY <2>1, <2>2, <2>3, NewDataType DEF DataType
  <1>4. BrokerTypeOK'
    BY DEF TypeOK, BrokerTypeOK, broker, LoadNavAndDisruptions
  <1>5. WorldTypeOK'
    BY DEF TypeOK, WorldTypeOK, world, LoadNavAndDisruptions
  <1> QED BY <1>1, <1>2, <1>3, <1>4, <1>5 DEF TypeOK

\* What handle_rt_in_batch publishes differs from the present dataset by the applied and
\* the indexed versions.
LEMMA HandleRtInBatchType ==
    ASSUME NEW d \in DataType, NEW feeds \in Seq(Feed), NEW e \in HandleRtInBatch(d, feeds)
    PROVE  /\ e \in DataType
           /\ e.applied = ApplyBatch(d.applied, feeds)
           /\ e.missed = d.missed /\ e.chaos_read = d.chaos_read
           /\ e.is_realtime_loaded = d.is_realtime_loaded
  <1> DEFINE a == ApplyBatch(d.applied, feeds)
  <1>1. a \in [Ids -> Version]
    BY ApplyBatchType DEF DataType
  <1>2. PICK x \in [Ids -> Version] : e = [d EXCEPT !.applied = a, !.indexed = x]
    BY <1>1 DEF HandleRtInBatch, DataType
  <1> HIDE DEF a
  <1>3. e \in DataType /\ e.applied = a
    BY <1>1, <1>2 DEF DataType
  <1>4. e.missed = d.missed /\ e.chaos_read = d.chaos_read
        /\ e.is_realtime_loaded = d.is_realtime_loaded
    BY <1>2 DEF DataType
  <1> QED BY <1>3, <1>4 DEF a

\* A feed is a batch of one.
LEMMA SingleFeed ==
    ASSUME NEW f \in Feed
    PROVE  /\ <<f>> \in Seq(Feed) /\ IdsIn(<<f>>) = DOMAIN f
           /\ \A a : \A i \in DOMAIN f : i \in Ids => ApplyBatch(a, <<f>>)[i] = f[i]
  <1>1. <<f>> \in Seq(Feed) /\ DOMAIN <<f>> = {1} /\ <<f>>[1] = f
    OBVIOUS
  <1>2. IdsIn(<<f>>) = DOMAIN f
    BY <1>1 DEF IdsIn
  <1>3. \A i : ~Skipped(<<f>>, 1, i)
    BY <1>1 DEF Skipped
  <1>4. ASSUME NEW a, NEW i \in DOMAIN f, i \in Ids PROVE ApplyBatch(a, <<f>>)[i] = f[i]
    <2>1. 1 \in DOMAIN <<f>> /\ i \in DOMAIN <<f>>[1]
      BY <1>1, <1>4
    <2>2. ApplyBatch(a, <<f>>)[i] = <<f>>[1][i]
      BY <1>1, <1>3, <1>4, <2>1, LastMentionWins
    <2> QED BY <1>1, <2>2
  <1> QED BY <1>1, <1>2, <1>4

\* kirin's answer is applied as a batch.
LEMMA ReceiveKirinType ==
    ASSUME TypeOK, ReceiveKirin
    PROVE  TypeOK'
  <1>1. ThreadTypeOK'
    BY DEF TypeOK, ThreadTypeOK, Pc, OnChannel, flags, ReceiveKirin, AfterLoadRealtime, NextTurn
  <1>2. data' \in DataType
    <2>1. PICK d \in HandleRtInBatch(data, <<rpc.feed>>) :
             data' = [d EXCEPT !.is_realtime_loaded = TRUE,
                               !.missed = (d.missed \ DOMAIN rpc.feed) \cup rpc.missed]
      BY DEF ReceiveKirin
    <2>2. rpc.feed \in Feed /\ rpc.missed \subseteq Ids
      BY DEF TypeOK, BrokerTypeOK, Rpc
    <2>3. d \in DataType
      BY <2>2, SingleFeed, HandleRtInBatchType DEF TypeOK
    <2> QED BY <2>1, <2>2, <2>3 DEF DataType
  <1>3. fresh' \in DataType
    BY DEF TypeOK, ReceiveKirin
  <1>4. BrokerTypeOK'
    BY NoQueueType DEF TypeOK, BrokerTypeOK, ReceiveKirin
  <1>5. WorldTypeOK'
    BY DEF TypeOK, WorldTypeOK, world, ReceiveKirin
  <1> QED BY <1>1, <1>2, <1>3, <1>4, <1>5 DEF TypeOK

\* Parts of the queue are sequences of feeds.
LEMMA SubSeqType ==
    ASSUME NEW s \in Seq(Feed), NEW m \in Nat, NEW n \in Nat, 1 <= m, n <= Len(s)
    PROVE  /\ SubSeq(s, m, n) \in Seq(Feed)
           /\ Len(SubSeq(s, m, n)) = IF m <= n THEN n - m + 1 ELSE 0
           /\ \A k \in 1 .. n - m + 1 : SubSeq(s, m, n)[k] = s[m + k - 1]
  <1>1. \A k \in m .. n : s[k] \in Feed
    BY ElementOfSeq
  <1> QED BY <1>1, SubSeqProperties

\* What is left of a queue after its first n messages.
LEMMA TailType ==
    ASSUME NEW s \in Seq(Feed), NEW n \in Nat, n <= Len(s)
    PROVE  /\ SubSeq(s, n + 1, Len(s)) \in Seq(Feed)
           /\ Len(SubSeq(s, n + 1, Len(s))) = Len(s) - n
           /\ \A k \in 1 .. Len(s) - n : SubSeq(s, n + 1, Len(s))[k] = s[n + k]
  <1>1. n + 1 \in Nat /\ Len(s) \in Nat /\ 1 <= n + 1 /\ Len(s) <= Len(s) /\ Len(s) - (n + 1) + 1 = Len(s) - n
    BY LenProperties
  <1>2. /\ SubSeq(s, n + 1, Len(s)) \in Seq(Feed)
        /\ Len(SubSeq(s, n + 1, Len(s))) = IF n + 1 <= Len(s) THEN Len(s) - (n + 1) + 1 ELSE 0
        /\ \A k \in 1 .. Len(s) - (n + 1) + 1 : SubSeq(s, n + 1, Len(s))[k] = s[(n + 1) + k - 1]
    BY <1>1, SubSeqType
  <1>3. \A k \in 1 .. Len(s) - n : SubSeq(s, n + 1, Len(s))[k] = s[n + k]
    <2> TAKE k \in 1 .. Len(s) - n
    <2>1. k \in 1 .. Len(s) - (n + 1) + 1 /\ (n + 1) + k - 1 = n + k
      BY <1>1
    <2>2. SubSeq(s, n + 1, Len(s))[k] = s[(n + 1) + k - 1]
      BY <1>2, <2>1, Zenon
    <2>3. s[(n + 1) + k - 1] = s[n + k]
      BY <2>1, Zenon
    <2> QED BY <2>2, <2>3, Zenon
  <1>4. Len(SubSeq(s, n + 1, Len(s))) = Len(s) - n
    <2>1. CASE n + 1 <= Len(s)
      BY <1>1, <1>2, <2>1, Zenon
    <2>2. CASE ~(n + 1 <= Len(s))
      <3>1. \A l \in Nat : n <= l /\ ~(n + 1 <= l) => l - n = 0
        OBVIOUS
      <3>2. Len(s) - n = 0
        BY <1>1, <2>2, <3>1, Zenon
      <3> QED BY <1>2, <2>2, <3>2, Zenon
    <2> QED BY <2>1, <2>2
  <1> QED BY <1>2, <1>3, <1>4, Zenon

\* A batch is retrieved from the queue.
LEMMA ConsumeRtType ==
    ASSUME TypeOK, NEW n \in 0 .. MaxUpdates, ConsumeRt(n)
    PROVE  TypeOK'
  <1>1. rtq \in RtQueue /\ rtq.msgs \in Seq(Feed) /\ rtq.taken \in Nat /\ n \in Nat
    BY MaintenanceWorkerAssumption DEF TypeOK, BrokerTypeOK, RtQueue
  <1>2. batch' \in Seq(Feed)
    <2>1. rtq.taken + 1 \in Nat /\ rtq.taken + n \in Nat /\ 1 <= rtq.taken + 1
          /\ rtq.taken + n <= Len(rtq.msgs)
      BY <1>1 DEF ConsumeRt
    <2>2. SubSeq(rtq.msgs, rtq.taken + 1, rtq.taken + n) \in Seq(Feed)
      BY <1>1, <2>1, SubSeqType
    <2> QED BY <2>2 DEF ConsumeRt
  <1>3. ThreadTypeOK'
    BY <1>2 DEF TypeOK, ThreadTypeOK, Pc, OnChannel, flags, ConsumeRt
  <1>4. data' \in DataType /\ fresh' \in DataType
    BY DEF TypeOK, ConsumeRt
  <1>5. rtq' \in RtQueue /\ rtq'.taken <= Len(rtq'.msgs)
    <2>1. rtq' = [rtq EXCEPT !.taken = rtq.taken + n]
      BY DEF ConsumeRt
    <2>2. rtq.taken + n \in Nat
      BY <1>1
    <2>3. rtq' \in RtQueue
      BY <1>1, <2>1, <2>2, RtQueueType
    <2> QED BY <1>1, <2>1, <2>3 DEF ConsumeRt, RtQueue
  <1>6. BrokerTypeOK'
    BY <1>5 DEF TypeOK, BrokerTypeOK, ConsumeRt
  <1>7. WorldTypeOK'
    BY DEF TypeOK, WorldTypeOK, world, ConsumeRt
  <1> QED BY <1>3, <1>4, <1>6, <1>7 DEF TypeOK

\* The batch is handled ...
LEMMA HandleRtType ==
    ASSUME TypeOK, HandleRt
    PROVE  TypeOK'
  <1>1. ThreadTypeOK'
    BY EmptySeq DEF TypeOK, ThreadTypeOK, Pc, OnChannel, flags, HandleRt
  <1>2. data' \in DataType /\ fresh' \in DataType
    BY HandleRtInBatchType DEF TypeOK, ThreadTypeOK, HandleRt
  <1>3. BrokerTypeOK'
    BY DEF TypeOK, BrokerTypeOK, broker, HandleRt
  <1>4. WorldTypeOK'
    BY DEF TypeOK, WorldTypeOK, world, HandleRt
  <1> QED BY <1>1, <1>2, <1>3, <1>4 DEF TypeOK

\* Accounting for missed ids keeps a dataset a dataset.
LEMMA MissedType ==
    ASSUME NEW d \in DataType, NEW S \in SUBSET Ids
    PROVE  /\ [d EXCEPT !.missed = S] \in DataType
           /\ [d EXCEPT !.missed = S].missed = S
           /\ [d EXCEPT !.missed = S].applied = d.applied
           /\ [d EXCEPT !.missed = S].chaos_read = d.chaos_read
           /\ [d EXCEPT !.missed = S].is_realtime_loaded = d.is_realtime_loaded
  BY DEF DataType

\* ... or dropped.
LEMMA HandleRtThrowsType ==
    ASSUME TypeOK, HandleRtThrows
    PROVE  TypeOK'
  <1>1. ThreadTypeOK'
    BY EmptySeq DEF TypeOK, ThreadTypeOK, Pc, OnChannel, flags, HandleRtThrows
  <1>2. data' \in DataType /\ fresh' \in DataType
    <2>1. IdsIn(batch) \subseteq Ids /\ data.missed \subseteq Ids
      BY IdsInType DEF TypeOK, ThreadTypeOK, DataType
    <2>2. data' = [data EXCEPT !.missed = data.missed \cup IdsIn(batch)]
      BY DEF HandleRtThrows
    <2> QED BY <2>1, <2>2, MissedType DEF TypeOK, HandleRtThrows
  <1>3. BrokerTypeOK'
    BY DEF TypeOK, BrokerTypeOK, broker, HandleRtThrows
  <1>4. WorldTypeOK'
    BY DEF TypeOK, WorldTypeOK, world, HandleRtThrows
  <1> QED BY <1>1, <1>2, <1>3, <1>4 DEF TypeOK

\* A publication is a feed of one entity with a new version.
LEMMA PublishType ==
    ASSUME TypeOK, NEW i \in Ids, NEW deleted \in BOOLEAN, Publish(i, deleted)
    PROVE  TypeOK'
  <1> DEFINE v == IF deleted THEN 0 ELSE updates + 1
             heard(missed) == IF rtq.bound THEN missed \ {i} ELSE missed \cup {i}
             f == [j \in {i} |-> v]
  <1>1. v \in Version /\ updates + 1 \in Version
    BY MaintenanceWorkerAssumption DEF TypeOK, WorldTypeOK, Version, Publish
  <1>2. f \in Feed
    BY <1>1, FeedType
  <1>3. /\ truth' = [truth EXCEPT ![i] = v]
        /\ updates' = updates + 1
        /\ rtq' = IF rtq.bound THEN [rtq EXCEPT !.msgs = Append(rtq.msgs, f)] ELSE rtq
        /\ data' = [data EXCEPT !.missed = heard(data.missed)]
        /\ fresh' = IF pc = "set_data" THEN [fresh EXCEPT !.missed = heard(fresh.missed)] ELSE fresh
        /\ rpc' = IF rpc.state = "answered" THEN [rpc EXCEPT !.missed = heard(rpc.missed)] ELSE rpc
        /\ UNCHANGED <<pc, loop, caller, batch, flags, retry_due, taskq, disk, outages, failures, last_load>>
    BY DEF Publish
  <1> HIDE DEF v, f
  <1>4. \A S \in SUBSET Ids : heard(S) \in SUBSET Ids
    OBVIOUS
  <1> HIDE DEF heard
  <1>5. ThreadTypeOK'
    BY <1>3 DEF TypeOK, ThreadTypeOK, flags
  <1>6. data' \in DataType /\ fresh' \in DataType
    <2>1. data.missed \in SUBSET Ids /\ fresh.missed \in SUBSET Ids
      BY DEF TypeOK, DataType
    <2> QED BY <1>3, <1>4, <2>1, MissedType DEF TypeOK
  <1>7. taskq' \in TaskQueue
    BY <1>3 DEF TypeOK, BrokerTypeOK
  <1>8. rtq' \in RtQueue /\ rtq'.taken <= Len(rtq'.msgs)
    <2>1. /\ rtq \in RtQueue /\ rtq.msgs \in Seq(Feed) /\ rtq.taken \in Nat
          /\ rtq.taken <= Len(rtq.msgs) /\ Len(rtq.msgs) \in Nat
      BY LenProperties DEF TypeOK, BrokerTypeOK, RtQueue
    <2>2. Append(rtq.msgs, f) \in Seq(Feed) /\ Len(Append(rtq.msgs, f)) = Len(rtq.msgs) + 1
      BY <1>2, <2>1, AppendProperties
    <2>3. [rtq EXCEPT !.msgs = Append(rtq.msgs, f)] \in RtQueue
      BY <2>1, <2>2, RtQueueType
    <2> QED BY <1>3, <2>1, <2>2, <2>3 DEF RtQueue
  <1>9. rpc' \in Rpc
    <2>1. rpc \in Rpc /\ rpc.missed \in SUBSET Ids
      BY DEF TypeOK, BrokerTypeOK, Rpc
    <2> QED BY <1>3, <1>4, <2>1 DEF Rpc
  <1>10. WorldTypeOK'
    BY <1>1, <1>3 DEF TypeOK, WorldTypeOK
  <1> QED BY <1>5, <1>6, <1>7, <1>8, <1>9, <1>10 DEF TypeOK, BrokerTypeOK

\* kirin answers with a feed.
LEMMA KirinAnswersType ==
    ASSUME TypeOK, KirinAnswers
    PROVE  TypeOK'
  <1>1. ThreadTypeOK'
    BY DEF TypeOK, ThreadTypeOK, flags, KirinAnswers
  <1>2. data' \in DataType /\ fresh' \in DataType
    BY DEF TypeOK, KirinAnswers
  <1>3. rpc' \in Rpc
    <2> DEFINE S == {j \in KirinIds : truth[j] # 0}
               f == [i \in S |-> truth[i]]
    <2>1. S \in SUBSET Ids /\ f \in [S -> Version]
      BY DEF TypeOK, WorldTypeOK, Ids
    <2>2. f \in Feed
      <3> HIDE DEF S, f
      <3> QED BY <2>1, FeedType
    <2>3. rpc' = [state |-> "answered", missed |-> {}, feed |-> f]
      BY DEF KirinAnswers
    <2> HIDE DEF f
    <2> QED BY <2>2, <2>3 DEF Rpc
  <1>4. BrokerTypeOK'
    BY <1>3 DEF TypeOK, BrokerTypeOK, KirinAnswers
  <1>5. WorldTypeOK'
    BY DEF TypeOK, WorldTypeOK, world, KirinAnswers
  <1> QED BY <1>1, <1>2, <1>4, <1>5 DEF TypeOK

\* Queues expire with their content.
LEMMA ExpireQueuesType ==
    ASSUME TypeOK, ExpireQueues
    PROVE  TypeOK'
  <1>1. ThreadTypeOK'
    BY DEF TypeOK, ThreadTypeOK, flags, ExpireQueues
  <1>2. data' \in DataType /\ fresh' \in DataType
    <2>1. IdsIn(rtq.msgs) \subseteq Ids /\ data.missed \subseteq Ids
      BY IdsInType DEF TypeOK, BrokerTypeOK, RtQueue, DataType
    <2>2. data' = [data EXCEPT !.missed = data.missed \cup IdsIn(rtq.msgs)]
      BY DEF ExpireQueues
    <2> QED BY <2>1, <2>2, MissedType DEF TypeOK, ExpireQueues
  <1>3. BrokerTypeOK'
    BY NoQueueType DEF TypeOK, BrokerTypeOK, ExpireQueues
  <1>4. WorldTypeOK'
    BY DEF TypeOK, WorldTypeOK, world, ExpireQueues
  <1> QED BY <1>1, <1>2, <1>3, <1>4 DEF TypeOK

\* The connection is lost, possibly with part of a batch.
LEMMA BrokerErrorType ==
    ASSUME TypeOK, BrokerError
    PROVE  TypeOK'
  <1>1. ThreadTypeOK'
    BY DEF TypeOK, ThreadTypeOK, Pc, OnChannel, BrokerError, Reconnect
  <1>2. /\ rtq \in RtQueue /\ rtq.msgs \in Seq(Feed) /\ rtq.taken \in Nat
        /\ rtq.taken <= Len(rtq.msgs) /\ Len(rtq.msgs) \in Nat
    BY LenProperties DEF TypeOK, BrokerTypeOK, RtQueue
  <1>3. data' \in DataType /\ rtq' \in RtQueue /\ rtq'.taken <= Len(rtq'.msgs)
    <2>1. CASE rtq' = [rtq EXCEPT !.taken = 0] /\ data' = data
      <3>1. rtq' \in RtQueue
        BY <1>2, <2>1, RtQueueType
      <3> QED BY <1>2, <2>1, <3>1 DEF TypeOK, RtQueue
    <2>2. ASSUME NEW n \in rtq.taken + 1 .. Len(rtq.msgs),
                 rtq' = [rtq EXCEPT !.msgs = SubSeq(rtq.msgs, n + 1, Len(rtq.msgs)), !.taken = 0],
                 data' = [data EXCEPT !.missed =
                             data.missed \cup IdsIn(SubSeq(rtq.msgs, rtq.taken + 1, n))]
          PROVE  data' \in DataType /\ rtq' \in RtQueue /\ rtq'.taken <= Len(rtq'.msgs)
      <3>1. /\ SubSeq(rtq.msgs, n + 1, Len(rtq.msgs)) \in Seq(Feed)
            /\ SubSeq(rtq.msgs, rtq.taken + 1, n) \in Seq(Feed)
        BY <1>2, SubSeqType
      <3>2. IdsIn(SubSeq(rtq.msgs, rtq.taken + 1, n)) \subseteq Ids /\ data.missed \subseteq Ids
        BY <3>1, IdsInType DEF TypeOK, DataType
      <3>3. data' \in DataType
        BY <2>2, <3>2, MissedType DEF TypeOK
      <3>4. rtq' \in RtQueue
        BY <1>2, <2>2, <3>1, RtQueueType
      <3>5. rtq'.taken = 0 /\ Len(rtq'.msgs) \in Nat
        BY <1>2, <2>2, <3>4, LenProperties DEF RtQueue
      <3> QED BY <3>3, <3>4, <3>5
    <2> QED BY <2>1, <2>2 DEF BrokerError
  <1>4. fresh' \in DataType
    BY DEF TypeOK, BrokerError, Reconnect
  <1>5. BrokerTypeOK'
    BY <1>3, ReconnectTaskQueue, NoQueueType DEF BrokerTypeOK, BrokerError, Reconnect
  <1>6. WorldTypeOK'
    <2>1. outages' = outages + 1 /\ UNCHANGED <<disk, truth, updates, failures>>
      BY DEF BrokerError
    <2> QED BY <2>1 DEF TypeOK, WorldTypeOK
  <1> QED BY <1>1, <1>3, <1>4, <1>5, <1>6 DEF TypeOK

\* Every step keeps the types.
LEMMA TypeStep ==
    TypeOK /\ [Next]_vars => TypeOK'
  <1> SUFFICES ASSUME TypeOK, [Next]_vars PROVE TypeOK'
    OBVIOUS
  <1>1. CASE UNCHANGED vars
    BY <1>1 DEF TypeOK, ThreadTypeOK, BrokerTypeOK, WorldTypeOK, vars, flags, broker, world
  <1>2. CASE ThreadStep
    BY <1>2, LoadNavAndDisruptionsType, SetDataType, LoadFailsType, OpenChannelType,
       CreateTaskQueueType, CreateRealtimeQueueType, BasicConsumeType, BasicConsumeFailsType,
       EventLoopType, SkipLoadRealtimeType, AskKirinType, ReceiveKirinType,
       ReceiveKirinThrowsType, KirinTimeoutType, ConsumeRtType, HandleRtType,
       HandleRtThrowsType, ConsumeTaskType
       DEF ThreadStep
  <1>3. CASE Environment
    BY <1>3, PublishType, OrderReloadType, DeliverType, BrokerAckType, KirinAnswersType,
       TickType, ExpireQueuesType, BrokerErrorType
       DEF Environment
  <1> QED BY <1>1, <1>2, <1>3 DEF Next

\* The initial state has its types.
LEMMA TypeInit == Init => TypeOK
  <1> SUFFICES ASSUME Init PROVE TypeOK
    OBVIOUS
  <1>1. ThreadTypeOK
    BY EmptySeq DEF Init, ThreadTypeOK, Pc
  <1>2. data \in DataType /\ fresh \in DataType
    BY NewDataType DEF Init
  <1>3. BrokerTypeOK
    BY NoQueueType DEF Init, BrokerTypeOK
  <1>4. WorldTypeOK
    BY MaintenanceWorkerAssumption DEF Init, WorldTypeOK, Nothing, Version
  <1> QED BY <1>1, <1>2, <1>3, <1>4 DEF TypeOK

\* Every variable of the maintenance thread keeps its type; in particular no more messages
\* are ever taken than the realtime queue holds.
THEOREM TypeCorrectness == Spec => []TypeOK
  BY TypeInit, TypeStep, PTL DEF Spec

-----------------------------------------------------------------------------
(* No update is lost silently *)

\* The messages not retrieved yet.
Rest == SubSeq(rtq.msgs, rtq.taken + 1, Len(rtq.msgs))

\* Where the thread can be when it holds a batch, awaits kirin, or has no channel.
ControlInv ==
    /\ pc # "handle_rt" => batch = <<>>
    /\ ~rtq.bound => rtq.msgs = <<>>
    /\ rpc.state # "none" => pc = "await_kirin"
    /\ ~channel_opened =>
          \/ pc = "open"
          \/ pc \in {"load", "set_data"} /\ caller = "startup" /\ ~taskq.bound /\ ~rtq.bound
    /\ rtq.bound => realtime_queue_created

\* The queue, retrieved part included, ends with the latest version of whatever it mentions.
QueueInv ==
    \A i \in IdsIn(rtq.msgs) : ApplyBatch(Nothing, rtq.msgs)[i] = truth[i]

\* Of an id that is neither missed nor about to be retrieved, a dataset with its batch
\* has the latest version, if it has read the initial state; if kirin has not answered yet,
\* it has either the latest version or none.
Converging(d) ==
    \A i \in Ids \ (d.missed \cup IdsIn(Rest)) :
       LET v == ApplyBatch(d.applied, batch)[i]
       IN  /\ i \in ChaosIds /\ d.chaos_read => v = truth[i]
           /\ i \in KirinIds => v \in {0, truth[i]}
           /\ i \in KirinIds /\ d.is_realtime_loaded => v = truth[i]

DataInv == Converging(data) /\ (pc = "set_data" => Converging(fresh))

\* kirin's answer is the latest state of the ids that nothing happened to since.
KirinInv ==
    rpc.state = "answered" =>
       /\ DOMAIN rpc.feed \subseteq KirinIds
       /\ \A i \in KirinIds \ (rpc.missed \cup IdsIn(Rest)) :
             truth[i] = IF i \in DOMAIN rpc.feed THEN rpc.feed[i] ELSE 0

CInv == TypeOK /\ ControlInv /\ QueueInv /\ DataInv /\ KirinInv

\* A queue is what has been taken followed by the rest.
LEMMA SplitQueue ==
    ASSUME NEW s \in Seq(Feed), NEW n \in Nat, n <= Len(s)
    PROVE  /\ SubSeq(s, 1, n) \in Seq(Feed) /\ SubSeq(s, n + 1, Len(s)) \in Seq(Feed)
           /\ s = SubSeq(s, 1, n) \o SubSeq(s, n + 1, Len(s))
  <1>1. Len(s) \in Nat
    BY LenProperties
  <1>2. SubSeq(s, 1, n) \in Seq(Feed) /\ SubSeq(s, n + 1, Len(s)) \in Seq(Feed)
    BY <1>1, SubSeqType
  <1>3. SubSeq(s, 1, n) \o SubSeq(s, n + 1, Len(s)) = SubSeq(s, 1, Len(s))
    <2>1. 1 \in 1 .. Len(s) + 1 /\ n \in 1 - 1 .. Len(s) /\ Len(s) \in n .. Len(s)
      BY <1>1
    <2> QED BY <2>1, ConcatAdjacentSubSeq
  <1>4. SubSeq(s, 1, Len(s)) = s
    BY SubSeqFull
  <1> QED BY <1>2, <1>3, <1>4

\* The end of a queue decides of what it mentions.
LEMMA SuffixWins ==
    ASSUME NEW s \in Seq(Feed), NEW m \in Nat, 1 <= m, m <= Len(s) + 1,
           NEW i \in IdsIn(SubSeq(s, m, Len(s))), NEW a, NEW b
    PROVE  /\ i \in IdsIn(s)
           /\ ApplyBatch(a, s)[i] = ApplyBatch(b, SubSeq(s, m, Len(s)))[i]
  <1> DEFINE p == SubSeq(s, 1, m - 1)
             r == SubSeq(s, m, Len(s))
  <1>1. p \in Seq(Feed) /\ r \in Seq(Feed) /\ s = p \o r
    <2>1. m - 1 \in Nat /\ m - 1 <= Len(s) /\ (m - 1) + 1 = m
      BY LenProperties
    <2> QED BY <2>1, SplitQueue
  <1>2. i \in IdsIn(r)
    OBVIOUS
  <1> HIDE DEF p, r
  <1>3. i \in IdsIn(s) /\ i \in Ids
    BY <1>1, <1>2, IdsInConcat, IdsInType
  <1>4. ApplyBatch(a, s)[i] = ApplyBatch(b, r)[i]
    BY <1>1, <1>2, <1>3, SecondBatchWins
  <1> QED BY <1>3, <1>4 DEF r

\* An empty batch does nothing.
LEMMA EmptyBatch ==
    /\ IdsIn(<<>>) = {}
    /\ \A a : \A i \in Ids : ApplyBatch(a, <<>>)[i] = a[i]
  <1>1. IdsIn(<<>>) = {}
    BY DEF IdsIn
  <1> QED BY <1>1, NotMentioned

\* The types the argument below uses.
LEMMA QueueFacts ==
    ASSUME TypeOK
    PROVE  /\ rtq.msgs \in Seq(Feed) /\ rtq.taken \in Nat /\ Len(rtq.msgs) \in Nat
           /\ rtq.taken <= Len(rtq.msgs)
           /\ Rest \in Seq(Feed) /\ IdsIn(Rest) \subseteq IdsIn(rtq.msgs)
           /\ IdsIn(rtq.msgs) \subseteq Ids /\ batch \in Seq(Feed)
  <1>1. /\ rtq.msgs \in Seq(Feed) /\ rtq.taken \in Nat /\ Len(rtq.msgs) \in Nat
        /\ rtq.taken <= Len(rtq.msgs) /\ batch \in Seq(Feed)
    BY LenProperties DEF TypeOK, BrokerTypeOK, RtQueue, ThreadTypeOK
  <1>2. /\ Rest \in Seq(Feed) /\ SubSeq(rtq.msgs, 1, rtq.taken) \in Seq(Feed)
        /\ rtq.msgs = SubSeq(rtq.msgs, 1, rtq.taken) \o Rest
    BY <1>1, SplitQueue DEF Rest
  <1>3. IdsIn(Rest) \subseteq IdsIn(rtq.msgs)
    <2> HIDE DEF Rest
    <2> QED BY <1>2, IdsInConcat
  <1> QED BY <1>1, <1>2, <1>3, IdsInType

\* The invariant gives the property: what is mentioned by the queue is decided by it, and
\* the rest by the dataset and its batch.
LEMMA CInvConverges ==
    ASSUME CInv
    PROVE  RealtimeConverges
  <1> SUFFICES ASSUME NEW i \in Ids \ data.missed,
                      IF i \in KirinIds THEN data.is_realtime_loaded ELSE data.chaos_read
               PROVE  Pending(i) = truth[i]
    BY DEF RealtimeConverges
  <1>1. /\ rtq.msgs \in Seq(Feed) /\ batch \in Seq(Feed)
        /\ IdsIn(Rest) \subseteq IdsIn(rtq.msgs)
    BY QueueFacts DEF CInv
  <1>2. CASE i \in IdsIn(rtq.msgs)
    <2>1. Pending(i) = ApplyBatch(Nothing, rtq.msgs)[i]
      BY <1>1, <1>2, SecondBatchWins DEF Pending
    <2> QED BY <1>2, <2>1 DEF CInv, QueueInv
  <1>3. CASE i \notin IdsIn(rtq.msgs)
    <2>1. Pending(i) = ApplyBatch(data.applied, batch)[i]
      BY <1>1, <1>3, FirstBatchStays DEF Pending
    <2>2. i \in Ids \ (data.missed \cup IdsIn(Rest))
      BY <1>1, <1>3
    <2>3. i \notin KirinIds => i \in ChaosIds
      BY DEF Ids
    <2> QED BY <2>1, <2>2, <2>3 DEF CInv, DataInv, Converging
  <1> QED BY <1>2, <1>3

\* A step that touches neither the queue, the batch, the sources nor the datasets.
LEMMA Frame ==
    ASSUME CInv, UNCHANGED <<rtq, batch, truth, data, fresh>>,
           rpc' = rpc \/ rpc'.state # "answered", pc' = "set_data" => pc = "set_data"
    PROVE  QueueInv' /\ DataInv' /\ KirinInv'
  <1>1. QueueInv'
    BY DEF CInv, QueueInv
  <1>2. DataInv'
    BY DEF CInv, DataInv, Converging, Rest
  <1>3. KirinInv'
    BY DEF CInv, KirinInv, Rest
  <1> QED BY <1>1, <1>2, <1>3

\* The steps of the thread that only move it, its flags and its subscriptions.
LEMMA ControlStep ==
    ASSUME CInv, TypeOK',
           \/ LoadFails \/ OpenChannel \/ BasicConsume \/ EventLoop \/ SkipLoadRealtime \/ AskKirin
           \/ ReceiveKirinThrows \/ KirinTimeout \/ ConsumeTask \/ OrderReload \/ Deliver \/ Tick
           \/ CreateTaskQueue
    PROVE  CInv'
  <1>1. /\ UNCHANGED <<rtq, batch, truth, data, fresh>>
        /\ rpc' = rpc \/ rpc'.state # "answered"
        /\ pc' = "set_data" => pc = "set_data"
    BY DEF LoadFails, OpenChannel, BasicConsume, EventLoop, SkipLoadRealtime, AskKirin, NoRpc,
           ReceiveKirinThrows, KirinTimeout, ConsumeTask, OrderReload, Deliver, Tick,
           CreateTaskQueue, AfterLoad, AfterLoadRealtime, NextTurn, broker, world
  <1>2. QueueInv' /\ DataInv' /\ KirinInv'
    BY <1>1, Frame
  <1>3. ControlInv'
    <2>1. CASE LoadFails
      BY <2>1 DEF CInv, ControlInv, LoadFails, AfterLoad, flags, broker
    <2>2. CASE OpenChannel
      BY <2>2 DEF CInv, ControlInv, OpenChannel, broker
    <2>3. CASE BasicConsume \/ ConsumeTask
      BY <2>3 DEF CInv, ControlInv, BasicConsume, ConsumeTask, NextTurn, flags
    <2>4. CASE EventLoop
      BY <2>4 DEF CInv, ControlInv, EventLoop, flags, broker
    <2>5. CASE SkipLoadRealtime
      BY <2>5 DEF CInv, ControlInv, SkipLoadRealtime, AfterLoadRealtime, NextTurn, flags, broker
    <2>6. CASE AskKirin
      BY <2>6 DEF CInv, ControlInv, AskKirin, flags
    <2>7. CASE ReceiveKirinThrows
      BY <2>7 DEF CInv, ControlInv, ReceiveKirinThrows, NextTurn, NoRpc, flags
    <2>8. CASE KirinTimeout
      BY <2>8 DEF CInv, ControlInv, KirinTimeout, AfterLoadRealtime, NextTurn, NoRpc, flags
    <2>9. CASE OrderReload
      BY <2>9 DEF CInv, ControlInv, OrderReload, TypeOK, BrokerTypeOK, TaskQueue, flags
    <2>10. CASE Deliver
      BY <2>10 DEF CInv, ControlInv, Deliver, TypeOK, BrokerTypeOK, TaskQueue, flags
    <2>11. CASE Tick
      BY <2>11 DEF CInv, ControlInv, Tick, flags, broker
    <2>12. CASE CreateTaskQueue
      BY <2>12 DEF CInv, ControlInv, CreateTaskQueue
    <2> QED BY <2>1, <2>2, <2>3, <2>4, <2>5, <2>6, <2>7, <2>8, <2>9, <2>10, <2>11, <2>12
  <1> QED BY <1>2, <1>3 DEF CInv

\* The realtime queue is created empty, or already exists.
LEMMA CreateRealtimeQueueStep ==
    ASSUME CInv, TypeOK', CreateRealtimeQueue
    PROVE  CInv'
  <1>1. CASE realtime_queue_created
    <2>1. UNCHANGED <<rtq, batch, truth, data, fresh, rpc>> /\ pc' = "consume"
      BY <1>1 DEF CreateRealtimeQueue, world
    <2>2. ControlInv'
      BY <2>1 DEF CInv, ControlInv, CreateRealtimeQueue
    <2> QED BY <2>1, <2>2, Frame DEF CInv
  <1>2. CASE ~realtime_queue_created
    <2>1. rtq.msgs = <<>> /\ Rest = <<>>
      <3>1. rtq.msgs = <<>> /\ rtq.taken \in Nat
        BY <1>2, QueueFacts DEF CInv, ControlInv
      <3> QED BY <3>1, SubSeqEmpty, EmptySeq DEF Rest
    <2>2. rtq'.msgs = <<>> /\ rtq'.taken = 0 /\ rtq'.bound
      BY <1>2 DEF CreateRealtimeQueue, NoRtQueue
    <2>3. Rest' = <<>>
      BY <2>2, SubSeqEmpty, EmptySeq DEF Rest
    <2>4. /\ UNCHANGED <<batch, truth, data, fresh, rpc, channel_opened, taskq, caller>>
          /\ pc = "create_realtime_queue" /\ pc' = "consume" /\ realtime_queue_created'
      BY DEF CreateRealtimeQueue, world
    <2>5. ControlInv'
      BY <2>2, <2>4 DEF CInv, ControlInv
    <2>6. QueueInv'
      BY <2>2, EmptyBatch DEF QueueInv
    <2>7. DataInv'
      BY <2>1, <2>3, <2>4 DEF CInv, DataInv, Converging
    <2>8. KirinInv'
      BY <2>1, <2>3, <2>4 DEF CInv, KirinInv
    <2> QED BY <2>5, <2>6, <2>7, <2>8 DEF CInv
  <1> QED BY <1>1, <1>2

\* A load reads the latest disruptions, and no trip update.
LEMMA LoadNavAndDisruptionsStep ==
    ASSUME CInv, TypeOK', NEW b \in BOOLEAN, LoadNavAndDisruptions(b)
    PROVE  CInv'
  <1>1. /\ UNCHANGED <<rtq, batch, truth, data, rpc, channel_opened, taskq, caller,
                       realtime_queue_created>>
        /\ pc = "load" /\ pc' = "set_data"
    BY DEF LoadNavAndDisruptions, flags, broker, world
  <1>2. /\ fresh'.applied = [i \in Ids |-> IF b /\ i \in ChaosIds THEN truth[i] ELSE 0]
        /\ fresh'.chaos_read = b /\ fresh'.is_realtime_loaded = FALSE
    BY DEF LoadNavAndDisruptions, NewData
  <1>3. ControlInv'
    BY <1>1 DEF CInv, ControlInv
  <1>4. QueueInv'
    BY <1>1 DEF CInv, QueueInv
  <1>5. KirinInv'
    BY <1>1 DEF CInv, KirinInv, Rest
  <1>6. Converging(data)'
    BY <1>1 DEF CInv, DataInv, Converging, Rest
  <1>7. Converging(fresh)'
    <2>1. batch' = <<>>
      BY <1>1 DEF CInv, ControlInv
    <2>2. \A i \in Ids : ApplyBatch(fresh'.applied, batch')[i] = IF b /\ i \in ChaosIds THEN truth[i] ELSE 0
      BY <1>2, <2>1, EmptyBatch
    <2>3. ChaosIds \cap KirinIds = {}
      BY MaintenanceWorkerAssumption
    <2> QED BY <1>1, <1>2, <2>2, <2>3 DEF Converging
  <1> QED BY <1>3, <1>4, <1>5, <1>6, <1>7 DEF CInv, DataInv

\* The dataset that was filled takes over.
LEMMA SetDataStep ==
    ASSUME CInv, TypeOK', SetData
    PROVE  CInv'
  <1>1. /\ UNCHANGED <<rtq, batch, truth, rpc, channel_opened, taskq, caller, realtime_queue_created>>
        /\ pc = "set_data"
        /\ pc' = IF caller = "startup" THEN "open" ELSE "load_realtime"
    BY DEF SetData, AfterLoad, flags, broker, world
  <1>2. /\ data'.applied = fresh.applied /\ data'.missed = fresh.missed
        /\ data'.chaos_read = fresh.chaos_read /\ data'.is_realtime_loaded = FALSE
    BY DEF SetData, CInv, TypeOK, DataType
  <1>3. ControlInv'
    BY <1>1 DEF CInv, ControlInv
  <1>4. QueueInv'
    BY <1>1 DEF CInv, QueueInv
  <1>5. KirinInv'
    BY <1>1 DEF CInv, KirinInv, Rest
  <1>6. Converging(data)'
    BY <1>1, <1>2 DEF CInv, DataInv, Converging, Rest
  <1>7. pc' # "set_data"
    BY <1>1
  <1> QED BY <1>3, <1>4, <1>5, <1>6, <1>7 DEF CInv, DataInv

\* A batch handled is a batch applied.
LEMMA HandleRtStep ==
    ASSUME CInv, TypeOK', HandleRt
    PROVE  CInv'
  <1>1. /\ UNCHANGED <<rtq, truth, fresh, rpc, channel_opened, taskq, caller, realtime_queue_created>>
        /\ pc = "handle_rt" /\ pc' = "consume_task" /\ batch' = <<>>
    BY DEF HandleRt, flags, broker, world
  <1>2. /\ data'.applied = ApplyBatch(data.applied, batch) /\ data'.missed = data.missed
        /\ data'.chaos_read = data.chaos_read /\ data'.is_realtime_loaded = data.is_realtime_loaded
    BY HandleRtInBatchType DEF HandleRt, CInv, TypeOK, ThreadTypeOK
  <1>3. ControlInv'
    BY <1>1 DEF CInv, ControlInv
  <1>4. QueueInv'
    BY <1>1 DEF CInv, QueueInv
  <1>5. KirinInv'
    BY <1>1 DEF CInv, KirinInv, Rest
  <1>6. Converging(data)'
    <2>1. \A i \in Ids : ApplyBatch(data'.applied, batch')[i] = ApplyBatch(data.applied, batch)[i]
      BY <1>1, <1>2, EmptyBatch
    <2> QED BY <1>1, <1>2, <2>1 DEF CInv, DataInv, Converging, Rest
  <1> QED BY <1>1, <1>3, <1>4, <1>5, <1>6 DEF CInv, DataInv

\* A batch dropped is accounted for.
LEMMA HandleRtThrowsStep ==
    ASSUME CInv, TypeOK', HandleRtThrows
    PROVE  CInv'
  <1>1. /\ UNCHANGED <<rtq, truth, fresh, rpc, channel_opened, taskq, caller, realtime_queue_created>>
        /\ pc = "handle_rt" /\ pc' = "event_loop" /\ batch' = <<>>
    BY DEF HandleRtThrows, flags, broker, world
  <1>2. /\ data'.applied = data.applied /\ data'.missed = data.missed \cup IdsIn(batch)
        /\ data'.chaos_read = data.chaos_read /\ data'.is_realtime_loaded = data.is_realtime_loaded
    BY DEF HandleRtThrows, CInv, TypeOK, DataType
  <1>3. ControlInv'
    BY <1>1 DEF CInv, ControlInv
  <1>4. QueueInv'
    BY <1>1 DEF CInv, QueueInv
  <1>5. KirinInv'
    BY <1>1 DEF CInv, KirinInv, Rest
  <1>6. Converging(data)'
    <2>1. \A i \in Ids \ IdsIn(batch) :
             ApplyBatch(data'.applied, batch')[i] = ApplyBatch(data.applied, batch)[i]
      BY <1>1, <1>2, EmptyBatch, NotMentioned
    <2> QED BY <1>1, <1>2, <2>1 DEF CInv, DataInv, Converging, Rest
  <1> QED BY <1>1, <1>3, <1>4, <1>5, <1>6 DEF CInv, DataInv

\* The acknowledgement of a retrieved message does not concern the rest.
LEMMA BrokerAckStep ==
    ASSUME CInv, TypeOK', BrokerAck
    PROVE  CInv'
  <1>1. /\ UNCHANGED <<pc, batch, truth, data, fresh, rpc, channel_opened, taskq, caller,
                       realtime_queue_created>>
        /\ rtq' = [rtq EXCEPT !.msgs = Tail(rtq.msgs), !.taken = rtq.taken - 1]
        /\ rtq.taken > 0
    BY DEF BrokerAck, flags, world
  <1>2. /\ rtq.msgs \in Seq(Feed) /\ rtq.taken \in Nat /\ Len(rtq.msgs) \in Nat
        /\ rtq.taken <= Len(rtq.msgs)
    BY QueueFacts DEF CInv
  <1>3. rtq.msgs # <<>>
    BY <1>1, <1>2, EmptySeq
  <1>4. /\ rtq'.msgs = Tail(rtq.msgs) /\ rtq'.taken = rtq.taken - 1 /\ rtq'.bound = rtq.bound
    BY <1>1 DEF CInv, TypeOK, BrokerTypeOK, RtQueue
  <1>5. /\ rtq'.msgs \in Seq(Feed) /\ Len(rtq'.msgs) = Len(rtq.msgs) - 1
        /\ rtq'.msgs = SubSeq(rtq.msgs, 2, Len(rtq.msgs))
        /\ \A k \in 1 .. Len(rtq.msgs) - 1 : rtq'.msgs[k] = rtq.msgs[k + 1]
    BY <1>2, <1>3, <1>4, HeadTailProperties, TailIsSubSeq
  <1>6. Rest' = Rest
    <2>1. Rest' = SubSeq(rtq'.msgs, rtq.taken, Len(rtq.msgs) - 1)
      <3>1. rtq'.taken + 1 = rtq.taken /\ Len(rtq'.msgs) = Len(rtq.msgs) - 1
        BY <1>2, <1>4, <1>5
      <3> QED BY <3>1, Zenon DEF Rest
    <2>2. /\ Rest' \in Seq(Feed) /\ Len(Rest') = Len(rtq.msgs) - rtq.taken
          /\ \A k \in 1 .. Len(rtq.msgs) - rtq.taken : Rest'[k] = rtq.msgs[rtq.taken + k]
      <3> DEFINE m == rtq'.msgs
      <3>1. /\ SubSeq(m, rtq.taken, Len(rtq.msgs) - 1) \in Seq(Feed)
            /\ Len(SubSeq(m, rtq.taken, Len(rtq.msgs) - 1)) =
                  IF rtq.taken <= Len(rtq.msgs) - 1 THEN Len(rtq.msgs) - rtq.taken ELSE 0
            /\ \A k \in 1 .. Len(rtq.msgs) - rtq.taken :
                  SubSeq(m, rtq.taken, Len(rtq.msgs) - 1)[k] = m[rtq.taken + k - 1]
        <4>1. /\ m \in Seq(Feed) /\ rtq.taken \in Nat /\ Len(rtq.msgs) - 1 \in Nat
              /\ 1 <= rtq.taken /\ Len(rtq.msgs) - 1 <= Len(m)
          BY <1>1, <1>2, <1>5
        <4> HIDE DEF m
        <4>2. Len(rtq.msgs) - 1 - rtq.taken + 1 = Len(rtq.msgs) - rtq.taken
          BY <1>2
        <4> QED BY <4>1, <4>2, SubSeqType
      <3>2. \A k \in 1 .. Len(rtq.msgs) - rtq.taken : m[rtq.taken + k - 1] = rtq.msgs[rtq.taken + k]
        BY <1>1, <1>2, <1>5
      <3> QED BY <1>2, <2>1, <3>1, <3>2
    <2>3. /\ Rest \in Seq(Feed) /\ Len(Rest) = Len(rtq.msgs) - rtq.taken
          /\ \A k \in 1 .. Len(rtq.msgs) - rtq.taken : Rest[k] = rtq.msgs[rtq.taken + k]
      BY <1>2, TailType DEF Rest
    <2> HIDE DEF Rest
    <2> QED BY <2>2, <2>3, SeqEqual
  <1>7. ControlInv'
    <2>1. ~rtq.bound => FALSE
      BY <1>3 DEF CInv, ControlInv
    <2> QED BY <1>1, <1>4, <2>1 DEF CInv, ControlInv
  <1>8. QueueInv'
    <2> SUFFICES ASSUME NEW i \in IdsIn(rtq'.msgs)
                 PROVE  ApplyBatch(Nothing, rtq'.msgs)[i] = truth[i]
      BY <1>1 DEF QueueInv
    <2>1. i \in IdsIn(SubSeq(rtq.msgs, 2, Len(rtq.msgs)))
      BY <1>5
    <2>2. /\ i \in IdsIn(rtq.msgs)
          /\ ApplyBatch(Nothing, rtq.msgs)[i] = ApplyBatch(Nothing, SubSeq(rtq.msgs, 2, Len(rtq.msgs)))[i]
      <3>1. 2 \in Nat /\ 1 <= 2 /\ 2 <= Len(rtq.msgs) + 1
        BY <1>1, <1>2
      <3> QED BY <1>2, <2>1, <3>1, SuffixWins
    <2> QED BY <1>5, <2>2 DEF CInv, QueueInv
  <1>9. DataInv'
    BY <1>1, <1>6 DEF CInv, DataInv, Converging
  <1>10. KirinInv'
    BY <1>1, <1>6 DEF CInv, KirinInv
  <1> QED BY <1>7, <1>8, <1>9, <1>10 DEF CInv

\* Retrieving messages moves them from the rest to the batch.
LEMMA ConsumeRtStep ==
    ASSUME CInv, TypeOK', NEW n \in 0 .. MaxUpdates, ConsumeRt(n)
    PROVE  CInv'
  <1> DEFINE t == rtq.taken
             s == rtq.msgs
  <1>1. /\ UNCHANGED <<truth, data, fresh, rpc, channel_opened, taskq, caller, realtime_queue_created>>
        /\ pc = "consume_rt" /\ pc' = "handle_rt"
        /\ t + n <= Len(s) /\ batch' = SubSeq(s, t + 1, t + n)
    BY DEF ConsumeRt, flags, world
  <1>2. s \in Seq(Feed) /\ t \in Nat /\ Len(s) \in Nat /\ t <= Len(s) /\ n \in Nat
    BY QueueFacts, MaintenanceWorkerAssumption DEF CInv
  <1>3. rtq'.msgs = s /\ rtq'.taken = t + n /\ rtq'.bound = rtq.bound
    BY DEF ConsumeRt, CInv, TypeOK, BrokerTypeOK, RtQueue
  <1>4. Rest = SubSeq(s, t + 1, Len(s)) /\ Rest' = SubSeq(s, t + n + 1, Len(s))
    BY <1>3, Zenon DEF Rest
  <1>5. Rest = batch' \o Rest' /\ batch' \in Seq(Feed) /\ Rest' \in Seq(Feed)
    <2> HIDE DEF t, s
    <2>1. /\ t + 1 \in 1 .. Len(s) + 1 /\ t + n \in (t + 1) - 1 .. Len(s)
          /\ Len(s) \in t + n .. Len(s)
      BY <1>1, <1>2
    <2>2. SubSeq(s, t + 1, t + n) \o SubSeq(s, t + n + 1, Len(s)) = SubSeq(s, t + 1, Len(s))
      BY <1>2, <2>1, ConcatAdjacentSubSeq
    <2>3. batch' \in Seq(Feed) /\ Rest' \in Seq(Feed)
      <3>1. t + n + 1 \in Nat /\ 1 <= t + n + 1 /\ t + 1 \in Nat /\ 1 <= t + 1 /\ t + n \in Nat
        BY <1>2
      <3> QED BY <1>1, <1>2, <1>4, <3>1, SubSeqType
    <2> QED BY <1>1, <1>4, <2>2, <2>3
  <1>6. batch = <<>> /\ rpc.state = "none"
    BY <1>1 DEF CInv, ControlInv, TypeOK, BrokerTypeOK, Rpc
  <1>7. ControlInv'
    BY <1>1, <1>3, <1>6 DEF CInv, ControlInv
  <1>8. QueueInv'
    BY <1>1, <1>3 DEF CInv, QueueInv
  <1>9. KirinInv'
    BY <1>1, <1>6 DEF KirinInv
  <1>10. Converging(data)'
    <2> SUFFICES ASSUME NEW i \in Ids \ (data.missed \cup IdsIn(Rest'))
                 PROVE  \/ ApplyBatch(data.applied, batch')[i] = truth[i]
                        \/ /\ i \notin IdsIn(Rest)
                           /\ ApplyBatch(data.applied, batch')[i] = ApplyBatch(data.applied, batch)[i]
      BY <1>1 DEF CInv, DataInv, Converging
    <2>1. CASE i \in IdsIn(batch')
      <3>1. i \in IdsIn(Rest)
        BY <1>5, <2>1, IdsInConcat
      <3>2. i \in IdsIn(s) /\ ApplyBatch(Nothing, s)[i] = ApplyBatch(data.applied, Rest)[i]
        <4>1. t + 1 \in Nat /\ 1 <= t + 1 /\ t + 1 <= Len(s) + 1
          BY <1>2
        <4> QED BY <1>2, <1>4, <3>1, <4>1, SuffixWins
      <3>3. ApplyBatch(data.applied, Rest)[i] = ApplyBatch(data.applied, batch')[i]
        BY <1>5, FirstBatchStays
      <3> QED BY <3>2, <3>3 DEF CInv, QueueInv
    <2>2. CASE i \notin IdsIn(batch')
      <3>1. i \notin IdsIn(Rest)
        BY <1>5, <2>2, IdsInConcat
      <3>2. ApplyBatch(data.applied, batch')[i] = data.applied[i]
        BY <2>2, NotMentioned
      <3>3. ApplyBatch(data.applied, batch)[i] = data.applied[i]
        BY <1>6, EmptyBatch
      <3> QED BY <3>1, <3>2, <3>3
    <2> QED BY <2>1, <2>2
  <1> QED BY <1>1, <1>7, <1>8, <1>9, <1>10 DEF CInv, DataInv

\* kirin answers with the state of the moment.
LEMMA KirinAnswersStep ==
    ASSUME CInv, TypeOK', KirinAnswers
    PROVE  CInv'
  <1>1. /\ UNCHANGED <<pc, batch, rtq, truth, data, fresh, channel_opened, taskq, caller,
                       realtime_queue_created>>
        /\ rpc.state = "asked"
    BY DEF KirinAnswers, flags, world
  <1>2. /\ rpc'.missed = {}
        /\ rpc'.feed = [i \in {j \in KirinIds : truth[j] # 0} |-> truth[i]]
    BY DEF KirinAnswers
  <1>3. ControlInv'
    BY <1>1 DEF CInv, ControlInv
  <1>4. QueueInv'
    BY <1>1 DEF CInv, QueueInv
  <1>5. DataInv'
    BY <1>1 DEF CInv, DataInv, Converging, Rest
  <1>6. KirinInv'
    BY <1>1, <1>2 DEF KirinInv
  <1> QED BY <1>3, <1>4, <1>5, <1>6 DEF CInv

\* kirin's answer is the latest state but for what is queued or accounted for; an entity it
\* does not contain has no version, and none was applied.
LEMMA ReceiveKirinStep ==
    ASSUME CInv, TypeOK', ReceiveKirin
    PROVE  CInv'
  <1>1. /\ UNCHANGED <<rtq, batch, truth, fresh, channel_opened, taskq, caller, realtime_queue_created>>
        /\ pc = "await_kirin" /\ rpc.state = "answered" /\ rpc' = NoRpc
        /\ pc' \notin {"set_data", "handle_rt"}
    BY DEF ReceiveKirin, flags, world, AfterLoadRealtime, NextTurn
  <1>2. /\ data'.applied = ApplyBatch(data.applied, <<rpc.feed>>)
        /\ data'.missed = (data.missed \ DOMAIN rpc.feed) \cup rpc.missed
        /\ data'.chaos_read = data.chaos_read
    <2>1. PICK d \in HandleRtInBatch(data, <<rpc.feed>>) :
             data' = [d EXCEPT !.is_realtime_loaded = TRUE,
                               !.missed = (d.missed \ DOMAIN rpc.feed) \cup rpc.missed]
      BY DEF ReceiveKirin
    <2>2. rpc.feed \in Feed
      BY DEF CInv, TypeOK, BrokerTypeOK, Rpc
    <2>3. /\ d \in DataType /\ d.applied = ApplyBatch(data.applied, <<rpc.feed>>)
          /\ d.missed = data.missed /\ d.chaos_read = data.chaos_read
      BY <2>2, SingleFeed, HandleRtInBatchType DEF CInv, TypeOK
    <2> QED BY <2>1, <2>3 DEF DataType
  <1>3. channel_opened /\ batch = <<>>
    BY <1>1 DEF CInv, ControlInv
  <1>4. ControlInv'
    BY <1>1, <1>3 DEF CInv, ControlInv, NoRpc
  <1>5. QueueInv'
    BY <1>1 DEF CInv, QueueInv
  <1>6. KirinInv'
    BY <1>1 DEF KirinInv, NoRpc
  <1>7. Converging(data)'
    <2> SUFFICES ASSUME NEW i \in Ids, i \notin data'.missed, i \notin IdsIn(Rest)
                 PROVE  /\ i \in ChaosIds /\ data.chaos_read => data'.applied[i] = truth[i]
                        /\ i \in KirinIds => data'.applied[i] = truth[i]
      <3>1. \A i \in Ids : ApplyBatch(data'.applied, batch')[i] = data'.applied[i]
        BY <1>1, <1>3, EmptyBatch
      <3> QED BY <1>1, <1>2, <3>1 DEF Converging, Rest
    <2>1. rpc.feed \in Feed /\ DOMAIN rpc.feed \subseteq KirinIds
      BY <1>1 DEF CInv, TypeOK, BrokerTypeOK, Rpc, KirinInv
    <2>2. ApplyBatch(data.applied, batch)[i] = data.applied[i]
      BY <1>3, EmptyBatch
    <2>3. CASE i \in DOMAIN rpc.feed
      <3>1. data'.applied[i] = rpc.feed[i]
        BY <1>2, <2>1, <2>3, SingleFeed
      <3>2. i \in KirinIds /\ i \notin ChaosIds
        BY <2>1, <2>3, MaintenanceWorkerAssumption
      <3> QED BY <1>1, <1>2, <2>3, <3>1, <3>2 DEF CInv, KirinInv
    <2>4. CASE i \notin DOMAIN rpc.feed
      <3>1. data'.applied[i] = data.applied[i]
        BY <1>2, <2>1, <2>4, SingleFeed, NotMentioned
      <3>2. i \in Ids \ (data.missed \cup IdsIn(Rest)) /\ i \notin rpc.missed
        BY <1>2, <2>4
      <3>3. i \in KirinIds => truth[i] = 0
        BY <1>1, <2>4, <3>2 DEF CInv, KirinInv
      <3> QED BY <2>2, <3>1, <3>2, <3>3 DEF CInv, DataInv, Converging
    <2> QED BY <2>3, <2>4
  <1> QED BY <1>1, <1>4, <1>5, <1>6, <1>7 DEF CInv, DataInv

\* Queues expire only while the thread is out of work, and their content is accounted for.
LEMMA ExpireQueuesStep ==
    ASSUME CInv, TypeOK', ExpireQueues
    PROVE  CInv'
  <1>1. /\ UNCHANGED <<pc, batch, truth, fresh, rpc, channel_opened, caller, realtime_queue_created>>
        /\ ~channel_opened /\ (taskq.bound \/ rtq.bound)
        /\ rtq'.bound = FALSE /\ rtq'.msgs = <<>> /\ rtq'.taken = 0
    BY DEF ExpireQueues, flags, world, NoRtQueue
  <1>2. /\ data'.applied = data.applied /\ data'.missed = data.missed \cup IdsIn(rtq.msgs)
        /\ data'.chaos_read = data.chaos_read /\ data'.is_realtime_loaded = data.is_realtime_loaded
    BY DEF ExpireQueues, CInv, TypeOK, DataType
  <1>3. pc = "open" /\ rpc.state = "none"
    BY <1>1 DEF CInv, ControlInv, TypeOK, BrokerTypeOK, Rpc
  <1>4. ControlInv'
    BY <1>1, <1>3 DEF CInv, ControlInv
  <1>5. QueueInv'
    BY <1>1, EmptyBatch DEF QueueInv
  <1>6. KirinInv'
    BY <1>1, <1>3 DEF KirinInv
  <1>7. Converging(data)'
    <2>1. IdsIn(Rest) \subseteq IdsIn(rtq.msgs)
      BY QueueFacts DEF CInv
    <2> QED BY <1>1, <1>2, <2>1 DEF CInv, DataInv, Converging
  <1> QED BY <1>1, <1>3, <1>4, <1>5, <1>6, <1>7 DEF CInv, DataInv

\* The loss of the connection puts the retrieved and unacknowledged messages back: they are
\* handled a second time, after what they were followed by.
LEMMA BasicConsumeFailsStep ==
    ASSUME CInv, TypeOK', Reconnect, rtq' = [rtq EXCEPT !.taken = 0],
           UNCHANGED <<data, truth>>, pc \in OnChannel
    PROVE  CInv'
  <1>1. /\ UNCHANGED <<batch, fresh, realtime_queue_created>>
        /\ pc' = "open" /\ rpc' = NoRpc
    BY DEF Reconnect
  <1>2. rtq'.msgs = rtq.msgs /\ rtq'.taken = 0 /\ rtq'.bound = rtq.bound
    BY DEF CInv, TypeOK, BrokerTypeOK, RtQueue
  <1>3. /\ rtq.msgs \in Seq(Feed) /\ IdsIn(Rest) \subseteq IdsIn(rtq.msgs)
    BY QueueFacts DEF CInv
  <1>4. Rest' = rtq.msgs
    <2>1. 0 + 1 = 1
      OBVIOUS
    <2> QED BY <1>2, <1>3, <2>1, SubSeqFull DEF Rest
  <1>5. ControlInv'
    BY <1>1, <1>2 DEF CInv, ControlInv, OnChannel, NoRpc
  <1>6. QueueInv'
    BY <1>2 DEF CInv, QueueInv
  <1>7. DataInv'
    BY <1>1, <1>3, <1>4 DEF CInv, DataInv, Converging
  <1>8. KirinInv'
    BY <1>1 DEF KirinInv, NoRpc
  <1> QED BY <1>5, <1>6, <1>7, <1>8 DEF CInv

\* Messages retrieved and acknowledged when the connection is lost are accounted for.
LEMMA BrokerErrorStep ==
    ASSUME CInv, TypeOK', BrokerError
    PROVE  CInv'
  <1>1. /\ UNCHANGED <<batch, fresh, truth, realtime_queue_created>>
        /\ pc' = "open" /\ rpc' = NoRpc /\ pc \in OnChannel /\ Reconnect
    BY DEF BrokerError, Reconnect
  <1>2. CASE rtq' = [rtq EXCEPT !.taken = 0] /\ data' = data
    BY <1>1, <1>2, BasicConsumeFailsStep
  <1>3. ASSUME NEW n \in rtq.taken + 1 .. Len(rtq.msgs),
               rtq' = [rtq EXCEPT !.msgs = SubSeq(rtq.msgs, n + 1, Len(rtq.msgs)), !.taken = 0],
               data' = [data EXCEPT !.missed =
                           data.missed \cup IdsIn(SubSeq(rtq.msgs, rtq.taken + 1, n))]
        PROVE  CInv'
    <2> DEFINE s == rtq.msgs
               t == rtq.taken
               lost == SubSeq(s, t + 1, n)
               left == SubSeq(s, n + 1, Len(s))
    <2>1. /\ rtq'.msgs = left /\ rtq'.taken = 0 /\ rtq'.bound = rtq.bound
          /\ data'.applied = data.applied /\ data'.missed = data.missed \cup IdsIn(lost)
          /\ data'.chaos_read = data.chaos_read /\ data'.is_realtime_loaded = data.is_realtime_loaded
      BY <1>3 DEF CInv, TypeOK, BrokerTypeOK, RtQueue, DataType
    <2>2. /\ s \in Seq(Feed) /\ t \in Nat /\ Len(s) \in Nat /\ t <= Len(s)
          /\ n \in Nat /\ t + 1 <= n /\ n <= Len(s)
      BY <1>3, QueueFacts DEF CInv
    <2> HIDE DEF s, t
    <2>3. Rest = lost \o left /\ lost \in Seq(Feed) /\ left \in Seq(Feed)
      <3>1. t + 1 \in 1 .. Len(s) + 1 /\ n \in (t + 1) - 1 .. Len(s) /\ Len(s) \in n .. Len(s)
        BY <2>2
      <3>2. SubSeq(s, t + 1, n) \o SubSeq(s, n + 1, Len(s)) = SubSeq(s, t + 1, Len(s))
        BY <2>2, <3>1, ConcatAdjacentSubSeq
      <3>3. t + 1 \in Nat /\ 1 <= t + 1 /\ n + 1 \in Nat /\ 1 <= n + 1
        BY <2>2
      <3>4. lost \in Seq(Feed) /\ left \in Seq(Feed)
        BY <2>2, <3>3, SubSeqType
      <3>5. Rest = SubSeq(s, t + 1, Len(s))
        BY DEF Rest, s, t
      <3> QED BY <3>2, <3>4, <3>5
    <2>4. \A i \in IdsIn(left) :
             i \in IdsIn(s) /\ ApplyBatch(Nothing, s)[i] = ApplyBatch(Nothing, left)[i]
      <3>1. n + 1 \in Nat /\ 1 <= n + 1 /\ n + 1 <= Len(s) + 1
        BY <2>2
      <3> QED BY <2>2, <3>1, SuffixWins
    <2> HIDE DEF lost, left
    <2>5. Rest' = left
      <3>1. 0 + 1 = 1
        OBVIOUS
      <3> QED BY <2>1, <2>3, <3>1, SubSeqFull DEF Rest
    <2>6. IdsIn(Rest) = IdsIn(lost) \cup IdsIn(left)
      BY <2>3, IdsInConcat
    <2>7. rtq.bound
      <3>1. s # <<>>
        BY <2>2, EmptySeq
      <3> QED BY <3>1 DEF CInv, ControlInv, s
    <2>8. ControlInv'
      BY <1>1, <2>1, <2>7 DEF CInv, ControlInv, OnChannel, NoRpc
    <2>9. QueueInv'
      BY <1>1, <2>1, <2>4 DEF CInv, QueueInv, s
    <2>10. DataInv'
      BY <1>1, <2>1, <2>5, <2>6 DEF CInv, DataInv, Converging
    <2>11. KirinInv'
      BY <1>1 DEF KirinInv, NoRpc
    <2> QED BY <2>8, <2>9, <2>10, <2>11 DEF CInv
  <1> QED BY <1>2, <1>3 DEF BrokerError

\* An update is queued behind all others, or accounted for.
LEMMA PublishStep ==
    ASSUME CInv, TypeOK', NEW i \in Ids, NEW deleted \in BOOLEAN, Publish(i, deleted)
    PROVE  CInv'
  <1> DEFINE v == IF deleted THEN 0 ELSE updates + 1
             f == [j \in {i} |-> v]
             s == rtq.msgs
             t == rtq.taken
             heard(missed) == IF rtq.bound THEN missed \ {i} ELSE missed \cup {i}
  <1>1. /\ UNCHANGED <<pc, batch, channel_opened, taskq, caller, realtime_queue_created>>
        /\ truth' = [truth EXCEPT ![i] = v]
        /\ rtq' = IF rtq.bound THEN [rtq EXCEPT !.msgs = Append(s, f)] ELSE rtq
        /\ data' = [data EXCEPT !.missed = heard(data.missed)]
        /\ fresh' = IF pc = "set_data" THEN [fresh EXCEPT !.missed = heard(fresh.missed)] ELSE fresh
        /\ rpc' = IF rpc.state = "answered" THEN [rpc EXCEPT !.missed = heard(rpc.missed)] ELSE rpc
    BY DEF Publish, flags
  <1>2. f \in Feed /\ DOMAIN f = {i} /\ f[i] = v
    <2>1. v \in Version
      BY MaintenanceWorkerAssumption DEF CInv, TypeOK, WorldTypeOK, Version, Publish
    <2> HIDE DEF v
    <2> QED BY <2>1, FeedType
  <1> HIDE DEF v, f
  <1>3. truth'[i] = v /\ \A j \in Ids \ {i} : truth'[j] = truth[j]
    BY <1>1 DEF CInv, TypeOK, WorldTypeOK
  <1>4. s \in Seq(Feed) /\ t \in Nat /\ Len(s) \in Nat /\ t <= Len(s) /\ Rest \in Seq(Feed)
    BY QueueFacts DEF CInv
  <1>5. /\ data'.applied = data.applied /\ data'.missed = heard(data.missed)
        /\ data'.chaos_read = data.chaos_read /\ data'.is_realtime_loaded = data.is_realtime_loaded
    BY <1>1 DEF CInv, TypeOK, DataType
  <1>6. pc = "set_data" =>
        /\ fresh'.applied = fresh.applied /\ fresh'.missed = heard(fresh.missed)
        /\ fresh'.chaos_read = fresh.chaos_read /\ fresh'.is_realtime_loaded = fresh.is_realtime_loaded
    BY <1>1 DEF CInv, TypeOK, DataType
  <1>7. /\ rpc'.state = rpc.state /\ rpc'.feed = rpc.feed
        /\ rpc.state = "answered" => rpc'.missed = heard(rpc.missed)
    BY <1>1 DEF CInv, TypeOK, BrokerTypeOK, Rpc
  <1>8. CASE rtq.bound
    <2>1. rtq'.msgs = Append(s, f) /\ rtq'.taken = t /\ rtq'.bound
      BY <1>1, <1>8 DEF CInv, TypeOK, BrokerTypeOK, RtQueue
    <2> DEFINE g == <<f>>
    <2>2. /\ Append(s, f) = s \o g /\ Append(Rest, f) = Rest \o g
          /\ g \in Seq(Feed) /\ IdsIn(g) = {i} /\ ApplyBatch(Nothing, g)[i] = f[i]
      BY <1>2, <1>4, AppendIsConcat, SingleFeed
    <2> HIDE DEF g, s
    <2>3. IdsIn(rtq'.msgs) = IdsIn(s) \cup {i}
      BY <1>4, <2>1, <2>2, IdsInConcat
    <2>4. IdsIn(Rest') = IdsIn(Rest) \cup {i}
      <3>1. Rest' = Append(Rest, f)
        <4> HIDE DEF s, t
        <4> DEFINE u == Append(s, f)
        <4>1. /\ u \in Seq(Feed) /\ Len(u) = Len(s) + 1 /\ u[Len(s) + 1] = f
              /\ \A k \in 1 .. Len(s) : u[k] = s[k]
          BY <1>2, <1>4, AppendProperties
        <4>2. Rest' = SubSeq(u, t + 1, Len(u)) /\ Rest = SubSeq(s, t + 1, Len(s))
          BY <2>1, Zenon DEF Rest, s, t
        <4> HIDE DEF u
        <4>3. t + 1 \in Nat /\ 1 <= t + 1 /\ Len(u) \in Nat /\ Len(u) - (t + 1) + 1 = Len(s) - t + 1
          BY <1>4, <4>1
        <4>4. /\ SubSeq(u, t + 1, Len(u)) \in Seq(Feed)
              /\ Len(SubSeq(u, t + 1, Len(u))) = Len(s) - t + 1
              /\ \A k \in 1 .. Len(s) - t + 1 : SubSeq(u, t + 1, Len(u))[k] = u[t + 1 + k - 1]
          BY <1>4, <4>1, <4>3, SubSeqType
        <4>5. /\ Len(SubSeq(s, t + 1, Len(s))) = Len(s) - t
              /\ \A k \in 1 .. Len(s) - t : SubSeq(s, t + 1, Len(s))[k] = s[t + 1 + k - 1]
          <5>1. Len(s) - (t + 1) + 1 = Len(s) - t
            BY <1>4
          <5>2. /\ Len(SubSeq(s, t + 1, Len(s))) = IF t + 1 <= Len(s) THEN Len(s) - (t + 1) + 1 ELSE 0
                /\ \A k \in 1 .. Len(s) - (t + 1) + 1 :
                      SubSeq(s, t + 1, Len(s))[k] = s[t + 1 + k - 1]
            <6>1. Len(s) <= Len(s)
              BY <1>4
            <6> QED BY <1>4, <4>3, <6>1, SubSeqType
          <5> QED BY <1>4, <5>1, <5>2
        <4>6. /\ Append(Rest, f) \in Seq(Feed) /\ Len(Append(Rest, f)) = Len(s) - t + 1
              /\ \A k \in 1 .. Len(s) - t : Append(Rest, f)[k] = Rest[k]
              /\ Append(Rest, f)[Len(s) - t + 1] = f
          BY <1>2, <1>4, <4>2, <4>5, AppendProperties
        <4>7. \A k \in 1 .. Len(s) - t + 1 : Rest'[k] = Append(Rest, f)[k]
          <5> TAKE k \in 1 .. Len(s) - t + 1
          <5>1. CASE k = Len(s) - t + 1
            <6>1. t + 1 + k - 1 = Len(s) + 1
              BY <1>4, <5>1
            <6> QED BY <4>1, <4>2, <4>4, <4>6, <5>1, <6>1
          <5>2. CASE k # Len(s) - t + 1
            <6>1. k \in 1 .. Len(s) - t /\ t + 1 + k - 1 \in 1 .. Len(s)
              BY <1>4, <5>2
            <6> QED BY <4>1, <4>2, <4>4, <4>5, <4>6, <6>1
          <5> QED BY <5>1, <5>2
        <4>8. Rest' \in Seq(Feed) /\ Len(Rest') = Len(s) - t + 1
          BY <4>2, <4>4
        <4> DEFINE r == Rest'
                   a == Append(Rest, f)
        <4> HIDE DEF r, a
        <4>9. r \in Seq(Feed) /\ a \in Seq(Feed) /\ Len(r) = Len(a) /\ \A k \in 1 .. Len(r) : r[k] = a[k]
          BY <4>6, <4>7, <4>8 DEF r, a
        <4>10. r = a
          BY <4>9, SeqEqual
        <4> QED BY <4>10 DEF r, a
      <3> QED BY <1>4, <2>2, <3>1, IdsInConcat
    <2>5. ControlInv'
      BY <1>1, <1>7, <1>8, <2>1 DEF CInv, ControlInv
    <2>6. QueueInv'
      <3> SUFFICES ASSUME NEW j \in IdsIn(s) \cup {i}
                   PROVE  ApplyBatch(Nothing, s \o g)[j] = truth'[j]
        BY <2>1, <2>2, <2>3 DEF QueueInv
      <3>1. CASE j = i
        <4>1. ApplyBatch(Nothing, s \o g)[i] = ApplyBatch(Nothing, g)[i]
          <5>1. i \in IdsIn(g)
            BY <2>2
          <5>2. s \in Seq(Feed) /\ g \in Seq(Feed) /\ i \in Ids
            BY <1>4, <2>2
          <5> HIDE DEF s
          <5> QED BY ONLY <5>1, <5>2, SecondBatchWins
        <4> QED BY <1>2, <1>3, <2>2, <3>1, <4>1
      <3>2. CASE j # i
        <4>1. j \in Ids /\ j \in IdsIn(s) /\ j \notin IdsIn(g)
          BY <1>4, <2>2, <3>2, IdsInType
        <4>2. ApplyBatch(Nothing, s \o g)[j] = ApplyBatch(Nothing, s)[j]
          BY <1>4, <2>2, <4>1, FirstBatchStays
        <4> QED BY <1>3, <3>2, <4>1, <4>2 DEF CInv, QueueInv, s
      <3> QED BY <3>1, <3>2
    <2>7. Converging(data)'
      BY <1>1, <1>3, <1>5, <1>8, <2>4 DEF CInv, DataInv, Converging
    <2>8. pc = "set_data" => Converging(fresh)'
      BY <1>1, <1>3, <1>6, <1>8, <2>4 DEF CInv, DataInv, Converging
    <2>9. KirinInv'
      BY <1>3, <1>7, <1>8, <2>4 DEF CInv, KirinInv, Ids
    <2> QED BY <1>1, <2>5, <2>6, <2>7, <2>8, <2>9 DEF CInv, DataInv
  <1>9. CASE ~rtq.bound
    <2>1. rtq' = rtq /\ rtq.msgs = <<>>
      BY <1>1, <1>9 DEF CInv, ControlInv
    <2>2. ControlInv'
      BY <1>1, <1>7, <2>1 DEF CInv, ControlInv
    <2>3. QueueInv'
      BY <2>1, EmptyBatch DEF QueueInv
    <2>4. Converging(data)'
      BY <1>1, <1>3, <1>5, <1>9, <2>1 DEF CInv, DataInv, Converging, Rest
    <2>5. pc = "set_data" => Converging(fresh)'
      BY <1>1, <1>3, <1>6, <1>9, <2>1 DEF CInv, DataInv, Converging, Rest
    <2>6. KirinInv'
      BY <1>3, <1>7, <1>9, <2>1 DEF CInv, KirinInv, Ids, Rest
    <2> QED BY <1>1, <2>2, <2>3, <2>4, <2>5, <2>6 DEF CInv, DataInv
  <1> QED BY <1>8, <1>9

\* Every step preserves the invariant.
LEMMA CInvStep ==
    CInv /\ [Next]_vars => CInv'
  <1> SUFFICES ASSUME CInv, [Next]_vars PROVE CInv'
    OBVIOUS
  <1>1. TypeOK'
    BY TypeStep DEF CInv
  <1>2. CASE UNCHANGED vars
    <2>1. UNCHANGED <<rtq, batch, truth, data, fresh, rpc, pc>>
      BY <1>2 DEF vars, broker, world
    <2>2. QueueInv' /\ DataInv' /\ KirinInv'
      BY <2>1, Frame
    <2>3. ControlInv'
      BY <1>2 DEF CInv, ControlInv, vars, broker, world, flags
    <2> QED BY <1>1, <2>2, <2>3 DEF CInv
  <1>3. CASE BasicConsumeFails
    <2>1. /\ Reconnect /\ rtq' = [rtq EXCEPT !.taken = 0] /\ UNCHANGED <<data, truth>>
          /\ pc \in OnChannel
      BY <1>3 DEF BasicConsumeFails, world, OnChannel
    <2> QED BY <1>1, <2>1, BasicConsumeFailsStep
  <1>4. CASE ThreadStep
    BY <1>1, <1>3, <1>4, ControlStep, CreateRealtimeQueueStep, LoadNavAndDisruptionsStep, SetDataStep,
       ReceiveKirinStep, ConsumeRtStep, HandleRtStep, HandleRtThrowsStep
       DEF ThreadStep
  <1>5. CASE Environment
    BY <1>1, <1>5, ControlStep, PublishStep, BrokerAckStep, KirinAnswersStep, ExpireQueuesStep,
       BrokerErrorStep
       DEF Environment
  <1> QED BY <1>2, <1>4, <1>5 DEF Next

\* At startup nothing is known and nothing has been published.
LEMMA CInvInit == Init => CInv
  <1> SUFFICES ASSUME Init PROVE CInv
    OBVIOUS
  <1>1. TypeOK
    BY TypeInit
  <1>2. ControlInv
    BY DEF Init, ControlInv, NoRtQueue, NoTaskQueue, NoRpc
  <1>3. QueueInv
    BY EmptyBatch DEF Init, QueueInv, NoRtQueue
  <1>4. DataInv
    <2>1. \A i \in Ids : ApplyBatch(data.applied, batch)[i] = 0 /\ truth[i] = 0
      BY EmptyBatch DEF Init, NewData, Nothing
    <2>2. pc # "set_data"
      BY DEF Init
    <2> QED BY <2>1, <2>2 DEF DataInv, Converging
  <1>5. KirinInv
    BY DEF Init, KirinInv, NoRpc
  <1> QED BY <1>1, <1>2, <1>3, <1>4, <1>5 DEF CInv

\* Whatever the order of updates, batches, redeliveries, reloads, outages and answers of
\* kirin, and however many of them there are, the dataset in service catches up with chaos
\* and kirin by applying what is in hand or queued, for every id that is not accounted for
\* as missed.
THEOREM NoSilentLoss == Spec => []RealtimeConverges
  <1>1. CInv => RealtimeConverges
    BY CInvConverges
  <1> QED BY <1>1, CInvInit, CInvStep, PTL DEF Spec

-----------------------------------------------------------------------------
(* A batch is its messages one after the other *)

\* The messages up to the n-th are those up to the one before, then the n-th.
LEMMA OneMore ==
    ASSUME NEW s \in Seq(Feed), NEW n \in 1 .. Len(s)
    PROVE  /\ SubSeq(s, 1, n - 1) \in Seq(Feed) /\ s[n] \in Feed
           /\ SubSeq(s, 1, n) = SubSeq(s, 1, n - 1) \o <<s[n]>>
  <1>0. Len(s) \in Nat /\ n - 1 \in 0 .. Len(s)
    BY LenProperties
  <1>1. s[n] \in Feed
    BY ElementOfSeq
  <1>2. /\ SubSeq(s, 1, n) \in Seq(Feed) /\ SubSeq(s, 1, n - 1) \in Seq(Feed)
        /\ Len(SubSeq(s, 1, n)) = n /\ Len(SubSeq(s, 1, n - 1)) = n - 1
        /\ \A k \in 1 .. n : SubSeq(s, 1, n)[k] = s[k]
        /\ \A k \in 1 .. n - 1 : SubSeq(s, 1, n - 1)[k] = s[k]
    BY <1>0
  <1> DEFINE p == SubSeq(s, 1, n)
             q == SubSeq(s, 1, n - 1)
  <1> HIDE DEF p, q
  <1>3. p \in Seq(Feed) /\ q \in Seq(Feed) /\ Len(p) = n /\ Len(q) = n - 1
        /\ (\A k \in 1 .. n : p[k] = s[k]) /\ \A k \in 1 .. n - 1 : q[k] = s[k]
    BY <1>2 DEF p, q
  <1>4. p = q \o <<s[n]>>
    <2>1. q \o <<s[n]>> \in Seq(Feed) /\ Len(q \o <<s[n]>>) = n
      BY <1>1, <1>3
    <2>2. \A k \in 1 .. n : (q \o <<s[n]>>)[k] = s[k]
      BY <1>1, <1>3
    <2> QED BY <1>3, <2>1, <2>2, SeqEqual
  <1> QED BY <1>1, <1>2, <1>4 DEF p, q

\* Going through a batch backwards and skipping the ids already met gives what its messages give one after
\* the other: by induction on the messages that have been applied.
LEMMA BatchInTurn ==
    ASSUME NEW applied \in [Ids -> Version], NEW feeds \in Seq(Feed)
    PROVE  ApplyBatch(applied, feeds) = Sequentially(applied, feeds)
  <1> DEFINE N == Len(feeds)
             upto == [n \in 0 .. N |-> ApplyBatch(applied, SubSeq(feeds, 1, n))]
             Eq(g) == g = [n \in 0 .. N |->
                             IF n = 0 THEN applied
                             ELSE [i \in Ids |-> IF i \in DOMAIN feeds[n] THEN feeds[n][i] ELSE g[n - 1][i]]]
             after == CHOOSE g : Eq(g)
  <1>0. N \in Nat /\ DOMAIN feeds = 1 .. N /\ 0 \in 0 .. N /\ N \in 0 .. N
    BY LenProperties
  <1>1. ApplyBatch(applied, <<>>) = applied
    BY EmptyBatch DEF ApplyBatch
  <1>2. upto[0] = applied
    <2>1. SubSeq(feeds, 1, 0) = <<>>
      BY SubSeqEmpty, <1>0
    <2>2. upto[0] = ApplyBatch(applied, SubSeq(feeds, 1, 0))
      BY <1>0, Zenon
    <2> QED BY <1>1, <2>1, <2>2, Zenon
  <1>3. ASSUME NEW n \in 1 .. N
        PROVE  upto[n] = [i \in Ids |-> IF i \in DOMAIN feeds[n] THEN feeds[n][i] ELSE upto[n - 1][i]]
    <2> DEFINE p == SubSeq(feeds, 1, n - 1)
    <2>1. p \in Seq(Feed) /\ feeds[n] \in Feed /\ SubSeq(feeds, 1, n) = p \o <<feeds[n]>>
      BY OneMore
    <2>2. n \in 0 .. N /\ n - 1 \in 0 .. N
      BY <1>0
    <2> DEFINE t == <<feeds[n]>>
    <2>3. upto[n] = ApplyBatch(applied, p \o t) /\ upto[n - 1] = ApplyBatch(applied, p)
      BY <2>1, <2>2
    <2>4. /\ t \in Seq(Feed) /\ IdsIn(t) = DOMAIN feeds[n]
          /\ \A i \in DOMAIN feeds[n] : i \in Ids => ApplyBatch(applied, t)[i] = feeds[n][i]
      BY <2>1, SingleFeed
    <2> HIDE DEF p, t, upto
    <2>5. ASSUME NEW i \in Ids
          PROVE  upto[n][i] = IF i \in DOMAIN feeds[n] THEN feeds[n][i] ELSE upto[n - 1][i]
      <3>1. CASE i \in DOMAIN feeds[n]
        <4>1. ApplyBatch(applied, p \o t)[i] = ApplyBatch(applied, t)[i]
          BY <2>1, <2>4, <3>1, SecondBatchWins
        <4>2. ApplyBatch(applied, t)[i] = feeds[n][i]
          BY <2>4, <3>1
        <4> QED BY <2>3, <3>1, <4>1, <4>2
      <3>2. CASE i \notin DOMAIN feeds[n]
        <4>1. ApplyBatch(applied, p \o t)[i] = ApplyBatch(applied, p)[i]
          BY <2>1, <2>4, <3>2, FirstBatchStays
        <4> QED BY <2>3, <3>2, <4>1
      <3> QED BY <3>1, <3>2
    <2>6. upto[n] = [i \in Ids |-> upto[n][i]]
      BY <2>3 DEF ApplyBatch
    <2> QED BY <2>5, <2>6
  <1>4. Eq(upto)
    <2>1. upto = [n \in 0 .. N |-> upto[n]]
      OBVIOUS
    <2>2. ASSUME NEW n \in 0 .. N, n # 0
          PROVE  upto[n] = [i \in Ids |-> IF i \in DOMAIN feeds[n] THEN feeds[n][i] ELSE upto[n - 1][i]]
      <3>1. n \in 1 .. N
        BY <1>0, <2>2
      <3> QED BY <1>3, <3>1
    <2> HIDE DEF upto
    <2> QED BY <1>2, <2>1, <2>2
  <1>5. Eq(after)
    <2> HIDE DEF Eq
    <2> QED BY <1>4
  <1> HIDE DEF after
  <1>6. ASSUME NEW n \in 1 .. N
        PROVE  after[n] = [i \in Ids |-> IF i \in DOMAIN feeds[n] THEN feeds[n][i] ELSE after[n - 1][i]]
    <2>1. n \in 0 .. N /\ n # 0
      BY <1>0
    <2> QED BY <1>5, <2>1, Zenon
  <1>7. after[0] = applied
    BY <1>0, <1>5
  <1> HIDE DEF Eq, upto
  <1>8. \A n \in 0 .. N : after[n] = upto[n]
    <2> DEFINE T == {n \in Nat : n <= N /\ after[n] # upto[n]}
    <2> SUFFICES ASSUME T # {} PROVE FALSE
      BY <1>0
    <2>1. PICK m \in T : \A n \in T : ~(<<n, m>> \in OpToRel(<, Nat))
      BY NatLessThanWellFounded, WFMin, Zenon
    <2>2. \A n \in T : ~(n < m)
      BY <2>1 DEF OpToRel
    <2>3. m \in Nat /\ m <= N /\ after[m] # upto[m]
      BY <2>1
    <2>4. m # 0
      BY <1>2, <1>7, <2>3
    <2>5. m \in 1 .. N /\ m - 1 \in Nat /\ m - 1 < m /\ m - 1 <= N
      BY <1>0, <2>3, <2>4
    <2>6. after[m - 1] = upto[m - 1]
      BY <2>2, <2>5
    <2>7. /\ after[m] = [i \in Ids |-> IF i \in DOMAIN feeds[m] THEN feeds[m][i] ELSE after[m - 1][i]]
          /\ upto[m] = [i \in Ids |-> IF i \in DOMAIN feeds[m] THEN feeds[m][i] ELSE upto[m - 1][i]]
      BY <1>3, <1>6, <2>5, Zenon
    <2> QED BY <2>3, <2>6, <2>7
  <1>9. upto[N] = ApplyBatch(applied, feeds)
    <2>1. SubSeq(feeds, 1, N) = feeds
      BY SubSeqFull
    <2>2. upto[N] = ApplyBatch(applied, SubSeq(feeds, 1, N))
      BY <1>0, Zenon DEF upto
    <2> QED BY <2>1, <2>2, Zenon
  <1>10. Sequentially(applied, feeds) = after[N]
    BY Zenon DEF Sequentially, after, Eq
  <1> QED BY <1>0, <1>8, <1>9, <1>10

\* A batch of realtime messages leaves the dataset as its messages would one after the other.
THEOREM BatchesAreSequential == Spec => []BatchIsSequential
  <1>1. TypeOK => BatchIsSequential
    BY BatchInTurn DEF TypeOK, ThreadTypeOK, DataType, BatchIsSequential
  <1> QED BY <1>1, TypeCorrectness, PTL

=============================================================================
