----------------------- MODULE IndexingPipelineProofs -----------------------
(***************************************************************************)
(* Proofs about IndexingPipeline for every set of images, workers and API  *)
(* processes, every batch size, attempt limit, idle threshold and bound.   *)
(***************************************************************************)
EXTENDS IndexingPipeline, FiniteSetTheorems, WellFoundedInduction,
        SequenceTheorems, TLAPS

\* The first element of a non-empty set of numbers is one of its elements.
LEMMA FirstProperties ==
  ASSUME NEW S, S \in SUBSET Nat, S # {}
  PROVE  /\ First(S) \in S
         /\ \A n \in S : First(S) <= n
<1> DEFINE R == OpToRel(<, Nat)
<1>1. IsWellFoundedOn(R, Nat)
  BY NatLessThanWellFounded
<1>2. PICK x \in S : \A y \in S : ~(<<y, x>> \in R)
  <2> HIDE DEF R
  <2> QED  BY <1>1, WFMin
<1>3. ASSUME NEW y \in S PROVE x <= y
  <2>1. R = {ss \in Nat \X Nat : ss[1] < ss[2]}
    BY DEF OpToRel
  <2>2. y < x => <<y, x>> \in R
    <3> HIDE DEF R
    <3> QED  BY <2>1
  <2>3. ~(y < x)
    BY <2>2, <1>2
  <2> QED
    BY <2>3
<1> QED
  BY <1>3 DEF First

\* The k oldest elements of a non-empty set of numbers are some of them.
LEMMA OldestProperties ==
  ASSUME NEW S, S \in SUBSET Nat, NEW k \in Nat \ {0}
  PROVE  /\ Oldest(S, k) \subseteq S
         /\ S # {} => Oldest(S, k) # {}
<1>1. Oldest(S, k) \subseteq S
  BY DEF Oldest
<1>2. ASSUME S # {} PROVE Oldest(S, k) # {}
  <2> DEFINE f == First(S)
  <2>1. f \in S /\ \A n \in S : f <= n
    BY <1>2, FirstProperties
  <2> HIDE DEF f
  <2>2. {n \in S : n < f} = {}
    <3>1. \A n \in S : n \in Nat /\ ~(n < f)
      BY <2>1
    <3> QED
      BY <3>1, Zenon
  <2>3. Cardinality({n \in S : n < f}) = 0
    BY <2>2, FS_EmptySet
  <2>4. f \in Oldest(S, k)
    BY <2>1, <2>3 DEF Oldest
  <2> QED
    BY <2>4
<1> QED
  BY <1>1, <1>2

-----------------------------------------------------------------------------
(* Facts used by several actions.                                          *)

\* The bounds and caps are natural numbers, and all but two are positive.
LEMMA ConstantFacts ==
  /\ MaxMessages \in Nat /\ BatchSize \in Nat \ {0} /\ MaxAttempts \in Nat \ {0}
  /\ MinIdle \in Nat \ {0} /\ MaxCrashes \in Nat
  /\ Images \subseteq Nat
  /\ CountCap \in Nat \ {0} /\ DlqCap \in Nat \ {0} /\ RejectionCap \in Nat \ {0}
  /\ FailureCap \in Nat \ {0}
<1>1. Cardinality(Workers) \in Nat
  BY PipelineAssumption, FS_CardinalityType
<1> QED
  BY <1>1, QueueAssumption, PipelineAssumption, ImagesAssumption
  DEF CountCap, DlqCap, RejectionCap, FailureCap

\* A capped counter, incremented, stays under its cap and is not zero.
LEMMA CappedIncrement ==
  ASSUME NEW cap \in Nat \ {0}, NEW n \in 0..cap
  PROVE  Capped(n + 1, cap) \in 0..cap /\ Capped(n + 1, cap) > 0
BY DEF Capped

\* The message a worker turns to next belongs to its batch.
LEMMA FirstMessage ==
  ASSUME NEW S, S \in SUBSET MsgId, S # {}
  PROVE  First(S) \in S
<1>1. S \in SUBSET Nat
  BY DEF MsgId
<1> QED
  BY <1>1, FirstProperties

\* The message a busy worker is handling was delivered, and names an image.
LEMMA CurrentFacts ==
  ASSUME IInv, NEW w \in Workers, pc[w] \in Busy
  PROVE  /\ Current(w) \in todo[w]
         /\ Current(w) \in 1..cursor
         /\ Current(w) \in MsgId
         /\ Current(w) \in 1..Len(stream)
         /\ stream[Current(w)] \in Images
<1>1. todo[w] \in SUBSET MsgId /\ todo[w] # {} /\ todo[w] \subseteq 1..cursor
  BY DEF IInv, TypeOK, WorkerInv
<1>2. Current(w) \in todo[w]
  BY <1>1, FirstMessage DEF Current
<1>3. stream \in Seq(Images) /\ cursor \in 0..Len(stream)
  BY DEF IInv, TypeOK, StreamTypeOK
<1>4. Current(w) \in 1..Len(stream)
  BY <1>1, <1>2, <1>3
<1>5. stream[Current(w)] \in Images
  BY <1>3, <1>4
<1> QED
  BY <1>1, <1>2, <1>4, <1>5

\* A worker that does not move is disturbed by no other step.
LEMMA OtherWorker ==
  ASSUME NEW w \in Workers, WorkerInv(w),
         TypeOK,
         todo'[w] = todo[w], pc'[w] = pc[w], count'[w] = count[w],
         committed \subseteq committed', cursor' \in Nat, cursor' >= cursor,
         \A m \in MsgId : dlq[m] > 0 => dlq'[m] > 0
  PROVE  WorkerInv(w)'
<1>1. todo[w] \in SUBSET MsgId /\ cursor \in Nat
  BY DEF TypeOK, StreamTypeOK
<1>2. todo'[w] \subseteq 1..cursor'
  BY <1>1 DEF WorkerInv
<1>3. Current(w)' = Current(w)
  BY DEF Current
<1>4. pc[w] = "ackDead" => Current(w) \in MsgId
  BY <1>1, FirstMessage DEF WorkerInv, Current, Busy
<1> QED
  BY <1>2, <1>3, <1>4 DEF WorkerInv, Uncounted

-----------------------------------------------------------------------------
(* Type correctness is preserved: the commands of the stream first.        *)

\* An XACK keeps the stream's types.
LEMMA XAckType ==
  ASSUME StreamTypeOK, NEW m \in MsgId, XAck(m)
  PROVE  StreamTypeOK'
BY ConstantFacts DEF StreamTypeOK, XAck

\* An XAUTOCLAIM keeps the stream's types.
LEMMA XAutoClaimType ==
  ASSUME StreamTypeOK, NEW S, XAutoClaim(S)
  PROVE  StreamTypeOK'
<1>1. ASSUME NEW m \in MsgId PROVE Capped(deliveries[m] + 1, CountCap) \in 0..CountCap
  <2>1. deliveries[m] \in 0..CountCap
    BY DEF StreamTypeOK
  <2> QED
    BY <2>1, ConstantFacts, CappedIncrement
<1> QED
  BY <1>1, ConstantFacts DEF StreamTypeOK, XAutoClaim

\* An XREADGROUP moves the cursor forward, over the messages it returns.
LEMMA XReadGroupType ==
  ASSUME StreamTypeOK, XReadGroup
  PROVE  /\ StreamTypeOK'
         /\ cursor' >= cursor /\ cursor' \in Nat
         /\ Unread = cursor + 1 .. cursor'
         /\ Unread \subseteq MsgId
<1>1. ReadUpTo \in cursor..Len(stream)
  BY ConstantFacts DEF StreamTypeOK, ReadUpTo, Capped
<1>2. Unread \subseteq MsgId
  BY <1>1, ConstantFacts DEF StreamTypeOK, Unread, MsgId
<1> QED
  BY <1>1, <1>2, ConstantFacts DEF StreamTypeOK, XReadGroup, Unread

\* An XADD keeps the stream's types and makes it one longer.
LEMMA XAddType ==
  ASSUME StreamTypeOK, NEW i \in Images, XAdd(i)
  PROVE  StreamTypeOK' /\ Len(stream') = Len(stream) + 1
<1>1. /\ Append(stream, i) \in Seq(Images)
      /\ Len(Append(stream, i)) = Len(stream) + 1
  BY AppendProperties DEF StreamTypeOK
<1> QED
  BY <1>1, ConstantFacts DEF StreamTypeOK, XAdd

\* A dead-letter XADD leaves its message, and those before it, in the stream.
LEMMA XAddDeadLetterType ==
  ASSUME StreamTypeOK, NEW m \in MsgId, XAddDeadLetter(m)
  PROVE  StreamTypeOK' /\ dlq'[m] > 0 /\ \A n \in MsgId : dlq[n] > 0 => dlq'[n] > 0
<1>1. Capped(dlq[m] + 1, DlqCap) \in 0..DlqCap /\ Capped(dlq[m] + 1, DlqCap) > 0
  <2>1. dlq[m] \in 0..DlqCap
    BY DEF StreamTypeOK
  <2> QED
    BY <2>1, ConstantFacts, CappedIncrement
<1> QED
  BY <1>1, ConstantFacts DEF StreamTypeOK, XAddDeadLetter

\* Time keeps the stream's types.
LEMMA TickType ==
  ASSUME StreamTypeOK, Tick
  PROVE  StreamTypeOK'
<1>1. ASSUME NEW m \in MsgId PROVE Capped(age[m] + 1, MinIdle) \in 0..MinIdle
  <2>1. age[m] \in 0..MinIdle
    BY DEF StreamTypeOK
  <2> QED
    BY <2>1, ConstantFacts, CappedIncrement
<1> QED
  BY <1>1, ConstantFacts DEF StreamTypeOK, Tick

\* An indexing transaction keeps the types of the tables.
LEMMA IndexImageType ==
  ASSUME IndexTypeOK, NEW i \in Images, NEW v \in Versions, IndexImage(i, v)
  PROVE  IndexTypeOK'
<1>1. embeddings' \subseteq UNION {EmbeddingsOf(j, u) : j \in Images, u \in Versions}
  BY DEF IndexTypeOK, IndexImage
<1>2. status' \in [Images -> IndexStatus]
  BY DEF IndexTypeOK, IndexImage, IndexStatus
<1>3. rejections' \in [Images -> 0..RejectionCap]
  BY DEF IndexTypeOK, IndexImage, RejectionCap
<1> QED
  BY <1>1, <1>2, <1>3 DEF IndexTypeOK

-----------------------------------------------------------------------------
(* What the moves of one worker do to the workers' own variables.          *)

WorkerTypeOK ==
  /\ pc \in [Workers -> Idling \cup Busy]
  /\ todo \in [Workers -> SUBSET MsgId]
  /\ count \in [Workers -> [MsgId -> 0..CountCap]]

\* Only worker w moves.
OnlyMoves(w) == \A u \in Workers \ {w} :
  pc'[u] = pc[u] /\ todo'[u] = todo[u] /\ count'[u] = count[u]

\* If one worker moves, and rightly, all the workers stand rightly.
LEMMA AllWorkersInv ==
  ASSUME IInv, NEW w \in Workers, OnlyMoves(w), WorkerInv(w)',
         committed \subseteq committed', cursor' \in Nat, cursor' >= cursor,
         \A m \in MsgId : dlq[m] > 0 => dlq'[m] > 0
  PROVE  \A u \in Workers : WorkerInv(u)'
<1>1. TAKE u \in Workers
<1>2. CASE u = w
  BY <1>2
<1>3. CASE u # w
  BY <1>3, OtherWorker DEF IInv, OnlyMoves
<1> QED
  BY <1>2, <1>3

\* The same for a step that reads nothing new.
LEMMA AllWorkersInvSameCursor ==
  ASSUME IInv, NEW w \in Workers, OnlyMoves(w), WorkerInv(w)',
         cursor' = cursor, committed \subseteq committed',
         \A m \in MsgId : dlq[m] > 0 => dlq'[m] > 0
  PROVE  \A u \in Workers : WorkerInv(u)'
<1>1. cursor' \in Nat /\ cursor' >= cursor
  BY DEF IInv, TypeOK, StreamTypeOK
<1> QED
  BY <1>1, AllWorkersInv

\* A worker that changes its label alone disturbs nobody.
LEMMA GoToKeeps ==
  ASSUME WorkerTypeOK, NEW w \in Workers, NEW l \in Idling \cup Busy,
         GoTo(w, l), UNCHANGED <<todo, count>>
  PROVE  WorkerTypeOK' /\ OnlyMoves(w) /\ pc'[w] = l
BY DEF WorkerTypeOK, OnlyMoves, GoTo

\* A worker that takes a batch of delivered messages stands rightly.
LEMMA TakeKeeps ==
  ASSUME WorkerTypeOK, NEW w \in Workers, NEW S \in SUBSET MsgId,
         S # {}, S \subseteq 1..cursor', Take(w, S)
  PROVE  WorkerTypeOK' /\ OnlyMoves(w) /\ WorkerInv(w)'
<1>1. NoCount \in [MsgId -> 0..CountCap]
  BY ConstantFacts DEF NoCount
<1>2. WorkerTypeOK' /\ OnlyMoves(w)
  BY <1>1 DEF WorkerTypeOK, OnlyMoves, Take, GoTo, Busy
<1>3. pc'[w] = "count" /\ todo'[w] = S /\ count'[w] = NoCount
  BY DEF WorkerTypeOK, Take, GoTo
<1>4. Uncounted(w)' = S
  BY <1>3 DEF Uncounted, NoCount
<1> QED
  BY <1>2, <1>3, <1>4 DEF WorkerInv

\* A worker that advances to its next message stands rightly.
LEMMA AdvanceKeeps ==
  ASSUME IInv, NEW w \in Workers, pc[w] \in Busy, Advance(w), cursor' = cursor
  PROVE  WorkerTypeOK' /\ OnlyMoves(w) /\ WorkerInv(w)'
<1>1. WorkerTypeOK /\ Current(w) \in MsgId /\ Current(w) \in todo[w]
  BY CurrentFacts DEF IInv, TypeOK, WorkerTypeOK
<1>2. WorkerTypeOK'
  <2>1. pc' \in [Workers -> Idling \cup Busy]
    BY <1>1 DEF WorkerTypeOK, Advance, GoTo, Idling, Busy
  <2>2. todo' \in [Workers -> SUBSET MsgId]
    BY <1>1 DEF WorkerTypeOK, Advance
  <2>3. count' \in [Workers -> [MsgId -> 0..CountCap]]
    BY <1>1, ConstantFacts DEF WorkerTypeOK, Advance
  <2> QED
    BY <2>1, <2>2, <2>3 DEF WorkerTypeOK
<1>3. OnlyMoves(w)
  BY <1>1 DEF WorkerTypeOK, OnlyMoves, Advance, GoTo
<1>4. /\ todo'[w] = todo[w] \ {Current(w)}
      /\ pc'[w] = IF todo[w] = {Current(w)} THEN "poll" ELSE "process"
  BY <1>1 DEF WorkerTypeOK, Advance, GoTo
<1>5. todo'[w] \subseteq 1..cursor'
  BY <1>4 DEF IInv, WorkerInv
<1>6. pc'[w] = "process" => todo'[w] # {}
  BY <1>1, <1>4
<1> QED
  BY <1>2, <1>3, <1>4, <1>5, <1>6 DEF WorkerInv, Busy

-----------------------------------------------------------------------------
(* What the commands do to the pending entries and to the closed messages. *)

\* An XACK closes its message and opens no other.
LEMMA XAckClosed ==
  ASSUME StreamTypeOK, NEW m \in MsgId, m \in 1..cursor, XAck(m)
  PROVE  Closed' = Closed \cup {m} /\ Pending' \subseteq Pending
<1>1. deliveries'[m] = 0 /\ cursor' = cursor
  BY DEF StreamTypeOK, XAck
<1>2. \A n \in MsgId : n # m => deliveries'[n] = deliveries[n]
  BY DEF StreamTypeOK, XAck
<1>3. 1..cursor \subseteq MsgId
  BY ConstantFacts DEF StreamTypeOK, MsgId
<1>4. Closed' = Closed \cup {m}
  BY <1>1, <1>2, <1>3 DEF Closed
<1>5. ASSUME NEW n \in Pending' PROVE n \in Pending
  <2>1. n \in MsgId /\ deliveries'[n] > 0
    BY DEF Pending
  <2>2. n # m
    BY <1>1, <2>1
  <2> QED
    BY <1>2, <2>1, <2>2 DEF Pending
<1> QED
  BY <1>4, <1>5

\* An XAUTOCLAIM of pending entries closes none and opens none.
LEMMA XAutoClaimClosed ==
  ASSUME StreamTypeOK, NEW S, S \subseteq Pending, XAutoClaim(S)
  PROVE  Closed' = Closed /\ Pending' = Pending /\ cursor' = cursor
<1>1. ASSUME NEW m \in MsgId PROVE deliveries'[m] > 0 <=> deliveries[m] > 0
  <2>1. deliveries[m] \in 0..CountCap
    BY DEF StreamTypeOK
  <2>2. Capped(deliveries[m] + 1, CountCap) > 0
    BY <2>1, ConstantFacts, CappedIncrement
  <2>3. m \in S => deliveries[m] > 0
    BY DEF Pending
  <2> QED
    BY <2>1, <2>2, <2>3 DEF XAutoClaim
<1>2. \A m \in MsgId : deliveries[m] \in Nat /\ deliveries'[m] \in Nat
  BY XAutoClaimType, ConstantFacts DEF StreamTypeOK
<1>3. 1..cursor \subseteq MsgId /\ cursor' = cursor
  BY ConstantFacts DEF StreamTypeOK, MsgId, XAutoClaim
<1> QED
  BY <1>1, <1>2, <1>3 DEF Closed, Pending

\* An XREADGROUP delivers messages past the cursor, closed or pending before it.
LEMMA XReadGroupClosed ==
  ASSUME StreamTypeOK, Pending \subseteq 1..cursor, XReadGroup
  PROVE  Closed' = Closed /\ Pending' \subseteq 1..cursor'
<1>1. /\ cursor \in Nat /\ cursor' \in Nat /\ cursor <= cursor'
      /\ Unread = cursor + 1 .. cursor' /\ Unread \subseteq MsgId
  BY XReadGroupType DEF StreamTypeOK
<1>2. \A m \in MsgId : deliveries'[m] = IF m \in Unread THEN 1 ELSE deliveries[m]
  BY DEF XReadGroup
<1>3. 1..cursor' \subseteq MsgId
  BY XReadGroupType, ConstantFacts DEF StreamTypeOK, MsgId
<1>4. Closed' = Closed
  BY <1>1, <1>2, <1>3 DEF Closed
<1>5. ASSUME NEW m \in Pending' PROVE m \in 1..cursor'
  <2>1. m \in MsgId /\ deliveries'[m] > 0
    BY DEF Pending
  <2>2. CASE m \in Unread
    BY <1>1, <2>2
  <2>3. CASE m \notin Unread
    <3>1. m \in Pending
      BY <1>2, <2>1, <2>3 DEF Pending
    <3> QED
      BY <1>1, <3>1
  <2> QED
    BY <2>2, <2>3
<1> QED
  BY <1>4, <1>5

\* Steps that leave the group and the history alone keep what depends on them.
LEMMA SameGroup ==
  ASSUME IInv, UNCHANGED <<cursor, deliveries, dlq, committed>>
  PROVE  DeliveredInv' /\ NothingLost'
BY DEF IInv, DeliveredInv, NothingLost, Closed, Pending

-----------------------------------------------------------------------------
(* Every action preserves the inductive invariant.                         *)

\* The invariant holds at the start.
LEMMA InitInv == Init => IInv
<1> SUFFICES ASSUME Init PROVE IInv
  OBVIOUS
<1>1. StreamTypeOK
  BY ConstantFacts, EmptySeq DEF Init, StreamInit, StreamTypeOK
<1>2. IndexTypeOK
  BY ConstantFacts DEF Init, IndexInit, IndexTypeOK, IndexStatus
<1>3. TypeOK
  BY <1>1, <1>2, ConstantFacts
  DEF Init, TypeOK, NoCount, Idling
<1>4. Pending = {} /\ Closed = {}
  BY <1>1, ConstantFacts DEF Init, StreamInit, Pending, Closed
<1> QED
  BY <1>3, <1>4 DEF Init, IInv, WorkerInv, DeliveredInv, NothingLost, Busy

\* Selecting, publishing and giving up change nothing the workers hold.
LEMMA TriggerInv ==
  ASSUME IInv, NEW t \in Triggers, TriggerStep(t)
  PROVE  IInv'
<1>1. toPublish' \in [Triggers -> SUBSET Images] /\ StreamTypeOK'
  <2>1. CASE SelectImages(t)
    <3>1. Oldest(NeedsIndexing(TriggerVersion), BatchLimit) \subseteq Images
      BY DEF Oldest, NeedsIndexing
    <3> QED
      BY <2>1, <3>1 DEF SelectImages, IInv, TypeOK, StreamTypeOK, streamVars
  <2>2. CASE PublishImage(t)
    <3>1. First(toPublish[t]) \in Images
      BY <2>2, FirstProperties, ConstantFacts DEF PublishImage, IInv, TypeOK
    <3> QED
      BY <2>2, <3>1, XAddType DEF PublishImage, IInv, TypeOK
  <2>3. CASE AbandonRequest(t)
    BY <2>3 DEF AbandonRequest, IInv, TypeOK, StreamTypeOK, streamVars
  <2> QED
    BY <2>1, <2>2, <2>3 DEF TriggerStep
<1>2. UNCHANGED <<indexVars, workerVars, crashes, historyVars, cursor, deliveries, dlq>>
  BY DEF TriggerStep, SelectImages, PublishImage, AbandonRequest, streamVars, XAdd
<1>3. TypeOK'
  BY <1>1, <1>2 DEF IInv, TypeOK, IndexTypeOK, indexVars, workerVars, historyVars
<1>4. \A w \in Workers : WorkerInv(w)'
  BY <1>2 DEF IInv, WorkerInv, Uncounted, Current, workerVars, historyVars
<1> QED
  BY <1>2, <1>3, <1>4, SameGroup DEF IInv, historyVars

\* The passing of time preserves the invariant.
LEMMA TimeInv ==
  ASSUME IInv, TimePasses
  PROVE  IInv'
<1>1. StreamTypeOK'
  BY TickType DEF TimePasses, IInv, TypeOK
<1>2. UNCHANGED <<indexVars, workerVars, toPublish, crashes, historyVars, cursor, deliveries, dlq>>
  BY DEF TimePasses, Tick
<1>3. TypeOK'
  BY <1>1, <1>2 DEF IInv, TypeOK, IndexTypeOK, indexVars, workerVars, historyVars
<1>4. \A w \in Workers : WorkerInv(w)'
  BY <1>2 DEF IInv, WorkerInv, Uncounted, Current, workerVars, historyVars
<1> QED
  BY <1>2, <1>3, <1>4, SameGroup DEF IInv, historyVars

\* The type of the variables other than a worker's, when they do not change.
LEMMA TypeFromParts ==
  ASSUME IInv, StreamTypeOK', IndexTypeOK', WorkerTypeOK', UNCHANGED toPublish,
         crashes' \in 0..MaxCrashes, committed' \subseteq MsgId,
         failures' \in [MsgId -> 0..FailureCap]
  PROVE  TypeOK'
BY DEF IInv, TypeOK, WorkerTypeOK

\* A step that leaves the tables, the triggers and the history keeps their types.
LEMMA TypeUnchanged ==
  ASSUME IInv, StreamTypeOK', WorkerTypeOK',
         UNCHANGED <<indexVars, toPublish, crashes, historyVars>>
  PROVE  TypeOK'
BY TypeFromParts DEF IInv, TypeOK, IndexTypeOK, indexVars, historyVars

\* XAUTOCLAIM: the batch is made of delivered messages.
LEMMA ReclaimInv ==
  ASSUME IInv, NEW w \in Workers, Reclaim(w)
  PROVE  IInv'
<1> DEFINE S == Oldest(Reclaimable, BatchSize)
<1>1. S \subseteq Pending /\ S # {} /\ S \in SUBSET MsgId
  <2>1. Reclaimable \subseteq Pending /\ Pending \subseteq MsgId /\ Reclaimable \in SUBSET Nat
    BY DEF Reclaimable, Pending, MsgId
  <2> QED
    BY <2>1, OldestProperties, ConstantFacts DEF Reclaim
<1>2. XAutoClaim(S) /\ Take(w, S) /\ StreamTypeOK
      /\ UNCHANGED <<indexVars, toPublish, crashes, historyVars>>
  BY DEF Reclaim, IInv, TypeOK
<1> HIDE DEF S
<1>3. Closed' = Closed /\ Pending' = Pending /\ cursor' = cursor
  BY <1>1, <1>2, XAutoClaimClosed
<1>4. StreamTypeOK'
  BY <1>2, XAutoClaimType
<1>5. WorkerTypeOK' /\ OnlyMoves(w) /\ WorkerInv(w)'
  BY <1>1, <1>2, <1>3, TakeKeeps DEF IInv, TypeOK, WorkerTypeOK, DeliveredInv
<1>6. TypeOK'
  BY <1>2, <1>4, <1>5, TypeUnchanged
<1>7. \A u \in Workers : WorkerInv(u)'
  BY <1>2, <1>3, <1>4, <1>5, AllWorkersInv DEF XAutoClaim, historyVars, StreamTypeOK
<1> QED
  BY <1>2, <1>3, <1>6, <1>7 DEF IInv, DeliveredInv, NothingLost, XAutoClaim, historyVars

\* XREADGROUP: so is this one, the cursor has moved over it.
LEMMA ReadNewInv ==
  ASSUME IInv, NEW w \in Workers, ReadNew(w)
  PROVE  IInv'
<1>1. XReadGroup /\ Take(w, Unread) /\ Unread # {} /\ StreamTypeOK
      /\ UNCHANGED <<indexVars, toPublish, crashes, historyVars>>
  BY DEF ReadNew, IInv, TypeOK
<1>2. StreamTypeOK' /\ cursor' >= cursor /\ cursor' \in Nat /\ cursor \in Nat
      /\ Unread = cursor + 1 .. cursor' /\ Unread \subseteq MsgId
  BY <1>1, XReadGroupType DEF StreamTypeOK
<1>3. Closed' = Closed /\ Pending' \subseteq 1..cursor'
  BY <1>1, XReadGroupClosed DEF IInv, DeliveredInv
<1>4. WorkerTypeOK' /\ OnlyMoves(w) /\ WorkerInv(w)'
  <2>1. Unread \subseteq 1..cursor'
    BY <1>2
  <2> QED
    BY <1>1, <1>2, <2>1, TakeKeeps DEF IInv, TypeOK, WorkerTypeOK
<1>5. TypeOK'
  BY <1>1, <1>2, <1>4, TypeUnchanged
<1>6. UNCHANGED <<committed, dlq>>
  BY <1>1 DEF XReadGroup, historyVars
<1>7. \A u \in Workers : WorkerInv(u)'
  BY <1>2, <1>4, <1>6, AllWorkersInv
<1>8. committed' \subseteq 1..cursor'
  BY <1>2, <1>6 DEF IInv, DeliveredInv
<1> QED
  BY <1>3, <1>5, <1>6, <1>7, <1>8 DEF IInv, DeliveredInv, NothingLost

\* Reading a delivery count leaves the worker with its batch.
LEMMA CaptureCountInv ==
  ASSUME IInv, NEW w \in Workers, CaptureCount(w)
  PROVE  IInv'
<1> DEFINE m == First(Uncounted(w))
<1>1. Uncounted(w) # {} /\ Uncounted(w) \in SUBSET MsgId /\ pc[w] = "count"
  BY DEF CaptureCount, IInv, WorkerInv, TypeOK, Uncounted
<1>2. m \in Uncounted(w) /\ m \in MsgId
  BY <1>1, FirstMessage
<1>3. DeliveryCount(m) \in 1..CountCap
  BY <1>2, ConstantFacts DEF DeliveryCount, IInv, TypeOK, StreamTypeOK
<1>4. /\ count' = [count EXCEPT ![w][m] = DeliveryCount(m)]
      /\ GoTo(w, IF Uncounted(w) = {m} THEN "process" ELSE "count")
      /\ todo' = todo
      /\ UNCHANGED <<streamVars, indexVars, toPublish, crashes, historyVars>>
  BY DEF CaptureCount
<1> HIDE DEF m
<1>5. WorkerTypeOK
  BY DEF IInv, TypeOK, WorkerTypeOK
<1>6. WorkerTypeOK' /\ OnlyMoves(w)
  <2>1. pc' \in [Workers -> Idling \cup Busy]
    BY <1>4, <1>5 DEF WorkerTypeOK, GoTo, Busy
  <2>2. count' \in [Workers -> [MsgId -> 0..CountCap]]
    BY <1>2, <1>3, <1>4, <1>5, ConstantFacts DEF WorkerTypeOK
  <2> QED
    BY <1>4, <1>5, <2>1, <2>2 DEF WorkerTypeOK, OnlyMoves, GoTo
<1>7. pc'[w] = IF Uncounted(w) = {m} THEN "process" ELSE "count"
  BY <1>4, <1>5 DEF WorkerTypeOK, GoTo
<1>8. Uncounted(w)' = Uncounted(w) \ {m}
  <2>1. \A n \in MsgId : count'[w][n] = IF n = m THEN DeliveryCount(m) ELSE count[w][n]
    BY <1>2, <1>4, <1>5 DEF WorkerTypeOK
  <2>2. todo[w] \subseteq MsgId /\ DeliveryCount(m) # 0
    BY <1>3, <1>5 DEF WorkerTypeOK
  <2> QED
    BY <1>4, <2>1, <2>2 DEF Uncounted
<1>9. WorkerInv(w)'
  <2>1. cursor' = cursor /\ todo'[w] = todo[w]
    BY <1>4 DEF streamVars
  <2>2. todo[w] \subseteq 1..cursor /\ todo[w] # {}
    BY <1>1 DEF IInv, WorkerInv, Busy
  <2>3. pc'[w] = "count" => Uncounted(w)' # {}
    BY <1>2, <1>7, <1>8
  <2>4. pc'[w] \in {"process", "count"}
    BY <1>7
  <2> QED
    BY <2>1, <2>2, <2>3, <2>4 DEF WorkerInv
<1>10. \A u \in Workers : WorkerInv(u)'
  BY <1>4, <1>6, <1>9, AllWorkersInv
  DEF streamVars, historyVars, IInv, TypeOK, StreamTypeOK
<1>11. TypeOK'
  BY <1>4, <1>6, TypeUnchanged DEF IInv, TypeOK, StreamTypeOK, streamVars
<1> QED
  BY <1>4, <1>10, <1>11, SameGroup DEF IInv, streamVars, historyVars

\* Moves that touch nothing but the worker's place in the loop.
LEMMA QuietMoveInv ==
  ASSUME IInv, NEW w \in Workers, NEW l \in Idling \cup {"process", "except"},
         GoTo(w, l), UNCHANGED <<streamVars, todo, count, toPublish, crashes, committed>>,
         IndexTypeOK', failures' \in [MsgId -> 0..FailureCap],
         l = "except" => todo[w] # {}, l = "process" => todo[w] # {}
  PROVE  IInv'
<1>1. WorkerTypeOK' /\ OnlyMoves(w) /\ pc'[w] = l
  BY GoToKeeps DEF IInv, TypeOK, WorkerTypeOK, Busy
<1>2. WorkerInv(w)'
  BY <1>1 DEF IInv, WorkerInv, streamVars, Busy, Idling
<1>3. \A u \in Workers : WorkerInv(u)'
  BY <1>1, <1>2, AllWorkersInv DEF streamVars, IInv, TypeOK, StreamTypeOK
<1>4. TypeOK'
  BY <1>1, TypeFromParts DEF IInv, TypeOK, StreamTypeOK, streamVars
<1> QED
  BY <1>3, <1>4, SameGroup DEF IInv, streamVars

\* A read that returns nothing leaves the worker without a batch.
LEMMA NothingReadInv ==
  ASSUME IInv, NEW w \in Workers, NothingToReclaim(w) \/ NothingNew(w)
  PROVE  IInv'
<1>1. PICK l \in Idling : GoTo(w, l)
  BY DEF NothingToReclaim, NothingNew, Idling
<1>2. UNCHANGED <<streamVars, indexVars, todo, count, toPublish, crashes, historyVars>>
  BY DEF NothingToReclaim, NothingNew
<1>3. IndexTypeOK' /\ failures' \in [MsgId -> 0..FailureCap]
  BY <1>2 DEF IInv, TypeOK, IndexTypeOK, indexVars, historyVars
<1>4. l # "except" /\ l # "process"
  BY DEF Idling
<1> QED
  BY <1>1, <1>2, <1>3, <1>4, QuietMoveInv DEF historyVars

\* Recording a failed attempt keeps the type of the counters.
LEMMA FailsType ==
  ASSUME IInv, NEW w \in Workers, pc[w] \in Busy, Fails(w)
  PROVE  failures' \in [MsgId -> 0..FailureCap]
<1>1. Current(w) \in MsgId /\ failures \in [MsgId -> 0..FailureCap]
  BY CurrentFacts DEF IInv, TypeOK
<1>2. failures[Current(w)] \in 0..FailureCap
  BY <1>1
<1>3. Capped(failures[Current(w)] + 1, FailureCap) \in 0..FailureCap
  BY <1>2, ConstantFacts, CappedIncrement
<1> QED
  BY <1>1, <1>3 DEF Fails

\* A failed attempt changes the failure count and the worker's label.
LEMMA ProcessOneFailsInv ==
  ASSUME IInv, NEW w \in Workers, ProcessOneFails(w)
  PROVE  IInv'
<1>1. /\ pc[w] \in Busy /\ Fails(w) /\ GoTo(w, "except") /\ todo[w] # {}
      /\ UNCHANGED <<streamVars, indexVars, todo, count, toPublish, crashes, committed>>
  BY DEF ProcessOneFails, Fails, Busy, IInv, WorkerInv
<1>2. IndexTypeOK'
  BY <1>1 DEF IInv, TypeOK, IndexTypeOK, indexVars
<1>3. failures' \in [MsgId -> 0..FailureCap]
  BY <1>1, FailsType
<1> QED
  BY <1>1, <1>2, <1>3, QuietMoveInv

\* After its transaction a worker may acknowledge: the message is committed.
LEMMA ProcessOneInv ==
  ASSUME IInv, NEW w \in Workers, ProcessOne(w)
  PROVE  IInv'
<1> DEFINE m == Current(w)
<1>1. /\ pc[w] \in Busy /\ GoTo(w, "ack") /\ todo[w] # {}
      /\ IndexImage(stream[m], WorkerVersion[w])
      /\ committed' = committed \cup {m}
      /\ UNCHANGED <<streamVars, todo, count, toPublish, crashes, failures>>
  BY DEF ProcessOne, Busy, IInv, WorkerInv
<1>2. m \in MsgId /\ m \in 1..cursor /\ stream[m] \in Images
  BY <1>1, CurrentFacts
<1>3. Current(w)' = m
  BY <1>1 DEF Current
<1> HIDE DEF m
<1>4. WorkerTypeOK' /\ OnlyMoves(w) /\ pc'[w] = "ack"
  BY <1>1, GoToKeeps DEF IInv, TypeOK, WorkerTypeOK, Busy
<1>5. WorkerInv(w)'
  BY <1>1, <1>3, <1>4 DEF IInv, WorkerInv, streamVars
<1>6. IndexTypeOK'
  BY <1>1, <1>2, IndexImageType, PipelineAssumption DEF IInv, TypeOK
<1>7. TypeOK'
  BY <1>1, <1>2, <1>4, <1>6, TypeFromParts DEF IInv, TypeOK, StreamTypeOK, streamVars
<1>8. \A u \in Workers : WorkerInv(u)'
  BY <1>1, <1>4, <1>5, AllWorkersInvSameCursor DEF streamVars
<1>9. Closed' = Closed /\ Pending' = Pending
  BY <1>1 DEF streamVars, Closed, Pending
<1> QED
  BY <1>1, <1>2, <1>7, <1>8, <1>9 DEF IInv, DeliveredInv, NothingLost, streamVars

\* XACK of a message that has been indexed or dead-lettered, then on.
LEMMA AckAdvanceInv ==
  ASSUME IInv, NEW w \in Workers, pc[w] \in Busy,
         XAck(Current(w)), Advance(w),
         Current(w) \in committed \/ dlq[Current(w)] > 0,
         UNCHANGED <<indexVars, toPublish, crashes, historyVars>>
  PROVE  IInv'
<1> DEFINE m == Current(w)
<1>1. m \in MsgId /\ m \in 1..cursor
  BY CurrentFacts
<1>2. /\ XAck(m) /\ StreamTypeOK /\ (m \in committed \/ dlq[m] > 0)
      /\ UNCHANGED <<cursor, dlq, committed>>
  BY DEF IInv, TypeOK, XAck, historyVars
<1> HIDE DEF m
<1>3. StreamTypeOK' /\ Closed' = Closed \cup {m} /\ Pending' \subseteq Pending
  BY <1>1, <1>2, XAckType, XAckClosed
<1>4. WorkerTypeOK' /\ OnlyMoves(w) /\ WorkerInv(w)'
  BY <1>2, AdvanceKeeps
<1>5. TypeOK'
  BY <1>3, <1>4, TypeUnchanged
<1>6. \A u \in Workers : WorkerInv(u)'
  BY <1>2, <1>4, AllWorkersInvSameCursor
<1> QED
  BY <1>2, <1>3, <1>5, <1>6 DEF IInv, DeliveredInv, NothingLost

\* What is acknowledged is committed or dead-lettered.
LEMMA AcknowledgeInv ==
  ASSUME IInv, NEW w \in Workers, Acknowledge(w) \/ AcknowledgeDeadLetter(w)
  PROVE  IInv'
BY AckAdvanceInv
DEF Acknowledge, AcknowledgeDeadLetter, IInv, WorkerInv, Busy

\* So is what a failing acknowledgement may have acknowledged.
LEMMA AcknowledgeFailsInv ==
  ASSUME IInv, NEW w \in Workers, AcknowledgeFails(w)
  PROVE  IInv'
<1> DEFINE m == Current(w)
<1>1. /\ pc[w] \in Busy /\ Fails(w) /\ GoTo(w, "except") /\ todo[w] # {}
      /\ m \in committed
      /\ UNCHANGED <<indexVars, todo, count, toPublish, crashes, committed>>
  BY DEF AcknowledgeFails, Fails, Busy, IInv, WorkerInv
<1>2. m \in MsgId /\ m \in 1..cursor /\ StreamTypeOK
  BY <1>1, CurrentFacts DEF IInv, TypeOK
<1>3. IndexTypeOK' /\ failures' \in [MsgId -> 0..FailureCap]
  BY <1>1, FailsType DEF IInv, TypeOK, IndexTypeOK, indexVars
<1>4. CASE XAck(m)
  <2> HIDE DEF m
  <2>1. StreamTypeOK' /\ Closed' = Closed \cup {m} /\ Pending' \subseteq Pending
    BY <1>2, <1>4, XAckType, XAckClosed
  <2>2. WorkerTypeOK' /\ OnlyMoves(w) /\ pc'[w] = "except"
    BY <1>1, GoToKeeps DEF IInv, TypeOK, WorkerTypeOK, Busy
  <2>3. UNCHANGED <<cursor, dlq>>
    BY <1>4 DEF XAck
  <2>4. WorkerInv(w)'
    BY <1>1, <2>2, <2>3 DEF IInv, WorkerInv
  <2>5. TypeOK'
    BY <1>1, <1>3, <2>1, <2>2, TypeFromParts DEF IInv, TypeOK
  <2>6. \A u \in Workers : WorkerInv(u)'
    BY <1>1, <1>2, <2>2, <2>3, <2>4, AllWorkersInv DEF StreamTypeOK
  <2> QED
    BY <1>1, <2>1, <2>3, <2>5, <2>6 DEF IInv, DeliveredInv, NothingLost
<1>5. CASE UNCHANGED streamVars
  BY <1>1, <1>3, <1>5, QuietMoveInv
<1> QED
  BY <1>4, <1>5 DEF AcknowledgeFails

\* A message left for a retry stays pending.
LEMMA LeaveForRetryInv ==
  ASSUME IInv, NEW w \in Workers, LeaveForRetry(w)
  PROVE  IInv'
<1>1. /\ pc[w] \in Busy /\ Advance(w)
      /\ UNCHANGED <<streamVars, indexVars, toPublish, crashes, historyVars>>
      /\ UNCHANGED <<cursor, dlq, committed, deliveries>>
  BY DEF LeaveForRetry, Busy, streamVars, historyVars
<1>2. WorkerTypeOK' /\ OnlyMoves(w) /\ WorkerInv(w)'
  BY <1>1, AdvanceKeeps
<1>3. TypeOK'
  BY <1>1, <1>2, TypeUnchanged DEF IInv, TypeOK, StreamTypeOK, streamVars
<1>4. \A u \in Workers : WorkerInv(u)'
  BY <1>1, <1>2, AllWorkersInv DEF IInv, TypeOK, StreamTypeOK
<1> QED
  BY <1>1, <1>3, <1>4, SameGroup DEF IInv

\* After the dead-letter XADD a worker may acknowledge.
LEMMA DeadLetterInv ==
  ASSUME IInv, NEW w \in Workers, DeadLetter(w)
  PROVE  IInv'
<1> DEFINE m == Current(w)
<1>1. /\ pc[w] \in Busy /\ GoTo(w, "ackDead") /\ todo[w] # {}
      /\ XAddDeadLetter(m)
      /\ UNCHANGED <<indexVars, todo, count, toPublish, crashes, historyVars>>
  BY DEF DeadLetter, Busy, IInv, WorkerInv
<1>2. m \in MsgId /\ StreamTypeOK
  BY <1>1, CurrentFacts DEF IInv, TypeOK
<1>3. Current(w)' = m
  BY <1>1 DEF Current
<1> HIDE DEF m
<1>4. StreamTypeOK' /\ dlq'[m] > 0 /\ \A n \in MsgId : dlq[n] > 0 => dlq'[n] > 0
  BY <1>1, <1>2, XAddDeadLetterType
<1>5. UNCHANGED <<cursor, deliveries, committed>>
  BY <1>1 DEF XAddDeadLetter, historyVars
<1>6. WorkerTypeOK' /\ OnlyMoves(w) /\ pc'[w] = "ackDead"
  BY <1>1, GoToKeeps DEF IInv, TypeOK, WorkerTypeOK, Busy
<1>7. WorkerInv(w)'
  BY <1>1, <1>3, <1>4, <1>5, <1>6 DEF IInv, WorkerInv
<1>8. TypeOK'
  BY <1>1, <1>4, <1>6, TypeUnchanged
<1>9. \A u \in Workers : WorkerInv(u)'
  BY <1>4, <1>5, <1>6, <1>7, AllWorkersInvSameCursor
<1>10. Closed' = Closed /\ Pending' = Pending
  BY <1>5 DEF Closed, Pending
<1>11. Closed \subseteq MsgId
  BY <1>2, ConstantFacts DEF Closed, StreamTypeOK, MsgId
<1> QED
  BY <1>4, <1>5, <1>8, <1>9, <1>10, <1>11 DEF IInv, DeliveredInv, NothingLost

\* A death drops a batch and nothing else.
LEMMA CrashInv ==
  ASSUME IInv, NEW w \in Workers, Crash(w)
  PROVE  IInv'
<1>1. /\ todo' = [todo EXCEPT ![w] = {}] /\ count' = [count EXCEPT ![w] = NoCount]
      /\ pc' = [pc EXCEPT ![w] = "poll"]
      /\ crashes < MaxCrashes /\ crashes' = crashes + 1
      /\ UNCHANGED <<streamVars, indexVars, toPublish, historyVars>>
      /\ UNCHANGED <<cursor, deliveries, dlq, committed, failures>>
  BY DEF Crash, GoTo, streamVars, historyVars
<1>2. WorkerTypeOK' /\ OnlyMoves(w) /\ WorkerInv(w)'
  <2>1. NoCount \in [MsgId -> 0..CountCap]
    BY ConstantFacts DEF NoCount
  <2>2. WorkerTypeOK
    BY DEF IInv, TypeOK, WorkerTypeOK
  <2>3. todo' \in [Workers -> SUBSET MsgId] /\ todo'[w] = {}
    BY <1>1, <2>2 DEF WorkerTypeOK
  <2>4. count' \in [Workers -> [MsgId -> 0..CountCap]]
    BY <1>1, <2>1, <2>2 DEF WorkerTypeOK
  <2>5. pc' \in [Workers -> Idling \cup Busy] /\ pc'[w] = "poll"
    BY <1>1, <2>2 DEF WorkerTypeOK, Idling
  <2> QED
    BY <1>1, <2>2, <2>3, <2>4, <2>5
    DEF WorkerTypeOK, OnlyMoves, WorkerInv, Busy
<1>3. crashes' \in 0..MaxCrashes
  BY <1>1, ConstantFacts DEF IInv, TypeOK
<1>4. StreamTypeOK' /\ IndexTypeOK'
  BY <1>1 DEF IInv, TypeOK, StreamTypeOK, streamVars, IndexTypeOK, indexVars
<1>5. TypeOK'
  BY <1>1, <1>2, <1>3, <1>4, TypeFromParts DEF IInv, TypeOK
<1>6. \A u \in Workers : WorkerInv(u)'
  BY <1>1, <1>2, AllWorkersInvSameCursor
<1> QED
  BY <1>1, <1>5, <1>6, SameGroup DEF IInv

\* A stuttering step changes nothing the invariant mentions.
LEMMA StutterInv ==
  ASSUME IInv, UNCHANGED vars
  PROVE  IInv'
<1>1. UNCHANGED <<streamVars, indexVars, workerVars, toPublish, crashes, historyVars>>
  BY DEF vars
<1>2. TypeOK'
  BY <1>1 DEF IInv, TypeOK, StreamTypeOK, IndexTypeOK, streamVars, indexVars,
     workerVars, historyVars
<1>3. \A w \in Workers : WorkerInv(w)'
  BY <1>1 DEF IInv, WorkerInv, Uncounted, Current, streamVars, workerVars, historyVars
<1> QED
  BY <1>1, <1>2, <1>3, SameGroup DEF IInv, streamVars, historyVars

\* Every step preserves the invariant: one case per action.
LEMMA NextInv == IInv /\ [Next]_vars => IInv'
<1> SUFFICES ASSUME IInv, [Next]_vars PROVE IInv'
  OBVIOUS
<1>1. CASE \E t \in Triggers : TriggerStep(t)
  BY <1>1, TriggerInv
<1>2. ASSUME NEW w \in Workers, WorkerStep(w) PROVE IInv'
  <2>1. CASE Reclaim(w)
    BY <2>1, ReclaimInv
  <2>2. CASE ReadNew(w)
    BY <2>2, ReadNewInv
  <2>3. CASE NothingToReclaim(w) \/ NothingNew(w)
    BY <2>3, NothingReadInv
  <2>4. CASE CaptureCount(w)
    BY <2>4, CaptureCountInv
  <2>5. CASE ProcessOne(w)
    BY <2>5, ProcessOneInv
  <2>6. CASE ProcessOneFails(w)
    BY <2>6, ProcessOneFailsInv
  <2>7. CASE Acknowledge(w) \/ AcknowledgeDeadLetter(w)
    BY <2>7, AcknowledgeInv
  <2>8. CASE AcknowledgeFails(w)
    BY <2>8, AcknowledgeFailsInv
  <2>9. CASE LeaveForRetry(w)
    BY <2>9, LeaveForRetryInv
  <2>10. CASE DeadLetter(w)
    BY <2>10, DeadLetterInv
  <2> QED
    BY <1>2, <2>1, <2>2, <2>3, <2>4, <2>5, <2>6, <2>7, <2>8, <2>9, <2>10 DEF WorkerStep
<1>3. ASSUME NEW w \in Workers, Crash(w) PROVE IInv'
  BY <1>3, CrashInv
<1>4. CASE TimePasses
  BY <1>4, TimeInv
<1>5. CASE UNCHANGED vars
  BY <1>5, StutterInv
<1> QED
  BY <1>1, <1>2, <1>3, <1>4, <1>5 DEF Next

-----------------------------------------------------------------------------
(* The theorems.                                                           *)

\* The inductive invariant holds in every reachable state.
THEOREM InductiveInvariant == Spec => []IInv
<1> QED
  BY InitInv, NextInv, PTL DEF Spec

\* Every variable keeps its type, whatever the constants.
THEOREM TypeCorrectness == Spec => []TypeOK
<1>1. IInv => TypeOK
  BY DEF IInv
<1> QED
  BY <1>1, InductiveInvariant, PTL

\* No message leaves the pending list without its image having been indexed for
\* it or the message being in the dead-letter stream, for any number of
\* workers, deaths, retries and reclaims (NothingLost).
THEOREM NoMessageLost == Spec => []NothingLost
<1>1. IInv => NothingLost
  BY DEF IInv
<1> QED
  BY <1>1, InductiveInvariant, PTL

-----------------------------------------------------------------------------
(* SearchableOrSelected: the embeddings of an image for a model version are *)
(* written all together, and never removed.                                *)

AllOrNothing == \A i \in Images, v \in Versions :
  (\E e \in embeddings : e[1] = i /\ e[2] = v) => EmbeddingsOf(i, v) \subseteq embeddings

\* An indexing transaction writes the embeddings of one pair all together.
LEMMA AllOrNothingStep ==
  ASSUME AllOrNothing, NEW j \in Images, NEW u \in Versions, IndexImage(j, u)
  PROVE  AllOrNothing'
<1> SUFFICES ASSUME NEW i \in Images, NEW v \in Versions,
                    NEW e \in embeddings', e[1] = i, e[2] = v
             PROVE  EmbeddingsOf(i, v) \subseteq embeddings'
  BY DEF AllOrNothing, EmbeddingsOf
<1>1. embeddings' = embeddings \cup EmbeddingsOf(j, u)
  BY DEF IndexImage
<1>2. CASE e \in embeddings
  BY <1>1, <1>2 DEF AllOrNothing
<1>3. CASE e \in EmbeddingsOf(j, u)
  <2>1. i = j /\ v = u
    BY <1>3 DEF EmbeddingsOf
  <2> QED
    BY <1>1, <2>1
<1> QED
  BY <1>1, <1>2, <1>3

\* An image the trigger would skip is fully searchable for its model version,
\* whichever versions the workers run (SearchableOrSelected).
THEOREM NoImageForgotten == Spec => []SearchableOrSelected
<1>1. Init => AllOrNothing
  BY DEF Init, IndexInit, AllOrNothing
<1>2. IInv /\ AllOrNothing /\ [Next]_vars => AllOrNothing'
  <2> SUFFICES ASSUME IInv, AllOrNothing, [Next]_vars PROVE AllOrNothing'
    OBVIOUS
  <2>1. ASSUME NEW w \in Workers, ProcessOne(w) PROVE AllOrNothing'
    <3>1. stream[Current(w)] \in Images
      BY <2>1, CurrentFacts DEF ProcessOne, Busy
    <3>2. WorkerVersion[w] \in Versions
      BY PipelineAssumption
    <3> QED
      BY <2>1, <3>1, <3>2, AllOrNothingStep DEF ProcessOne
  <2>2. CASE UNCHANGED embeddings
    BY <2>2 DEF AllOrNothing, EmbeddingsOf
  <2>3. (\E w \in Workers : ProcessOne(w)) \/ UNCHANGED embeddings
    BY DEF Next, TriggerStep, SelectImages, PublishImage, AbandonRequest, WorkerStep,
       Reclaim, NothingToReclaim, ReadNew, NothingNew, CaptureCount, ProcessOneFails,
       Acknowledge, AcknowledgeFails, LeaveForRetry, DeadLetter,
       AcknowledgeDeadLetter, Crash, TimePasses, vars, indexVars
  <2> QED
    BY <2>1, <2>2, <2>3
<1>3. AllOrNothing => SearchableOrSelected
  BY PipelineAssumption DEF AllOrNothing, SearchableOrSelected, NeedsIndexing
<1> QED
  BY <1>1, <1>2, <1>3, InductiveInvariant, PTL DEF Spec

-----------------------------------------------------------------------------
(* The pipeline implements the service: each step maps to a step of the    *)
(* service or to a stuttering step of it.                                  *)

\* What a step leaves unchanged of the abstract state.
LEMMA SameService ==
  ASSUME UNCHANGED <<stream, cursor, deliveries, dlq, status, committed>>
  PROVE  UNCHANGED Service!serviceVars
BY DEF Service!serviceVars, Closed

\* XACK of a message that is committed or dead-lettered closes its request.
LEMMA XAckCloses ==
  ASSUME IInv, NEW m \in MsgId, m \in 1..cursor, XAck(m),
         m \in committed \/ dlq[m] > 0, UNCHANGED <<status, committed>>
  PROVE  [Service!Next]_(Service!serviceVars)
<1>1. Closed' = Closed \cup {m}
  BY XAckClosed DEF IInv, TypeOK
<1>2. UNCHANGED <<stream, dlq>>
  BY DEF XAck
<1>3. m \in 1..Len(stream)
  BY DEF IInv, TypeOK, StreamTypeOK
<1>4. Service!Close(m)
  BY <1>1, <1>2 DEF Service!Close
<1> QED
  BY <1>3, <1>4 DEF Service!Next

\* Serving or abandoning a request is a step of the service.
LEMMA RequestStep ==
  ASSUME NEW m \in 1..Len(stream), Service!Serve(m) \/ Service!Abandon(m)
  PROVE  [Service!Next]_(Service!serviceVars)
BY DEF Service!Next

\* Every step of the pipeline is a step of the service or a stutter.
LEMMA StepImplements ==
  ASSUME IInv, [Next]_vars
  PROVE  [Service!Next]_(Service!serviceVars)
<1> USE DEF historyVars, indexVars, workerVars
<1>1. ASSUME NEW t \in Triggers, TriggerStep(t)
      PROVE  [Service!Next]_(Service!serviceVars)
  <2>1. CASE PublishImage(t)
    <3>1. First(toPublish[t]) \in Images
      BY <2>1, FirstProperties, ConstantFacts DEF PublishImage, IInv, TypeOK
    <3>2. Closed' = Closed
      BY <2>1 DEF PublishImage, XAdd, Closed
    <3>3. Service!Submit(First(toPublish[t]))
      BY <2>1, <3>2 DEF PublishImage, XAdd, Service!Submit
    <3> QED
      BY <3>1, <3>3 DEF Service!Next
  <2>2. CASE SelectImages(t) \/ AbandonRequest(t)
    BY <2>2, SameService DEF SelectImages, AbandonRequest, streamVars
  <2> QED
    BY <1>1, <2>1, <2>2 DEF TriggerStep
<1>2. ASSUME NEW w \in Workers, Reclaim(w) \/ ReadNew(w)
      PROVE  [Service!Next]_(Service!serviceVars)
  <2>1. UNCHANGED <<stream, dlq, status, committed>>
    BY <1>2 DEF Reclaim, ReadNew, XAutoClaim, XReadGroup
  <2>2. Closed' = Closed
    <3>1. CASE Reclaim(w)
      <4>1. Reclaimable \subseteq Pending /\ Reclaimable \in SUBSET Nat
        BY DEF Reclaimable, Pending, MsgId
      <4>2. Oldest(Reclaimable, BatchSize) \subseteq Pending
        BY <4>1, OldestProperties, ConstantFacts
      <4> QED
        BY <3>1, <4>2, XAutoClaimClosed DEF Reclaim, IInv, TypeOK
    <3>2. CASE ReadNew(w)
      BY <3>2, XReadGroupClosed DEF ReadNew, IInv, TypeOK, DeliveredInv
    <3> QED
      BY <1>2, <3>1, <3>2
  <2> QED
    BY <2>1, <2>2 DEF Service!serviceVars
<1>3. ASSUME NEW w \in Workers, ProcessOne(w)
      PROVE  [Service!Next]_(Service!serviceVars)
  <2>1. PICK m \in 1..Len(stream) : m = Current(w) /\ stream[m] \in Images
    BY <1>3, CurrentFacts DEF ProcessOne, Busy
  <2>2. /\ IndexImage(stream[m], WorkerVersion[w])
        /\ committed' = committed \cup {m} /\ UNCHANGED streamVars
    BY <1>3, <2>1 DEF ProcessOne
  <2>3. status' = [status EXCEPT ![stream[m]] = "done"]
    BY <2>2 DEF IndexImage
  <2>4. {i \in Images : status'[i] = "done"}
           = {i \in Images : status[i] = "done"} \cup {stream[m]}
    BY <2>1, <2>3 DEF IInv, TypeOK, IndexTypeOK
  <2>5. Service!Serve(m)
    BY <2>2, <2>4 DEF Service!Serve, streamVars, Closed
  <2> QED
    BY <2>1, <2>5, RequestStep
<1>4. ASSUME NEW w \in Workers, Acknowledge(w) \/ AcknowledgeDeadLetter(w)
      PROVE  [Service!Next]_(Service!serviceVars)
  <2>1. Current(w) \in MsgId /\ Current(w) \in 1..cursor
    BY <1>4, CurrentFacts DEF Acknowledge, AcknowledgeDeadLetter, Busy
  <2>2. Current(w) \in committed \/ dlq[Current(w)] > 0
    BY <1>4 DEF Acknowledge, AcknowledgeDeadLetter, IInv, WorkerInv
  <2> QED
    BY <1>4, <2>1, <2>2, XAckCloses DEF Acknowledge, AcknowledgeDeadLetter
<1>5. ASSUME NEW w \in Workers, AcknowledgeFails(w)
      PROVE  [Service!Next]_(Service!serviceVars)
  <2>1. /\ Current(w) \in MsgId /\ Current(w) \in 1..cursor
        /\ Current(w) \in committed
    BY <1>5, CurrentFacts DEF AcknowledgeFails, Busy, IInv, WorkerInv
  <2>2. UNCHANGED <<status, committed>>
    BY <1>5 DEF AcknowledgeFails
  <2>3. CASE XAck(Current(w))
    BY <2>1, <2>2, <2>3, XAckCloses
  <2>4. CASE UNCHANGED streamVars
    BY <2>2, <2>4, SameService DEF streamVars
  <2> QED
    BY <1>5, <2>3, <2>4 DEF AcknowledgeFails
<1>6. ASSUME NEW w \in Workers, DeadLetter(w)
      PROVE  [Service!Next]_(Service!serviceVars)
  <2>1. PICK m \in 1..Len(stream) : m = Current(w) /\ m \in MsgId
    BY <1>6, CurrentFacts DEF DeadLetter, Busy
  <2>2. XAddDeadLetter(m) /\ UNCHANGED <<status, committed>> /\ StreamTypeOK
    BY <1>6, <2>1 DEF DeadLetter, IInv, TypeOK
  <2>3. dlq'[m] > 0 /\ \A n \in MsgId : dlq[n] > 0 => dlq'[n] > 0
    BY <2>1, <2>2, XAddDeadLetterType
  <2>4. \A n \in MsgId : n # m => dlq'[n] = dlq[n]
    BY <2>2 DEF XAddDeadLetter, StreamTypeOK
  <2>5. {n \in MsgId : dlq'[n] > 0} = {n \in MsgId : dlq[n] > 0} \cup {m}
    BY <2>1, <2>3, <2>4
  <2>6. Service!Abandon(m)
    BY <2>2, <2>5 DEF Service!Abandon, XAddDeadLetter, Closed
  <2> QED
    BY <2>1, <2>6, RequestStep
<1>7. ASSUME NEW w \in Workers,
             NothingToReclaim(w) \/ NothingNew(w) \/ CaptureCount(w)
             \/ ProcessOneFails(w) \/ LeaveForRetry(w) \/ Crash(w)
      PROVE  [Service!Next]_(Service!serviceVars)
  BY <1>7, SameService
  DEF NothingToReclaim, NothingNew, CaptureCount, ProcessOneFails, LeaveForRetry,
      Crash, streamVars
<1>8. CASE TimePasses \/ UNCHANGED vars
  BY <1>8, SameService DEF TimePasses, Tick, vars, streamVars
<1> QED
  BY <1>1, <1>2, <1>3, <1>4, <1>5, <1>6, <1>7, <1>8 DEF Next, WorkerStep

\* The pipeline implements the abstract service (ImplementsService): a request
\* is closed only after its image was indexed or it was dead-lettered, and
\* stays closed.
THEOREM Implementation == Spec => ImplementsService
<1>1. Init => Service!Init
  BY ConstantFacts DEF Init, StreamInit, IndexInit, Service!Init, Closed
<1>2. IInv /\ [Next]_vars => [Service!Next]_(Service!serviceVars)
  BY StepImplements
<1> QED
  BY <1>1, <1>2, InductiveInvariant, PTL DEF Spec, ImplementsService, Service!Spec
-----------------------------------------------------------------------------
(* RetryBudget: the ledger of each message is kept by every step.          *)

\* How a set of workers splits into one worker and the others.
LEMMA CountSplit ==
  ASSUME NEW S, S \subseteq Workers, NEW w
  PROVE  /\ Cardinality(S) \in Nat /\ Cardinality(S \ {w}) \in Nat
         /\ Cardinality(S) = Cardinality(S \ {w}) + (IF w \in S THEN 1 ELSE 0)
<1>1. IsFiniteSet(S)
  BY FS_Subset, PipelineAssumption
<1>2. /\ IsFiniteSet(S \ {w})
      /\ Cardinality(S \ {w}) = IF w \in S THEN Cardinality(S) - 1 ELSE Cardinality(S)
  BY <1>1, FS_RemoveElement
<1> DEFINE c == Cardinality(S)
           d == Cardinality(S \ {w})
<1>3. c \in Nat /\ d \in Nat /\ d = IF w \in S THEN c - 1 ELSE c
  BY <1>1, <1>2, FS_CardinalityType
<1> HIDE DEF c, d
<1>4. c = d + (IF w \in S THEN 1 ELSE 0)
  BY <1>3
<1> QED
  BY <1>3, <1>4 DEF c, d

\* The workers of both sets, before a step and after it.
LEMMA LedgerSets ==
  ASSUME NEW m
  PROVE  /\ MayRetry(m) \subseteq Workers /\ GivingUp(m) \subseteq Workers
         /\ MayRetry(m)' \subseteq Workers /\ GivingUp(m)' \subseteq Workers
BY DEF MayRetry, GivingUp, Excepting

\* A step of one worker leaves the others where they are in the ledger.
LEMMA OthersInLedger ==
  ASSUME NEW w \in Workers, OnlyMoves(w), NEW m,
         Exhausted(deliveries'[m]) <=> Exhausted(deliveries[m])
  PROVE  /\ MayRetry(m)' \ {w} = MayRetry(m) \ {w}
         /\ GivingUp(m)' \ {w} = GivingUp(m) \ {w}
<1>1. ASSUME NEW u \in Workers \ {w}
      PROVE  /\ u \in Excepting(m)' <=> u \in Excepting(m)
             /\ Exhausted(KnownCount(u, m)') <=> Exhausted(KnownCount(u, m))
             /\ todo'[u] = todo[u] /\ count'[u] = count[u]
  BY DEF OnlyMoves, Excepting, Current, KnownCount
<1>2. ASSUME NEW u \in Workers \ {w}
      PROVE  /\ u \in MayRetry(m)' <=> u \in MayRetry(m)
             /\ u \in GivingUp(m)' <=> u \in GivingUp(m)
  BY <1>1 DEF MayRetry, GivingUp, Exhausted
<1> QED
  BY <1>2, LedgerSets

\* What the ledger of a message needs of a step: each failure recorded, and each
\* attempt opened, is paid for by the worker's other moves or by a death.
LEMMA LedgerKept ==
  ASSUME NEW w \in Workers, OnlyMoves(w), NEW m \in MsgId, TypeOK, TypeOK', Ledger(m),
         deliveries'[m] = deliveries[m],
         NEW o \in {0, 1}, o = (IF w \in MayRetry(m) THEN 1 ELSE 0),
         NEW p \in {0, 1}, p = (IF w \in MayRetry(m)' THEN 1 ELSE 0),
         NEW g \in {0, 1}, g = (IF w \in GivingUp(m) THEN 1 ELSE 0),
         NEW h \in {0, 1}, h = (IF w \in GivingUp(m)' THEN 1 ELSE 0),
         failures'[m] + p + g + crashes <= failures[m] + o + h + crashes'
  PROVE  Ledger(m)'
<1> DEFINE M == Cardinality(MayRetry(m))
           N == Cardinality(MayRetry(m)')
           G == Cardinality(GivingUp(m))
           H == Cardinality(GivingUp(m)')
           c == Cardinality(MayRetry(m) \ {w})
           d == Cardinality(GivingUp(m) \ {w})
<1>1. /\ MayRetry(m)' \ {w} = MayRetry(m) \ {w}
      /\ GivingUp(m)' \ {w} = GivingUp(m) \ {w}
  BY OthersInLedger
<1>2. M = c + o /\ G = d + g /\ M \in Nat /\ G \in Nat /\ c \in Nat /\ d \in Nat
  BY LedgerSets, CountSplit
<1>3. N = c + p /\ H = d + h /\ N \in Nat /\ H \in Nat
  BY <1>1, LedgerSets, CountSplit
<1> HIDE DEF M, N, G, H, c, d
<1>4. /\ failures[m] \in Nat /\ failures'[m] \in Nat
      /\ crashes \in Nat /\ crashes' \in Nat
      /\ deliveries[m] \in Nat /\ MaxAttempts \in Nat \ {0}
  BY ConstantFacts DEF TypeOK, StreamTypeOK
<1>5. Capped(deliveries[m], MaxAttempts - 1) \in Nat
  BY <1>4 DEF Capped
<1>6. failures[m] + M <= Capped(deliveries[m], MaxAttempts - 1) + G + crashes
  BY DEF Ledger, M, G
<1>7. failures'[m] + N <= Capped(deliveries[m], MaxAttempts - 1) + H + crashes'
  BY <1>2, <1>3, <1>4, <1>5, <1>6
<1> QED
  BY <1>7 DEF Ledger, N, H

\* A worker that stands the same for a message leaves its ledger alone.
LEMMA LedgerUntouched ==
  ASSUME NEW w \in Workers, OnlyMoves(w), NEW m \in MsgId, TypeOK, TypeOK', Ledger(m),
         deliveries'[m] = deliveries[m], failures'[m] = failures[m], crashes' = crashes,
         w \in MayRetry(m)' => w \in MayRetry(m),
         w \in GivingUp(m) => w \in GivingUp(m)'
  PROVE  Ledger(m)'
<1> DEFINE o == IF w \in MayRetry(m) THEN 1 ELSE 0
           p == IF w \in MayRetry(m)' THEN 1 ELSE 0
           g == IF w \in GivingUp(m) THEN 1 ELSE 0
           h == IF w \in GivingUp(m)' THEN 1 ELSE 0
<1>1. o \in {0, 1} /\ p \in {0, 1} /\ g \in {0, 1} /\ h \in {0, 1}
  OBVIOUS
<1>2. p <= o /\ g <= h
  OBVIOUS
<1> HIDE DEF o, p, g, h
<1>3. failures[m] \in Nat /\ crashes \in Nat
  BY ConstantFacts DEF TypeOK
<1>4. failures'[m] + p + g + crashes <= failures[m] + o + h + crashes'
  BY <1>1, <1>2, <1>3
<1>5. /\ o = (IF w \in MayRetry(m) THEN 1 ELSE 0) /\ p = (IF w \in MayRetry(m)' THEN 1 ELSE 0)
      /\ g = (IF w \in GivingUp(m) THEN 1 ELSE 0) /\ h = (IF w \in GivingUp(m)' THEN 1 ELSE 0)
  BY DEF o, p, g, h
<1> QED
  BY <1>1, <1>4, <1>5, LedgerKept

\* If one worker's batch stands rightly after its step, every worker's does.
LEMMA AllBatchInv ==
  ASSUME BudgetInv, NEW w \in Workers, OnlyMoves(w), BatchInv(w)'
  PROVE  \A u \in Workers : BatchInv(u)'
<1>1. TAKE u \in Workers
<1>2. CASE u = w
  BY <1>2
<1>3. CASE u # w
  BY <1>3 DEF BudgetInv, BatchInv, OnlyMoves, Uncounted
<1> QED
  BY <1>2, <1>3

\* Steps of a worker that record no failure, deliver nothing and open no attempt.
LEMMA BudgetFromParts ==
  ASSUME IInv, IInv', BudgetInv, NEW w \in Workers, OnlyMoves(w), BatchInv(w)',
         UNCHANGED <<cursor, failures, crashes>>,
         \A n \in MsgId : deliveries'[n] # 0 => deliveries'[n] = deliveries[n],
         \A n \in MsgId : dlq'[n] = 0 => dlq[n] = 0,
         \A n \in Pending' : dlq'[n] = 0 =>
           /\ w \in MayRetry(n)' => w \in MayRetry(n)
           /\ w \in GivingUp(n) => w \in GivingUp(n)'
  PROVE  BudgetInv'
<1>1. ASSUME NEW n \in Pending', dlq'[n] = 0 PROVE Ledger(n)'
  <2>1. n \in MsgId /\ deliveries'[n] # 0 /\ deliveries'[n] > 0
    BY DEF Pending
  <2>2. deliveries'[n] = deliveries[n] /\ dlq[n] = 0
    BY <1>1, <2>1
  <2>3. n \in Pending
    BY <2>1, <2>2 DEF Pending
  <2>4. Ledger(n)
    BY <2>2, <2>3 DEF BudgetInv
  <2> QED
    BY <1>1, <2>1, <2>2, <2>4, LedgerUntouched DEF IInv
<1>2. \A n \in MsgId : n > cursor' => failures'[n] = 0
  BY DEF BudgetInv
<1> QED
  BY <1>1, <1>2, AllBatchInv DEF BudgetInv

\* A worker that handles another message is not giving this one up.
LEMMA GivesUpCurrentOnly ==
  ASSUME NEW w \in Workers, NEW m, w \in GivingUp(m)
  PROVE  pc[w] = "except" /\ Current(w) = m /\ Exhausted(count[w][m])
BY DEF GivingUp, Excepting

\* Advancing drops the message at hand and opens nothing.
LEMMA AdvanceBudget ==
  ASSUME IInv, IInv', BudgetInv, NEW w \in Workers, pc[w] \in Busy \ {"count"}, Advance(w),
         w \notin GivingUp(Current(w)), UNCHANGED <<cursor, failures, crashes, dlq>>,
         \A n \in MsgId : deliveries'[n] # 0 => deliveries'[n] = deliveries[n]
  PROVE  BudgetInv'
<1> DEFINE m == Current(w)
<1>1. WorkerTypeOK /\ m \in MsgId /\ m \in todo[w] /\ OnlyMoves(w)
  BY CurrentFacts, AdvanceKeeps DEF IInv, TypeOK, WorkerTypeOK
<1>2. /\ todo'[w] = todo[w] \ {m}
      /\ pc'[w] = IF todo[w] = {m} THEN "poll" ELSE "process"
      /\ \A n \in MsgId : count'[w][n] = IF n = m THEN 0 ELSE count[w][n]
  BY <1>1 DEF WorkerTypeOK, Advance, GoTo
<1>3. ~(m \in todo'[w]) /\ todo'[w] \subseteq MsgId
  BY <1>1, <1>2 DEF WorkerTypeOK
<1>4. BatchInv(w)'
  <2>1. Uncounted(w) = {}
    BY DEF BudgetInv, BatchInv
  <2>2. Uncounted(w)' = {}
    BY <1>2, <1>3, <2>1 DEF Uncounted
  <2>3. pc'[w] \in Idling => todo'[w] = {}
    BY <1>2 DEF Idling
  <2> QED
    BY <2>2, <2>3 DEF BatchInv
<1>5. ASSUME NEW n \in Pending'
      PROVE  /\ w \in MayRetry(n)' => w \in MayRetry(n)
             /\ ~(w \in GivingUp(n))
  <2>1. n \in MsgId /\ deliveries'[n] = deliveries[n]
    BY DEF Pending
  <2>2. ~(w \in GivingUp(n))
    BY GivesUpCurrentOnly
  <2>3. ASSUME w \in MayRetry(n)' PROVE w \in MayRetry(n)
    <3>1. n \in todo'[w] /\ Exhausted(KnownCount(w, n))' = Exhausted(KnownCount(w, n))'
          /\ ~(Exhausted(KnownCount(w, n)'))
      BY <2>3 DEF MayRetry, Exhausted
    <3>2. n # m /\ n \in todo[w]
      BY <1>2, <1>3, <3>1
    <3>3. KnownCount(w, n)' = KnownCount(w, n)
      BY <1>2, <2>1, <3>2 DEF KnownCount
    <3>4. ~(w \in Excepting(n))
      BY <3>2 DEF Excepting
    <3> QED
      BY <3>1, <3>2, <3>3, <3>4 DEF MayRetry
  <2> QED
    BY <2>2, <2>3
<1> HIDE DEF m
<1> QED
  BY <1>1, <1>4, <1>5, BudgetFromParts

\* A step that records a failed attempt: the attempt was open, or it was the last
\* one and the worker is now giving the message up.
LEMMA FailsBudget ==
  ASSUME IInv, IInv', BudgetInv, NEW w \in Workers, pc[w] \in {"process", "ack"}, Fails(w),
         UNCHANGED <<todo, count, cursor, crashes, dlq>>,
         \A n \in MsgId : deliveries'[n] # 0 => deliveries'[n] = deliveries[n]
  PROVE  BudgetInv'
<1>0. PICK m : m = Current(w)
  OBVIOUS
<1>1. /\ WorkerTypeOK /\ m \in MsgId /\ m \in todo[w] /\ m \in 1..cursor
      /\ failures \in [MsgId -> 0..FailureCap] /\ pc[w] \in Busy \ {"count"}
  BY <1>0, CurrentFacts DEF IInv, TypeOK, WorkerTypeOK, Busy
<1>2. /\ failures'[m] = Capped(failures[m] + 1, FailureCap)
      /\ \A n \in MsgId : n # m => failures'[n] = failures[n]
      /\ GoTo(w, "except")
  BY <1>0, <1>1 DEF Fails
<1>3. OnlyMoves(w) /\ pc'[w] = "except"
  BY <1>1, <1>2, GoToKeeps DEF Busy
<1>4. Current(w)' = m
  BY <1>0 DEF Current
<1>5. Uncounted(w) = {} /\ count[w][m] # 0
  BY <1>1 DEF BudgetInv, BatchInv, Uncounted
<1>6. BatchInv(w)'
  BY <1>3, <1>5 DEF BatchInv, Uncounted, Idling
<1>7. \A n \in MsgId : ~(w \in GivingUp(n))
  BY GivesUpCurrentOnly
<1>8. ASSUME NEW n \in Pending', dlq'[n] = 0 PROVE Ledger(n)'
  <2>1. n \in MsgId /\ deliveries'[n] = deliveries[n] /\ deliveries[n] > 0 /\ dlq[n] = 0
    BY <1>8 DEF Pending
  <2>2. Ledger(n) /\ TypeOK /\ TypeOK'
    BY <2>1 DEF BudgetInv, Pending, IInv
  <2>3. CASE n # m
    <3>1. KnownCount(w, n)' = KnownCount(w, n)
      BY <2>1 DEF KnownCount
    <3>2. w \notin Excepting(n)
      BY <1>1 DEF Excepting
    <3>3. w \in MayRetry(n)' => w \in MayRetry(n)
      BY <3>1, <3>2 DEF MayRetry, Exhausted
    <3> QED
      BY <1>2, <1>3, <1>7, <2>1, <2>2, <2>3, <3>3, LedgerUntouched
  <2>4. CASE n = m
    <3> DEFINE o == IF w \in MayRetry(m) THEN 1 ELSE 0
               h == IF w \in GivingUp(m)' THEN 1 ELSE 0
    <3>1. w \in Excepting(m)'
      BY <1>3, <1>4 DEF Excepting
    <3>2. ~(w \in MayRetry(m)')
      BY <3>1 DEF MayRetry
    <3>3. ~(w \in Excepting(m))
      BY DEF Excepting
    <3>4. w \in MayRetry(m) <=> ~Exhausted(count[w][m])
      BY <1>1, <1>5, <3>3 DEF MayRetry, KnownCount
    <3>5. w \in GivingUp(m)' <=> Exhausted(count[w][m])
      BY <3>1 DEF GivingUp
    <3>6. o \in {0, 1} /\ h \in {0, 1} /\ o + h = 1
      BY <3>4, <3>5
    <3>7. o = (IF w \in MayRetry(m) THEN 1 ELSE 0) /\ h = (IF w \in GivingUp(m)' THEN 1 ELSE 0)
      OBVIOUS
    <3> HIDE DEF o, h
    <3>8. failures[m] \in Nat /\ failures'[m] \in Nat /\ failures'[m] <= failures[m] + 1
      BY <1>1, <1>2, ConstantFacts DEF Capped
    <3>9. crashes' = crashes /\ crashes \in Nat
      BY <2>2, ConstantFacts DEF TypeOK
    <3>10. failures'[m] + 0 + 0 + crashes <= failures[m] + o + h + crashes'
      BY <3>6, <3>8, <3>9
    <3>11. /\ 0 = (IF w \in MayRetry(m)' THEN 1 ELSE 0)
           /\ 0 = (IF w \in GivingUp(m) THEN 1 ELSE 0)
           /\ 0 \in {0, 1}
      BY <1>1, <1>7, <3>2
    <3> QED
      BY <1>1, <1>3, <2>1, <2>2, <2>4, <3>6, <3>7, <3>10, <3>11, LedgerKept
  <2> QED
    BY <2>3, <2>4
<1>9. \A n \in MsgId : n > cursor' => failures'[n] = 0
  BY <1>1, <1>2 DEF BudgetInv, IInv, TypeOK, StreamTypeOK
<1> QED
  BY <1>3, <1>6, <1>8, <1>9, AllBatchInv DEF BudgetInv

\* A worker that reads holds nothing: it has no place in any ledger.
LEMMA ReaderInNoLedger ==
  ASSUME BudgetInv, NEW w \in Workers, pc[w] \in Idling, NEW m
  PROVE  w \notin MayRetry(m) /\ w \notin GivingUp(m)
BY DEF BudgetInv, BatchInv, MayRetry, GivingUp, Excepting, Idling

\* What a worker that has just taken a batch is about to do.
LEMMA TakenBatch ==
  ASSUME WorkerTypeOK, NEW w \in Workers, NEW S \in SUBSET MsgId, Take(w, S)
  PROVE  /\ pc'[w] = "count" /\ todo'[w] = S
         /\ BatchInv(w)'
         /\ \A m \in MsgId : KnownCount(w, m)' = deliveries'[m] /\ w \notin GivingUp(m)'
<1>1. pc'[w] = "count" /\ todo'[w] = S /\ count'[w] = NoCount
  BY DEF WorkerTypeOK, Take, GoTo
<1>2. BatchInv(w)'
  BY <1>1 DEF BatchInv, Idling
<1>3. ASSUME NEW m \in MsgId PROVE KnownCount(w, m)' = deliveries'[m] /\ w \notin GivingUp(m)'
  BY <1>1 DEF KnownCount, NoCount, GivingUp, Excepting
<1> QED
  BY <1>1, <1>2, <1>3

\* The ledger of a message that is delivered again: one delivery, one attempt
\* opened, unless it is the last delivery, which opens none.
LEMMA LedgerRedelivered ==
  ASSUME NEW w \in Workers, OnlyMoves(w), NEW m \in MsgId, TypeOK, TypeOK', Ledger(m),
         w \notin MayRetry(m), w \notin GivingUp(m), w \notin GivingUp(m)',
         KnownCount(w, m)' = deliveries'[m],
         deliveries'[m] = Capped(deliveries[m] + 1, CountCap),
         UNCHANGED <<failures, crashes>>
  PROVE  Ledger(m)'
<1> DEFINE M == Cardinality(MayRetry(m))
           N == Cardinality(MayRetry(m)')
           G == Cardinality(GivingUp(m))
           d == deliveries[m]
           e == deliveries'[m]
<1>1. /\ failures[m] \in Nat /\ crashes \in Nat
      /\ d \in 0..MaxAttempts /\ e \in 0..MaxAttempts /\ MaxAttempts \in Nat \ {0}
      /\ e = IF d + 1 <= MaxAttempts THEN d + 1 ELSE MaxAttempts
  BY ConstantFacts DEF TypeOK, StreamTypeOK, CountCap, Capped
<1>2. M \in Nat /\ N \in Nat /\ G \in Nat
  BY LedgerSets, CountSplit
<1>3. GivingUp(m)' = GivingUp(m)
  <2>1. ASSUME NEW u \in Workers \ {w} PROVE u \in GivingUp(m)' <=> u \in GivingUp(m)
    BY DEF OnlyMoves, GivingUp, Excepting, Current
  <2> QED
    BY <2>1, LedgerSets
<1>4. failures[m] + M <= Capped(d, MaxAttempts - 1) + G + crashes
  BY DEF Ledger
<1>5. CASE d + 1 < MaxAttempts
  <2>1. Exhausted(deliveries'[m]) <=> Exhausted(deliveries[m])
    BY <1>1, <1>5 DEF Exhausted
  <2>2. MayRetry(m)' \ {w} = MayRetry(m) \ {w}
    BY <2>1, OthersInLedger
  <2>3. N <= M + 1
    <3> DEFINE c == Cardinality(MayRetry(m) \ {w})
    <3>1. M = c + 0 /\ c \in Nat
      BY LedgerSets, CountSplit
    <3>2. N = c + (IF w \in MayRetry(m)' THEN 1 ELSE 0)
      BY <2>2, LedgerSets, CountSplit
    <3> HIDE DEF M, N, c
    <3> QED
      BY <3>1, <3>2
  <2> HIDE DEF M, N, G, d, e
  <2>4. failures[m] + N <= Capped(e, MaxAttempts - 1) + G + crashes
    BY <1>1, <1>2, <1>4, <1>5, <2>3 DEF Capped
  <2> QED
    BY <1>3, <2>4 DEF Ledger, N, G, e
<1>6. CASE ~(d + 1 < MaxAttempts)
  <2>1. e = MaxAttempts /\ Capped(d, MaxAttempts - 1) = MaxAttempts - 1
        /\ Capped(e, MaxAttempts - 1) = MaxAttempts - 1
    BY <1>1, <1>6 DEF Capped
  <2>2. Exhausted(deliveries'[m])
    BY <1>1, <2>1 DEF Exhausted
  <2>3. ASSUME NEW u \in MayRetry(m)' PROVE u \in MayRetry(m)
    <3>1. /\ u \in Workers /\ m \in todo'[u] /\ u \notin Excepting(m)'
          /\ ~Exhausted(KnownCount(u, m)')
      BY DEF MayRetry, Exhausted
    <3>2. u # w
      BY <2>2, <3>1
    <3>3. count'[u][m] # 0 /\ KnownCount(u, m)' = count'[u][m]
      BY <2>2, <3>1 DEF KnownCount
    <3>4. m \in todo[u] /\ count[u] = count'[u] /\ u \notin Excepting(m)
      BY <3>1, <3>2 DEF OnlyMoves, Excepting, Current
    <3> QED
      BY <3>1, <3>3, <3>4 DEF MayRetry, KnownCount
  <2>4. N <= M
    BY <2>3, LedgerSets, FS_Subset, PipelineAssumption
  <2> HIDE DEF M, N, G, d, e
  <2>5. failures[m] + N <= Capped(e, MaxAttempts - 1) + G + crashes
    BY <1>1, <1>2, <1>4, <2>1, <2>4
  <2> QED
    BY <1>3, <2>5 DEF Ledger, N, G, e
<1> QED
  BY <1>5, <1>6

\* XAUTOCLAIM pays for the attempts it opens with a delivery of each message.
LEMMA ReclaimBudget ==
  ASSUME IInv, IInv', BudgetInv, NEW w \in Workers, Reclaim(w)
  PROVE  BudgetInv'
<1>0. PICK S : S = Oldest(Reclaimable, BatchSize)
  OBVIOUS
<1>1. S \subseteq Pending /\ S # {} /\ S \in SUBSET MsgId
  <2>1. Reclaimable \subseteq Pending /\ Pending \subseteq MsgId /\ Reclaimable \in SUBSET Nat
    BY DEF Reclaimable, Pending, MsgId
  <2> QED
    BY <1>0, <2>1, OldestProperties, ConstantFacts DEF Reclaim
<1>2. /\ XAutoClaim(S) /\ Take(w, S) /\ pc[w] \in Idling /\ WorkerTypeOK
      /\ UNCHANGED <<crashes, failures>> /\ cursor' = cursor /\ dlq' = dlq
  BY <1>0 DEF Reclaim, XAutoClaim, Idling, historyVars, IInv, TypeOK, WorkerTypeOK
<1>3. Pending' = Pending /\ OnlyMoves(w)
  BY <1>1, <1>2, XAutoClaimClosed DEF IInv, TypeOK, WorkerTypeOK, OnlyMoves, Take, GoTo
<1>4. /\ todo'[w] = S /\ BatchInv(w)'
      /\ \A m \in MsgId : KnownCount(w, m)' = deliveries'[m] /\ w \notin GivingUp(m)'
  BY <1>1, <1>2, TakenBatch
<1>5. ASSUME NEW m \in Pending', dlq'[m] = 0 PROVE Ledger(m)'
  <2>1. m \in MsgId /\ Ledger(m) /\ TypeOK /\ TypeOK'
    BY <1>2, <1>3, <1>5 DEF Pending, BudgetInv, IInv
  <2>2. w \notin MayRetry(m) /\ w \notin GivingUp(m)
    BY <1>2, ReaderInNoLedger
  <2>3. CASE m \in S
    <3>1. deliveries'[m] = Capped(deliveries[m] + 1, CountCap)
      BY <1>2, <2>1, <2>3 DEF XAutoClaim
    <3> QED
      BY <1>2, <1>3, <1>4, <2>1, <2>2, <3>1, LedgerRedelivered
  <2>4. CASE m \notin S
    <3>1. deliveries'[m] = deliveries[m]
      BY <1>2, <2>1, <2>4 DEF XAutoClaim
    <3>2. w \notin MayRetry(m)'
      BY <1>4, <2>4 DEF MayRetry
    <3> QED
      BY <1>2, <1>3, <2>1, <2>2, <3>1, <3>2, LedgerUntouched
  <2> QED
    BY <2>3, <2>4
<1>6. \A m \in MsgId : m > cursor' => failures'[m] = 0
  BY <1>2 DEF BudgetInv
<1> QED
  BY <1>3, <1>4, <1>5, <1>6, AllBatchInv DEF BudgetInv

\* XREADGROUP opens the first attempt at messages that have never failed.
LEMMA ReadNewBudget ==
  ASSUME IInv, IInv', BudgetInv, NEW w \in Workers, ReadNew(w)
  PROVE  BudgetInv'
<1>0. PICK S : S = Unread
  OBVIOUS
<1>1. /\ XReadGroup /\ Take(w, S) /\ StreamTypeOK /\ WorkerTypeOK /\ pc[w] \in Idling
      /\ UNCHANGED <<crashes, failures, dlq>>
  BY <1>0 DEF ReadNew, XReadGroup, Idling, historyVars, IInv, TypeOK, WorkerTypeOK
<1>2. /\ cursor' >= cursor /\ cursor' \in Nat /\ cursor \in Nat
      /\ S = cursor + 1 .. cursor' /\ S \subseteq MsgId
  BY <1>0, <1>1, XReadGroupType DEF StreamTypeOK
<1>3. /\ OnlyMoves(w)
      /\ \A m \in MsgId : deliveries'[m] = IF m \in S THEN 1 ELSE deliveries[m]
  BY <1>0, <1>1 DEF WorkerTypeOK, OnlyMoves, Take, GoTo, XReadGroup
<1>4. /\ todo'[w] = S /\ BatchInv(w)'
      /\ \A m \in MsgId : KnownCount(w, m)' = deliveries'[m] /\ w \notin GivingUp(m)'
  BY <1>1, <1>2, TakenBatch
<1>5. ASSUME NEW m \in Pending', dlq'[m] = 0 PROVE Ledger(m)'
  <2>1. m \in MsgId /\ TypeOK /\ TypeOK' /\ deliveries'[m] > 0
    BY DEF Pending, IInv
  <2>2. w \notin MayRetry(m) /\ w \notin GivingUp(m)
    BY <1>1, ReaderInNoLedger
  <2>3. CASE m \in S
    <3>1. failures'[m] = 0 /\ deliveries'[m] = 1
      BY <1>1, <1>2, <1>3, <2>1, <2>3 DEF BudgetInv
    <3>2. MayRetry(m)' \subseteq {w}
      <4>1. ASSUME NEW u \in MayRetry(m)', u # w PROVE FALSE
        <5>1. u \in Workers /\ m \in todo'[u]
          BY DEF MayRetry
        <5>2. todo[u] \subseteq 1..cursor /\ todo'[u] = todo[u]
          BY <1>3, <4>1, <5>1 DEF OnlyMoves, IInv, WorkerInv
        <5> QED
          BY <1>2, <2>3, <5>1, <5>2
      <4> QED
        BY <4>1
    <3>3. MayRetry(m)' # {} => ~Exhausted(1)
      <4>1. ASSUME w \in MayRetry(m)' PROVE ~Exhausted(1)
        BY <1>4, <2>1, <3>1, <4>1 DEF MayRetry, Exhausted
      <4> QED
        BY <3>2, <4>1
    <3> DEFINE N == Cardinality(MayRetry(m)')
               H == Cardinality(GivingUp(m)')
    <3>4. MayRetry(m)' = {} \/ MayRetry(m)' = {w}
      BY <3>2
    <3>5. N = IF MayRetry(m)' = {} THEN 0 ELSE 1
      <4>1. Cardinality({}) = 0 /\ Cardinality({w}) = 1
        BY FS_EmptySet, FS_Singleton
      <4> QED
        BY <3>4, <4>1
    <3>6. H \in Nat /\ crashes' \in Nat /\ MaxAttempts \in Nat \ {0}
      <4>1. H \in Nat
        BY LedgerSets, CountSplit
      <4>2. crashes' \in 0..MaxCrashes
        BY <2>1 DEF TypeOK
      <4> QED
        BY <4>1, <4>2, ConstantFacts
    <3> HIDE DEF N, H
    <3>7. N = 0 \/ (N = 1 /\ ~(1 >= MaxAttempts))
      BY <3>3, <3>5 DEF Exhausted
    <3>8. 0 + N <= Capped(1, MaxAttempts - 1) + H + crashes'
      BY <3>6, <3>7 DEF Capped
    <3> QED
      BY <3>1, <3>8 DEF Ledger, N, H
  <2>4. CASE m \notin S
    <3>1. deliveries'[m] = deliveries[m] /\ Ledger(m)
      BY <1>1, <1>3, <1>5, <2>1, <2>4 DEF BudgetInv, Pending
    <3>2. w \notin MayRetry(m)'
      BY <1>4, <2>4 DEF MayRetry
    <3> QED
      BY <1>1, <1>3, <2>1, <2>2, <3>1, <3>2, LedgerUntouched
  <2> QED
    BY <2>3, <2>4
<1>6. \A m \in MsgId : m > cursor' => failures'[m] = 0
  BY <1>1, <1>2 DEF BudgetInv, MsgId
<1> QED
  BY <1>3, <1>4, <1>5, <1>6, AllBatchInv DEF BudgetInv

\* Reading a delivery count neither opens nor closes an attempt.
LEMMA CaptureCountBudget ==
  ASSUME IInv, IInv', BudgetInv, NEW w \in Workers, CaptureCount(w)
  PROVE  BudgetInv'
<1>0. PICK m : m = First(Uncounted(w))
  OBVIOUS
<1>1. Uncounted(w) # {} /\ Uncounted(w) \in SUBSET MsgId /\ pc[w] = "count" /\ WorkerTypeOK
  BY DEF CaptureCount, IInv, WorkerInv, TypeOK, Uncounted, WorkerTypeOK
<1>2. m \in Uncounted(w) /\ m \in MsgId /\ m \in todo[w] /\ count[w][m] = 0
  BY <1>0, <1>1, FirstMessage DEF Uncounted
<1>3. DeliveryCount(m) # 0
  BY <1>2, ConstantFacts DEF DeliveryCount
<1>4. /\ count' = [count EXCEPT ![w][m] = DeliveryCount(m)]
      /\ GoTo(w, IF Uncounted(w) = {m} THEN "process" ELSE "count")
      /\ todo' = todo
      /\ UNCHANGED <<cursor, deliveries, dlq, crashes, failures>>
  BY <1>0 DEF CaptureCount, streamVars, historyVars
<1>5. /\ OnlyMoves(w)
      /\ pc'[w] = IF Uncounted(w) = {m} THEN "process" ELSE "count"
      /\ \A n \in MsgId : count'[w][n] = IF n = m THEN DeliveryCount(m) ELSE count[w][n]
  BY <1>1, <1>2, <1>4 DEF WorkerTypeOK, OnlyMoves, GoTo
<1>6. BatchInv(w)'
  <2>1. Uncounted(w)' = Uncounted(w) \ {m}
    <3>1. todo[w] \subseteq MsgId
      BY <1>1 DEF WorkerTypeOK
    <3> QED
      BY <1>3, <1>4, <1>5, <3>1 DEF Uncounted
  <2> QED
    BY <1>5, <2>1 DEF BatchInv, Idling
<1>7. ASSUME NEW n \in Pending'
      PROVE  /\ w \in MayRetry(n)' => w \in MayRetry(n)
             /\ w \in GivingUp(n) => w \in GivingUp(n)'
  <2>1. n \in MsgId /\ deliveries[n] # 0
    BY <1>4 DEF Pending
  <2>2. KnownCount(w, n)' = KnownCount(w, n)
    BY <1>2, <1>4, <1>5, <2>1 DEF KnownCount, DeliveryCount
  <2>3. w \notin Excepting(n)
    BY <1>1 DEF Excepting
  <2> QED
    BY <1>4, <2>2, <2>3 DEF MayRetry, GivingUp, Exhausted
<1> QED
  BY <1>4, <1>5, <1>6, <1>7, BudgetFromParts

\* A death closes the worker's attempts, and is one more death.
LEMMA CrashBudget ==
  ASSUME IInv, IInv', BudgetInv, NEW w \in Workers, Crash(w)
  PROVE  BudgetInv'
<1>1. /\ OnlyMoves(w) /\ todo'[w] = {} /\ pc'[w] = "poll"
      /\ crashes' = crashes + 1
      /\ UNCHANGED <<cursor, deliveries, dlq, failures>>
  BY DEF Crash, GoTo, OnlyMoves, streamVars, historyVars, IInv, TypeOK
<1>2. BatchInv(w)'
  BY <1>1 DEF BatchInv, Busy
<1>3. ASSUME NEW n \in Pending', dlq'[n] = 0 PROVE Ledger(n)'
  <2>1. n \in MsgId /\ Ledger(n) /\ TypeOK /\ TypeOK'
    BY <1>1, <1>3 DEF BudgetInv, Pending, IInv
  <2>2. ~(w \in MayRetry(n)') /\ ~(w \in GivingUp(n)')
    BY <1>1 DEF MayRetry, GivingUp, Excepting
  <2> DEFINE o == IF w \in MayRetry(n) THEN 1 ELSE 0
             g == IF w \in GivingUp(n) THEN 1 ELSE 0
  <2>3. /\ o = (IF w \in MayRetry(n) THEN 1 ELSE 0) /\ o \in {0, 1}
        /\ g = (IF w \in GivingUp(n) THEN 1 ELSE 0) /\ g \in {0, 1}
    OBVIOUS
  <2> HIDE DEF o, g
  <2>4. failures[n] \in Nat /\ crashes \in Nat
    BY <2>1, ConstantFacts DEF TypeOK
  <2>5. failures'[n] + 0 + g + crashes <= failures[n] + o + 0 + crashes'
    BY <1>1, <2>3, <2>4
  <2>6. /\ 0 = (IF w \in MayRetry(n)' THEN 1 ELSE 0)
        /\ 0 = (IF w \in GivingUp(n)' THEN 1 ELSE 0)
        /\ 0 \in {0, 1} /\ deliveries'[n] = deliveries[n]
    BY <1>1, <2>2
  <2> QED
    BY <1>1, <2>1, <2>3, <2>5, <2>6, LedgerKept
<1>4. \A n \in MsgId : n > cursor' => failures'[n] = 0
  BY <1>1 DEF BudgetInv
<1> QED
  BY <1>1, <1>2, <1>3, <1>4, AllBatchInv DEF BudgetInv

\* The other moves of a worker between two labels.
LEMMA LabelBudget ==
  ASSUME IInv, IInv', BudgetInv, NEW w \in Workers,
         NothingToReclaim(w) \/ NothingNew(w) \/ ProcessOne(w) \/ DeadLetter(w)
  PROVE  BudgetInv'
<1>0. PICK m : m = Current(w)
  OBVIOUS
<1>1. WorkerTypeOK /\ StreamTypeOK /\ UNCHANGED <<todo, count, cursor, deliveries, crashes, failures>>
  BY DEF NothingToReclaim, NothingNew, ProcessOne, DeadLetter, XAddDeadLetter, streamVars,
     historyVars, IInv, TypeOK, WorkerTypeOK
<1>2. OnlyMoves(w)
      /\ \/ pc[w] \in Idling /\ pc'[w] \in Idling /\ dlq' = dlq
         \/ pc[w] = "process" /\ pc'[w] = "ack" /\ dlq' = dlq
         \/ /\ pc[w] = "except" /\ pc'[w] = "ackDead"
            /\ XAddDeadLetter(m)
  BY <1>0, <1>1 DEF NothingToReclaim, NothingNew, ProcessOne, DeadLetter, GoTo, OnlyMoves,
     WorkerTypeOK, Idling, streamVars
<1>3. BatchInv(w)'
  BY <1>1, <1>2 DEF BudgetInv, BatchInv, Uncounted, Idling, Busy
<1>4. pc[w] = "except" => m \in MsgId /\ m \in todo[w]
  BY <1>0, CurrentFacts DEF Busy
<1>5. \A n \in MsgId : dlq'[n] = 0 => dlq[n] = 0
  <2>1. CASE XAddDeadLetter(m) /\ pc[w] = "except"
    <3>1. \A n \in MsgId : n # m => dlq'[n] = dlq[n]
      BY <1>1, <1>4, <2>1 DEF XAddDeadLetter, StreamTypeOK
    <3>2. dlq'[m] > 0
      BY <1>1, <1>4, <2>1, XAddDeadLetterType
    <3>3. dlq'[m] # 0
      BY <3>2
    <3> QED
      BY <3>1, <3>3
  <2> QED
    BY <1>2, <2>1
<1>6. ASSUME NEW n \in Pending', dlq'[n] = 0
      PROVE  /\ w \in MayRetry(n)' => w \in MayRetry(n)
             /\ w \in GivingUp(n) => w \in GivingUp(n)'
  <2>1. KnownCount(w, n)' = KnownCount(w, n) /\ todo'[w] = todo[w] /\ Current(w)' = Current(w)
    BY <1>1 DEF KnownCount, Current
  <2>2. CASE pc[w] # "except"
    <3>1. w \notin Excepting(n) /\ w \notin Excepting(n)'
      BY <1>2, <2>2 DEF Excepting, Idling
    <3> QED
      BY <2>1, <3>1 DEF MayRetry, GivingUp, Exhausted
  <2>3. CASE pc[w] = "except"
    <3>1. XAddDeadLetter(m) /\ m \in MsgId
      BY <1>2, <1>4, <2>3 DEF Idling
    <3>2. dlq'[m] > 0
      BY <1>1, <3>1, XAddDeadLetterType
    <3>3. n # m
      BY <1>6, <3>2
    <3>4. w \notin Excepting(n)
      BY <1>0, <3>3 DEF Excepting
    <3> QED
      BY <2>1, <3>4 DEF MayRetry, GivingUp, Exhausted
  <2> QED
    BY <2>2, <2>3
<1> QED
  BY <1>1, <1>2, <1>3, <1>5, <1>6, BudgetFromParts

\* Acknowledging or leaving a message closes the worker's attempt at it.
LEMMA LeavesBudget ==
  ASSUME IInv, IInv', BudgetInv, NEW w \in Workers,
         Acknowledge(w) \/ AcknowledgeDeadLetter(w) \/ LeaveForRetry(w)
  PROVE  BudgetInv'
<1>0. PICK m : m = Current(w)
  OBVIOUS
<1>1. /\ pc[w] \in Busy \ {"count"} /\ Advance(w) /\ StreamTypeOK
      /\ UNCHANGED <<cursor, dlq, crashes, failures>>
      /\ XAck(m) \/ UNCHANGED deliveries
  BY <1>0 DEF Acknowledge, AcknowledgeDeadLetter, LeaveForRetry, XAck, Busy, streamVars,
     historyVars, IInv, TypeOK
<1>2. \A n \in MsgId : deliveries'[n] # 0 => deliveries'[n] = deliveries[n]
  BY <1>1 DEF XAck, StreamTypeOK
<1>3. w \notin GivingUp(Current(w))
  BY DEF Acknowledge, AcknowledgeDeadLetter, LeaveForRetry, GivingUp, Excepting
<1> QED
  BY <1>1, <1>2, <1>3, AdvanceBudget

\* A failing attempt, or a failing acknowledgement, records one failure.
LEMMA FailingBudget ==
  ASSUME IInv, IInv', BudgetInv, NEW w \in Workers, ProcessOneFails(w) \/ AcknowledgeFails(w)
  PROVE  BudgetInv'
<1>0. PICK m : m = Current(w)
  OBVIOUS
<1>1. /\ pc[w] \in {"process", "ack"} /\ Fails(w) /\ StreamTypeOK
      /\ UNCHANGED <<todo, count, cursor, dlq, crashes>>
      /\ XAck(m) \/ UNCHANGED deliveries
  BY <1>0 DEF ProcessOneFails, AcknowledgeFails, XAck, streamVars, IInv, TypeOK
<1>2. \A n \in MsgId : deliveries'[n] # 0 => deliveries'[n] = deliveries[n]
  BY <1>1 DEF XAck, StreamTypeOK
<1> QED
  BY <1>1, <1>2, FailsBudget

\* Steps of the triggers and of the clock, and stuttering ones.
LEMMA OutsideBudget ==
  ASSUME BudgetInv,
         (\E t \in Triggers : TriggerStep(t)) \/ TimePasses \/ UNCHANGED vars
  PROVE  BudgetInv'
<1>1. UNCHANGED <<pc, todo, count, cursor, deliveries, dlq, crashes, failures>>
  BY DEF TriggerStep, SelectImages, PublishImage, AbandonRequest, XAdd, TimePasses, Tick,
     vars, streamVars, workerVars, historyVars
<1> QED
  BY <1>1 DEF BudgetInv, BatchInv, Uncounted, Pending, Ledger, MayRetry, GivingUp, Excepting,
     Current, KnownCount

\* Every step keeps the ledgers: one case per group of actions.
LEMMA NextBudget ==
  ASSUME IInv, IInv', BudgetInv, [Next]_vars
  PROVE  BudgetInv'
<1>1. ASSUME NEW w \in Workers, WorkerStep(w) PROVE BudgetInv'
  BY <1>1, ReclaimBudget, ReadNewBudget, CaptureCountBudget, LabelBudget, LeavesBudget,
     FailingBudget DEF WorkerStep
<1>2. ASSUME NEW w \in Workers, Crash(w) PROVE BudgetInv'
  BY <1>2, CrashBudget
<1> QED
  BY <1>1, <1>2, OutsideBudget DEF Next

\* The ledger of a message bounds its failures.
LEMMA BudgetImplied == IInv /\ BudgetInv => RetryBudget
<1> SUFFICES ASSUME IInv, BudgetInv, NEW m \in Pending, dlq[m] = 0
             PROVE  failures[m] <= (MaxAttempts - 1) + Cardinality(Excepting(m)) + crashes
  BY DEF RetryBudget
<1> DEFINE M == Cardinality(MayRetry(m))
           G == Cardinality(GivingUp(m))
           E == Cardinality(Excepting(m))
<1>1. m \in MsgId /\ TypeOK /\ Ledger(m)
  BY DEF BudgetInv, IInv, Pending
<1>2. /\ failures[m] \in Nat /\ crashes \in Nat /\ MaxAttempts \in Nat \ {0}
      /\ deliveries[m] \in Nat
  BY <1>1, ConstantFacts DEF TypeOK, StreamTypeOK
<1>3. M \in Nat /\ G \in Nat
  BY LedgerSets, CountSplit
<1>4. E \in Nat /\ G <= E
  <2>1. Excepting(m) \subseteq Workers /\ GivingUp(m) \subseteq Excepting(m)
    BY DEF Excepting, GivingUp
  <2>2. IsFiniteSet(Excepting(m))
    BY <2>1, FS_Subset, PipelineAssumption
  <2> QED
    BY <2>1, <2>2, FS_Subset, FS_CardinalityType
<1>5. failures[m] + M <= Capped(deliveries[m], MaxAttempts - 1) + G + crashes
  BY <1>1 DEF Ledger
<1>6. Capped(deliveries[m], MaxAttempts - 1) \in Nat
      /\ Capped(deliveries[m], MaxAttempts - 1) <= MaxAttempts - 1
  BY <1>2 DEF Capped
<1> HIDE DEF M, G, E
<1>7. failures[m] <= (MaxAttempts - 1) + E + crashes
  BY <1>2, <1>3, <1>4, <1>5, <1>6
<1> QED
  BY <1>7 DEF E

\* A pending message that is not in the dead-letter stream has failed at most once
\* per delivery before its last, whatever number of workers read, reclaim and
\* count its deliveries, and one more time per death (RetryBudget).
THEOREM RetriesBounded == Spec => []RetryBudget
<1>1. Init => BudgetInv
  <2> SUFFICES ASSUME Init PROVE BudgetInv
    OBVIOUS
  <2>1. Pending = {}
    BY DEF Init, StreamInit, Pending
  <2> QED
    BY <2>1 DEF Init, BudgetInv, BatchInv, Idling, Busy, Uncounted
<1>2. IInv /\ IInv' /\ BudgetInv /\ [Next]_vars => BudgetInv'
  BY NextBudget
<1> QED
  BY <1>1, <1>2, BudgetImplied, InductiveInvariant, PTL DEF Spec
=============================================================================
