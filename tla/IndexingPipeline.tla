-------------------------- MODULE IndexingPipeline --------------------------
(***************************************************************************)
(* The indexing pipeline: API processes that trigger the indexing, the     *)
(* Redis stream, and the worker processes that read it, index the images   *)
(* in PostgreSQL, acknowledge, retry and dead-letter.                      *)
(*                                                                         *)
(* A step is one command sent to Redis or one PostgreSQL transaction, so   *)
(* that the workers interleave between any two of them and may die there.  *)
(* A worker handles its batch in id order, the order of both read commands, *)
(* so the batch is kept as a set whose first element is being handled.     *)
(***************************************************************************)
EXTENDS RedisStream, ImageIndex

CONSTANTS
  Workers,         \* consumers: one process each
  WorkerVersion,   \* settings.model_version of each worker process
  Triggers,        \* API processes
  TriggerVersion,  \* settings.model_version of the API
  BatchLimit,      \* batch_limit of POST /admin/indexing/trigger
  MaxCrashes       \* bound of the model: number of worker deaths

ASSUME PipelineAssumption ==
  /\ IsFiniteSet(Workers)
  /\ WorkerVersion \in [Workers -> Versions]
  /\ TriggerVersion \in Versions
  /\ BatchLimit \in Nat \ {0}
  /\ MaxCrashes \in Nat

VARIABLES
  pc,         \* where each worker stands in run_worker
  todo,       \* messages of the batch still to handle, per worker
  count,      \* delivery_count captured by read_pending, 0: not read yet
  toPublish,  \* images each trigger request has selected and not published
  crashes,    \* number of worker deaths so far
  committed,  \* history: messages whose transaction some worker committed
  failures    \* history: failed attempts per message, saturating

workerVars  == <<pc, todo, count>>
historyVars == <<committed, failures>>
vars == <<streamVars, indexVars, workerVars, toPublish, crashes, historyVars>>

Idling == {"poll", "read"}
Busy   == {"count", "process", "ack", "except", "ackDead"}

FailureCap == MaxAttempts + MaxCrashes + Cardinality(Workers)

TypeOK ==
  /\ StreamTypeOK
  /\ IndexTypeOK
  /\ pc \in [Workers -> Idling \cup Busy]
  /\ todo \in [Workers -> SUBSET MsgId]
  /\ count \in [Workers -> [MsgId -> 0..CountCap]]
  /\ toPublish \in [Triggers -> SUBSET Images]
  /\ crashes \in 0..MaxCrashes
  /\ committed \subseteq MsgId
  /\ failures \in [MsgId -> 0..FailureCap]

NoCount == [m \in MsgId |-> 0]

Init ==
  /\ StreamInit
  /\ IndexInit
  /\ pc = [w \in Workers |-> "poll"]
  /\ todo = [w \in Workers |-> {}]
  /\ count = [w \in Workers |-> NoCount]
  /\ toPublish = [t \in Triggers |-> {}]
  /\ crashes = 0
  /\ committed = {}
  /\ failures = [m \in MsgId |-> 0]

-----------------------------------------------------------------------------
(* TriggerIndexingUseCase: one query, then one XADD per image.             *)

SelectImages(t) ==
  /\ toPublish[t] = {}
  /\ toPublish' = [toPublish EXCEPT ![t] =
        Oldest(NeedsIndexing(TriggerVersion), BatchLimit)]
  /\ UNCHANGED <<streamVars, indexVars, workerVars, crashes, historyVars>>

PublishImage(t) ==
  /\ toPublish[t] # {}
  /\ XAdd(First(toPublish[t]))
  /\ toPublish' = [toPublish EXCEPT ![t] = @ \ {First(@)}]
  /\ UNCHANGED <<indexVars, workerVars, crashes, historyVars>>

\* Redis refuses the XADD or the API process dies: the rest is not published.
AbandonRequest(t) ==
  /\ toPublish[t] # {}
  /\ toPublish' = [toPublish EXCEPT ![t] = {}]
  /\ UNCHANGED <<streamVars, indexVars, workerVars, crashes, historyVars>>

-----------------------------------------------------------------------------
(* read_pending, and the sleep when it returns nothing.                    *)

GoTo(w, label) == pc' = [pc EXCEPT ![w] = label]

Take(w, S) ==
  /\ todo' = [todo EXCEPT ![w] = S]
  /\ count' = [count EXCEPT ![w] = NoCount]
  /\ GoTo(w, "count")

Reclaim(w) ==
  LET claimed == Oldest(Reclaimable, BatchSize)
  IN  /\ pc[w] = "poll"
      /\ Reclaimable # {}
      /\ XAutoClaim(claimed)
      /\ Take(w, claimed)
      /\ UNCHANGED <<indexVars, toPublish, crashes, historyVars>>

NothingToReclaim(w) ==
  /\ pc[w] = "poll"
  /\ Reclaimable = {}
  /\ GoTo(w, "read")
  /\ UNCHANGED <<streamVars, indexVars, todo, count, toPublish, crashes, historyVars>>

ReadNew(w) ==
  /\ pc[w] = "read"
  /\ Unread # {}
  /\ XReadGroup
  /\ Take(w, Unread)
  /\ UNCHANGED <<indexVars, toPublish, crashes, historyVars>>

\* The sleep before the next poll is a delay like any other.
NothingNew(w) ==
  /\ pc[w] = "read"
  /\ Unread = {}
  /\ GoTo(w, "poll")
  /\ UNCHANGED <<streamVars, indexVars, todo, count, toPublish, crashes, historyVars>>

Uncounted(w) == {m \in todo[w] : count[w][m] = 0}

\* One XPENDING per message of the batch, after the read has returned.
CaptureCount(w) ==
  LET m == First(Uncounted(w))
  IN  /\ pc[w] = "count"
      /\ count' = [count EXCEPT ![w][m] = DeliveryCount(m)]
      /\ GoTo(w, IF Uncounted(w) = {m} THEN "process" ELSE "count")
      /\ UNCHANGED <<streamVars, indexVars, todo, toPublish, crashes, historyVars>>

-----------------------------------------------------------------------------
(* The body of the for loop of run_worker.                                 *)

Current(w) == First(todo[w])

\* On to the next message of the batch, or to the next read.
Advance(w) ==
  /\ todo' = [todo EXCEPT ![w] = @ \ {Current(w)}]
  /\ count' = [count EXCEPT ![w][Current(w)] = 0]
  /\ GoTo(w, IF todo[w] = {Current(w)} THEN "poll" ELSE "process")

Fails(w) ==
  /\ failures' = [failures EXCEPT ![Current(w)] = Capped(@ + 1, FailureCap)]
  /\ GoTo(w, "except")

ProcessOne(w) ==
  /\ pc[w] = "process"
  /\ IndexImage(stream[Current(w)], WorkerVersion[w])
  /\ committed' = committed \cup {Current(w)}
  /\ GoTo(w, "ack")
  /\ UNCHANGED <<streamVars, todo, count, toPublish, crashes, failures>>

\* The storage, the detector, the embedder or the database raises: rollback.
\* It may happen at each attempt, as it does for an image that cannot be read.
ProcessOneFails(w) ==
  /\ pc[w] = "process"
  /\ Fails(w)
  /\ UNCHANGED <<streamVars, indexVars, todo, count, toPublish, crashes, committed>>

Acknowledge(w) ==
  /\ pc[w] = "ack"
  /\ XAck(Current(w))
  /\ Advance(w)
  /\ UNCHANGED <<indexVars, toPublish, crashes, historyVars>>

\* The call raises, before or after Redis has executed the XACK.
AcknowledgeFails(w) ==
  /\ pc[w] = "ack"
  /\ \/ XAck(Current(w))
     \/ UNCHANGED streamVars
  /\ Fails(w)
  /\ UNCHANGED <<indexVars, todo, count, toPublish, crashes, committed>>

\* Mutation: one delivery too many.
ExhaustedLate(n) == n > MaxAttempts
Exhausted(n) == n >= MaxAttempts

\* Mutation: the message is acknowledged in a finally clause.
AcknowledgeAnyway(w) ==
  /\ pc[w] = "except"
  /\ ~Exhausted(count[w][Current(w)])
  /\ XAck(Current(w))
  /\ Advance(w)
  /\ UNCHANGED <<indexVars, toPublish, crashes, historyVars>>

LeaveForRetry(w) ==
  /\ pc[w] = "except"
  /\ ~Exhausted(count[w][Current(w)])
  /\ Advance(w)
  /\ UNCHANGED <<streamVars, indexVars, toPublish, crashes, historyVars>>

\* Mutation: dead_letter acknowledges first, and never reaches the XADD.
AcknowledgeFirst(w) ==
  /\ pc[w] = "except"
  /\ Exhausted(count[w][Current(w)])
  /\ XAck(Current(w))
  /\ GoTo(w, "ackDead")
  /\ UNCHANGED <<indexVars, todo, count, toPublish, crashes, historyVars>>

DeadLetter(w) ==
  /\ pc[w] = "except"
  /\ Exhausted(count[w][Current(w)])
  /\ XAddDeadLetter(Current(w))
  /\ GoTo(w, "ackDead")
  /\ UNCHANGED <<indexVars, todo, count, toPublish, crashes, historyVars>>

AcknowledgeDeadLetter(w) ==
  /\ pc[w] = "ackDead"
  /\ XAck(Current(w))
  /\ Advance(w)
  /\ UNCHANGED <<indexVars, toPublish, crashes, historyVars>>

-----------------------------------------------------------------------------
(* Deaths: killed, or an exception outside the try (a read, dead_letter).  *)
(* The container's restart policy starts a new process, which polls.       *)
Crash(w) ==
  /\ crashes < MaxCrashes
  /\ crashes' = crashes + 1
  /\ todo' = [todo EXCEPT ![w] = {}]
  /\ count' = [count EXCEPT ![w] = NoCount]
  /\ GoTo(w, "poll")
  /\ UNCHANGED <<streamVars, indexVars, toPublish, historyVars>>

TimePasses ==
  /\ Tick
  /\ UNCHANGED <<indexVars, workerVars, toPublish, crashes, historyVars>>

-----------------------------------------------------------------------------
WorkerStep(w) ==
  \/ Reclaim(w) \/ NothingToReclaim(w)
  \/ ReadNew(w) \/ NothingNew(w)
  \/ CaptureCount(w)
  \/ ProcessOne(w) \/ ProcessOneFails(w)
  \/ Acknowledge(w) \/ AcknowledgeFails(w)
  \/ LeaveForRetry(w) \/ DeadLetter(w) \/ AcknowledgeDeadLetter(w)

TriggerStep(t) == SelectImages(t) \/ PublishImage(t) \/ AbandonRequest(t)

Next ==
  \/ \E t \in Triggers : TriggerStep(t)
  \/ \E w \in Workers : WorkerStep(w) \/ Crash(w)
  \/ TimePasses

Spec == Init /\ [][Next]_vars

\* The worker processes are scheduled, restarted when they die
\* (restart: unless-stopped) and time passes; nobody has to press the button.
FairSpec ==
  /\ Spec
  /\ \A w \in Workers : WF_vars(WorkerStep(w))
  /\ WF_vars(TimePasses)

-----------------------------------------------------------------------------
(* Properties.                                                             *)

\* No message leaves the pending list unless its image was indexed for it or
\* it is in the dead-letter stream, whatever dies or is reclaimed meanwhile.
NothingLost == \A m \in Closed : m \in committed \/ dlq[m] > 0

Excepting(m) == {w \in Workers : pc[w] = "except" /\ Current(w) = m}

\* A pending message that never reached the dead-letter stream has failed fewer
\* than MaxAttempts times, not counting the failures still being handled nor
\* those whose handling a death interrupted: retries are bounded although the
\* delivery count is read by a call of its own and by several workers.
RetryBudget == \A m \in Pending :
  dlq[m] = 0 =>
    failures[m] <= (MaxAttempts - 1) + Cardinality(Excepting(m)) + crashes

\* An image the trigger would not select has all its embeddings for the model
\* version that searches use: during a rolling upgrade no image is indexed for
\* the old version only and then forgotten.
SearchableOrSelected ==
  \A i \in Images \ NeedsIndexing(TriggerVersion) :
    EmbeddingsOf(i, TriggerVersion) \subseteq embeddings

\* The replicas do not take each other's messages in flight: no message is
\* processed by two workers at a time.
NoMessageStolen == \A w1, w2 \in Workers :
  /\ w1 # w2
  /\ pc[w1] = "process" /\ pc[w2] = "process"
  => Current(w1) # Current(w2)

\* A dead-lettered message was attempted MaxAttempts times.
AbandonedAfterAllAttempts == \A m \in MsgId :
  dlq[m] > 0 => failures[m] >= MaxAttempts

-----------------------------------------------------------------------------
(* The inductive invariant behind NothingLost.                             *)

\* A worker holds messages delivered to the group; it acknowledges the one it
\* has just indexed, or has just written to the dead-letter stream.
WorkerInv(w) ==
  /\ todo[w] \subseteq 1..cursor
  /\ pc[w] \in Busy => todo[w] # {}
  /\ pc[w] = "count" => Uncounted(w) # {}
  /\ pc[w] = "ack" => Current(w) \in committed
  /\ pc[w] = "ackDead" => dlq[Current(w)] > 0

DeliveredInv ==
  /\ Pending \subseteq 1..cursor
  /\ committed \subseteq 1..cursor

IInv ==
  /\ TypeOK
  /\ \A w \in Workers : WorkerInv(w)
  /\ DeliveredInv
  /\ NothingLost

-----------------------------------------------------------------------------
(* The inductive invariant behind RetryBudget: a ledger per message.       *)

\* The delivery count worker w has captured for m, or would capture now.
KnownCount(w, m) == IF count[w][m] = 0 THEN deliveries[m] ELSE count[w][m]

\* The workers whose attempt at m may still fail and be left for a retry.
MayRetry(m) == {w \in Workers :
  m \in todo[w] /\ w \notin Excepting(m) /\ ~Exhausted(KnownCount(w, m))}

\* The workers about to dead-letter m.
GivingUp(m) == {w \in Excepting(m) : Exhausted(count[w][m])}

\* Each delivery before the last one pays for one failure; a failure of the last
\* one is on its way to the dead-letter stream, unless a death interrupted it.
Ledger(m) ==
  failures[m] + Cardinality(MayRetry(m))
    <= Capped(deliveries[m], MaxAttempts - 1) + Cardinality(GivingUp(m)) + crashes

\* A worker that reads has no batch; one that handles it has all its counts.
BatchInv(w) ==
  /\ pc[w] \in Idling => todo[w] = {}
  /\ pc[w] \in Busy \ {"count"} => Uncounted(w) = {}

BudgetInv ==
  /\ \A w \in Workers : BatchInv(w)
  /\ \A m \in MsgId : m > cursor => failures[m] = 0
  /\ \A m \in Pending : dlq[m] = 0 => Ledger(m)

-----------------------------------------------------------------------------
(* The pipeline implements IndexingService.                                *)

Service == INSTANCE IndexingService WITH
  requests  <- stream,
  served    <- committed,
  abandoned <- {m \in MsgId : dlq[m] > 0},
  closed    <- Closed,
  indexed   <- {i \in Images : status[i] = "done"}

\* Every step of the pipeline is a step of the service or changes nothing of it.
ImplementsService == Service!Spec

\* Every message published is eventually acknowledged or dead-lettered, and by
\* NothingLost never silently, under FairSpec.
EveryMessageClosed == Service!EveryRequestClosed
=============================================================================
