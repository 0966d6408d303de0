---------------------------- MODULE QueueMonitor ----------------------------
(***************************************************************************)
(* The supervision of the indexing queue: RedisQueueMonitor reads the      *)
(* group, its consumers and the length of the dead-letter stream by three  *)
(* commands, while workers poll, handle their batches and die.             *)
(*                                                                         *)
(* Time passes in units.  Redis resets a consumer's idle time when it      *)
(* claims or reads, a message's when it is delivered; acknowledging resets *)
(* nothing.  Whether an image fails, and for the last time, is left open   *)
(* (IndexingPipeline counts the attempts).                                 *)
(***************************************************************************)
EXTENDS Naturals, FiniteSets

CONSTANTS
  Consumers,       \* workers; each start of a process has a name of its own
  PollInterval,    \* POLL_INTERVAL_SECONDS, in units of time
  ActiveThreshold, \* ACTIVE_IDLE_THRESHOLD_SECONDS
  RetryIdle,       \* _RETRY_MIN_IDLE_MS
  PollBatch,       \* POLL_BATCH_SIZE
  MaxPublished     \* bound of the model: messages published

ASSUME QueueMonitorAssumption ==
  /\ PollInterval \in Nat \ {0} /\ ActiveThreshold \in Nat /\ RetryIdle \in Nat
  /\ PollInterval < ActiveThreshold
  /\ PollBatch \in Nat \ {0} /\ MaxPublished \in Nat

Messages == 1..MaxPublished  \* in the order of the stream

VARIABLES
  waiting,  \* messages of the stream not delivered to the group
  holder,   \* consumer of each message delivered and not acknowledged
  age,      \* units since each of those was delivered, up to RetryIdle
  batch,    \* messages each worker has read and not handled yet
  idle,     \* units since it claimed or read, up to ActiveThreshold
  life,     \* "new", "asleep" (between two polls), "busy", "dead"
  published,\* history: number of messages published
  dead,     \* has the dead-letter stream an entry
  grouped,  \* does the group exist
  group,    \* the status read: lag and pending of XINFO GROUPS
  workers,  \*   the consumers of XINFO CONSUMERS
  letters,  \*   is XLEN of the dead-letter stream positive
  step      \* next command of the reading, or "done"

queue  == <<waiting, holder, age, batch, idle, life, published, dead, grouped>>
status == <<group, workers, letters, step>>
queueVars == <<queue, status>>

Nobody == "nobody"
Delivered == {m \in Messages : holder[m] # Nobody}
PendingOf(c) == Cardinality({m \in Messages : holder[m] = c})

QueueTypeOK ==
  /\ waiting \subseteq 1..published /\ published \in 0..MaxPublished
  /\ holder \in [Messages -> Consumers \cup {Nobody}]
  /\ waiting \cap Delivered = {}
  /\ age \in [Messages -> 0..RetryIdle]
  /\ batch \in [Consumers -> SUBSET Messages]
  /\ \A c \in Consumers : batch[c] # {} => life[c] \in {"busy", "dead"}
  /\ idle \in [Consumers -> 0..ActiveThreshold]
  /\ life \in [Consumers -> {"new", "asleep", "busy", "dead"}]
  /\ {dead, grouped} \subseteq BOOLEAN /\ (letters => dead)
  /\ group \in [lag : 0..MaxPublished, pending : 0..MaxPublished]
  /\ workers \subseteq [name : Consumers, pending : 0..MaxPublished, idle : 0..ActiveThreshold]
  /\ step \in {"group", "workers", "letters", "done"}

\* Each start of the API or of a worker creates the group, at the beginning of
\* the stream; it does not exist when Redis was emptied since.
QueueInit ==
  /\ waiting = {} /\ published = 0 /\ dead = FALSE
  /\ holder = [m \in Messages |-> Nobody]
  /\ age = [m \in Messages |-> 0]
  /\ batch = [c \in Consumers |-> {}]
  /\ idle = [c \in Consumers |-> 0]
  /\ life = [c \in Consumers |-> "new"]
  /\ group = [lag |-> 0, pending |-> 0] /\ workers = {} /\ letters = FALSE
  /\ step = "group"
  /\ grouped \in BOOLEAN

-----------------------------------------------------------------------------
(* The queue and its workers.                                              *)
Publish ==
  /\ published < MaxPublished
  /\ published' = published + 1 /\ waiting' = waiting \cup {published + 1}
  /\ UNCHANGED <<holder, age, batch, idle, life, dead, grouped, status>>

\* The first PollBatch messages of S.
First(S) == {m \in S : Cardinality({n \in S : n < m}) < PollBatch}

\* XAUTOCLAIM's messages, its own ones included, or else XREADGROUP's.
Readable ==
  LET old == {m \in Delivered : age[m] >= RetryIdle}
  IN IF old # {} THEN First(old) ELSE First(waiting)

\* read_pending: after a batch at once, after an empty answer when it wakes up;
\* a new worker has created the group.
Poll(c) ==
  /\ life[c] \in {"new", "asleep", "busy"} /\ batch[c] = {}
  /\ batch' = [batch EXCEPT ![c] = Readable]
  /\ holder' = [m \in Messages |-> IF m \in Readable THEN c ELSE holder[m]]
  /\ age' = [m \in Messages |-> IF m \in Readable THEN 0 ELSE age[m]]
  /\ waiting' = waiting \ Readable
  /\ idle' = [idle EXCEPT ![c] = 0]
  /\ life' = [life EXCEPT ![c] = IF Readable = {} THEN "asleep" ELSE "busy"]
  /\ grouped' = TRUE
  /\ UNCHANGED <<published, dead, status>>

\* The next message of the batch is acknowledged, or moved to the dead
\* letters first, or left for a retry.
Handle(c) ==
  /\ life[c] = "busy"
  /\ \E m \in batch[c] :
       /\ \A n \in batch[c] : m <= n
       /\ batch' = [batch EXCEPT ![c] = @ \ {m}]
       /\ \/ holder' = [holder EXCEPT ![m] = Nobody] /\ age' = [age EXCEPT ![m] = 0]
             /\ dead' \in {dead, TRUE}
          \/ UNCHANGED <<holder, age, dead>>
  /\ UNCHANGED <<waiting, idle, life, published, grouped, status>>

Die(c) ==
  /\ life[c] \in {"asleep", "busy"}
  /\ life' = [life EXCEPT ![c] = "dead"]
  /\ UNCHANGED <<waiting, holder, age, batch, idle, published, dead, grouped, status>>

Older(n, cap) == IF n < cap THEN n + 1 ELSE n

\* A worker that sleeps polls again in time; a batch takes the time it takes.
Tick ==
  /\ \A c \in Consumers : life[c] = "asleep" => idle[c] < PollInterval
  /\ idle' = [c \in Consumers |->
       IF life[c] = "new" THEN 0 ELSE Older(idle[c], ActiveThreshold)]
  /\ age' = [m \in Messages |-> IF m \in Delivered THEN Older(age[m], RetryIdle) ELSE 0]
  /\ UNCHANGED <<waiting, holder, batch, life, published, dead, grouped, status>>

-----------------------------------------------------------------------------
(* RedisQueueMonitor.collect.                                              *)

\* A lag that Redis cannot compute (messages were removed by hand) counts as 0.
FindGroup ==
  /\ step = "group" /\ grouped
  /\ \E lag \in {Cardinality(waiting), 0} :
       group' = [lag |-> lag, pending |-> Cardinality(Delivered)]
  /\ step' = "workers"
  /\ UNCHANGED <<queue, workers, letters>>

\* Without a group the queue is shown as empty, whatever the stream holds.
FindNoGroup ==
  /\ step = "group" /\ ~grouped
  /\ group' = [lag |-> 0, pending |-> 0] /\ workers' = {}
  /\ step' = "letters"
  /\ UNCHANGED <<queue, letters>>

CollectWorkers ==
  /\ step = "workers"
  /\ workers' = {[name |-> c, pending |-> PendingOf(c), idle |-> idle[c]] :
                   c \in {d \in Consumers : life[d] # "new"}}
  /\ step' = "letters"
  /\ UNCHANGED <<queue, group, letters>>

StreamLength ==
  /\ step = "letters"
  /\ letters' = dead
  /\ step' = "done"
  /\ UNCHANGED <<queue, group, workers>>

QueueNext ==
  \/ Publish \/ Tick
  \/ \E c \in Consumers : Poll(c) \/ Handle(c) \/ Die(c)
  \/ FindGroup \/ FindNoGroup \/ CollectWorkers \/ StreamLength

-----------------------------------------------------------------------------
(* IndexingQueueStatus.                                                    *)

\* Mutation: the threshold is the interval of the polls.
ActiveWithinInterval(w) == w.idle < PollInterval

IsActive(w)  == w.idle < ActiveThreshold
IsWorking(w) == w.pending > 0

\* Mutation: the pending messages are those of the consumers, read later.
PendingOfWorkers == Cardinality({x \in workers \X Messages : x[2] <= x[1].pending})
BacklogOfWorkers == group.lag + PendingOfWorkers

Backlog      == group.lag + group.pending
IsStalled    == Backlog > 0 /\ ~\E w \in workers : IsActive(w)

\* What the dashboard receives.
Response ==
  [backlog |-> Backlog, is_stalled |-> IsStalled, has_dead_letters |-> letters,
   workers |-> {[name |-> w.name, is_active |-> IsActive(w), is_working |-> IsWorking(w)] :
                  w \in workers}]

\* The consumers were read and nothing has happened to c since.
AsRead(c) ==
  /\ step \in {"letters", "done"}
  /\ \E w \in workers : w.name = c /\ w.pending = PendingOf(c) /\ w.idle = idle[c]

(* A worker that sleeps between two polls always shows as active: when the *)
(* queue is said to be stalled, every consumer is dead or on a batch that  *)
(* it has read before.  Nobody is free to take the work.                   *)
StalledIsNobodyPolling ==
  Response.is_stalled => \A c \in Consumers : AsRead(c) => life[c] \in {"dead", "busy"}

(* "Un worker a demarrer, pas une lenteur": when the queue is said to be   *)
(* stalled, the consumers are dead processes or live ones without work,    *)
(* never one that has been long on its images.                             *)
StalledIsNoSlowness ==
  Response.is_stalled => \A c \in Consumers : AsRead(c) => life[c] = "dead" \/ batch[c] = {}

(* A message counts once in the backlog, though it may be delivered while  *)
(* the status is read: both parts come from one command.                   *)
BacklogCountsOnce == Response.backlog <= published
=============================================================================
