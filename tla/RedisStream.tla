---------------------------- MODULE RedisStream ----------------------------
(***************************************************************************)
(* The Redis side of the indexing queue, as RedisStreamsQueue uses it: one *)
(* append-only stream, one consumer group created at id 0, the group's     *)
(* pending entries list (PEL) and the dead-letter stream.                  *)
(*                                                                         *)
(* Message ids are the positions in the stream.  The owner of a pending    *)
(* entry is left out: no call of RedisStreamsQueue reads it (XACK and      *)
(* XAUTOCLAIM act on the group whatever the consumer).                     *)
(***************************************************************************)
EXTENDS Domain, Sequences

CONSTANTS
  MaxMessages,  \* bound of the model: number of XADDs to the stream
  BatchSize,    \* POLL_BATCH_SIZE: messages returned by one read
  MaxAttempts,  \* settings.indexing_max_delivery_attempts
  MinIdle       \* _RETRY_MIN_IDLE_MS, in ticks of the model's time

ASSUME QueueAssumption ==
  /\ MaxMessages \in Nat
  /\ BatchSize \in Nat \ {0}
  /\ MaxAttempts \in Nat \ {0}
  /\ MinIdle \in Nat \ {0}

VARIABLES
  stream,      \* image ids, in publication order (never trimmed)
  cursor,      \* last id delivered to the group
  deliveries,  \* times_delivered of each PEL entry, 0: not in the PEL
  age,         \* idle time of each PEL entry, saturating at MinIdle
  dlq          \* entries of the dead-letter stream per message, saturating

streamVars == <<stream, cursor, deliveries, age, dlq>>

MsgId == 1..MaxMessages

(* The code compares times_delivered with MaxAttempts only, and nothing    *)
(* tells two dead-letter entries of a message from three: these counters   *)
(* saturate.                                                               *)
CountCap == MaxAttempts
DlqCap   == 2

Published == 1..Len(stream)
Pending   == {m \in MsgId : deliveries[m] > 0}
Closed    == {m \in 1..cursor : deliveries[m] = 0}

StreamTypeOK ==
  /\ stream \in Seq(Images) /\ Len(stream) <= MaxMessages
  /\ cursor \in 0..Len(stream)
  /\ deliveries \in [MsgId -> 0..CountCap]
  /\ age \in [MsgId -> 0..MinIdle]
  /\ dlq \in [MsgId -> 0..DlqCap]

StreamInit ==
  /\ stream = <<>>
  /\ cursor = 0
  /\ deliveries = [m \in MsgId |-> 0]
  /\ age = [m \in MsgId |-> 0]
  /\ dlq = [m \in MsgId |-> 0]

-----------------------------------------------------------------------------
(* The commands, as parts of the actions of the processes that issue them. *)

\* publish_image_for_indexing: XADD, bounded by MaxMessages.
XAdd(i) ==
  /\ Len(stream) < MaxMessages
  /\ stream' = Append(stream, i)
  /\ UNCHANGED <<cursor, deliveries, age, dlq>>

\* XAUTOCLAIM min-idle-time start 0-0: any entry idle long enough, whichever
\* consumer it was delivered to.
Reclaimable == {m \in Pending : age[m] >= MinIdle}

XAutoClaim(S) ==
  /\ deliveries' = [m \in MsgId |->
        IF m \in S THEN Capped(deliveries[m] + 1, CountCap) ELSE deliveries[m]]
  /\ age' = [m \in MsgId |-> IF m \in S THEN 0 ELSE age[m]]
  /\ UNCHANGED <<stream, cursor, dlq>>

\* Mutation: the end of the stream is ignored.
ReadPastEnd == cursor + BatchSize

\* XREADGROUP ">" COUNT BatchSize: the next ids never delivered to the group.
ReadUpTo == Capped(cursor + BatchSize, Len(stream))
Unread   == cursor + 1 .. ReadUpTo

XReadGroup ==
  /\ cursor' = ReadUpTo
  /\ deliveries' = [m \in MsgId |-> IF m \in Unread THEN 1 ELSE deliveries[m]]
  /\ UNCHANGED <<stream, age, dlq>>

\* Mutation: the count of a reclaimed message starts afresh.
AlwaysFirstDelivery(m) == 1

\* _delivery_count: XPENDING on one id, 1 when the entry has left the PEL.
DeliveryCount(m) == IF deliveries[m] = 0 THEN 1 ELSE deliveries[m]

\* XACK: removes the entry of the group, whichever consumer holds it.
XAck(m) ==
  /\ deliveries' = [deliveries EXCEPT ![m] = 0]
  /\ age' = [age EXCEPT ![m] = 0]
  /\ UNCHANGED <<stream, cursor, dlq>>

\* First half of dead_letter: XADD to the dead-letter stream.
XAddDeadLetter(m) ==
  /\ dlq' = [dlq EXCEPT ![m] = Capped(@ + 1, DlqCap)]
  /\ UNCHANGED <<stream, cursor, deliveries, age>>

\* Redis's clock: every pending entry gets one tick older.
Tick ==
  /\ \E m \in Pending : age[m] < MinIdle
  /\ age' = [m \in MsgId |->
        IF m \in Pending THEN Capped(age[m] + 1, MinIdle) ELSE age[m]]
  /\ UNCHANGED <<stream, cursor, deliveries, dlq>>
=============================================================================
