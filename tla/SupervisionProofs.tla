-------------------------- MODULE SupervisionProofs --------------------------
(***************************************************************************)
(* Proofs about the administrator's screens, for every number of workers   *)
(* and messages, and every set of events, images and faces.                *)
(***************************************************************************)
EXTENDS Supervision, Orders, FunctionTheorems

-----------------------------------------------------------------------------
(* The queue.                                                              *)

\* A message is waiting or delivered, never both; a worker that sleeps polls
\* in time; what was read of the group counted each message once.
MonitorInv ==
  /\ published \in Nat
  /\ waiting \subseteq 1..published /\ Delivered \subseteq 1..published
  /\ waiting \cap Delivered = {}
  /\ holder \in [Messages -> Consumers \cup {Nobody}]
  /\ idle \in [Consumers -> Nat]
  /\ life \in [Consumers -> {"new", "asleep", "busy", "dead"}]
  /\ \A c \in Consumers : life[c] = "asleep" => idle[c] <= PollInterval
  /\ group.lag + group.pending <= published
  /\ group.lag \in Nat /\ group.pending \in Nat
  /\ \A w \in workers : w.name \in Consumers /\ life[w.name] # "new"

\* A worker that is not new never becomes so.
LEMMA NamesStay ==
  ASSUME MonitorInv, UNCHANGED workers,
         \A c \in Consumers : life[c] # "new" => life'[c] # "new"
  PROVE  \A w \in workers' : w.name \in Consumers /\ life'[w.name] # "new"
BY DEF MonitorInv

LEMMA PublishKeeps ==
  ASSUME MonitorInv, Publish PROVE MonitorInv'
<1>1. /\ published' = published + 1 /\ waiting' = waiting \cup {published + 1}
      /\ UNCHANGED <<holder, idle, life, group, workers>>
  BY DEF Publish, status
<1>2. Delivered' = Delivered
  BY <1>1 DEF Delivered
<1> QED
  BY <1>1, <1>2 DEF MonitorInv

LEMMA PollKeeps ==
  ASSUME QueueMonitorAssumption, MonitorInv, NEW c \in Consumers, Poll(c) PROVE MonitorInv'
<1>1. /\ holder' = [m \in Messages |-> IF m \in Readable THEN c ELSE holder[m]]
      /\ waiting' = waiting \ Readable
      /\ idle' = [idle EXCEPT ![c] = 0]
      /\ life' = [life EXCEPT ![c] = IF Readable = {} THEN "asleep" ELSE "busy"]
      /\ UNCHANGED <<published, group, workers>>
  BY DEF Poll, status
<1>2. Readable \subseteq waiting \cup Delivered
  BY DEF Readable, First
<1>3. Delivered' \subseteq Delivered \cup Readable /\ waiting' \cap Delivered' = {}
  BY <1>1 DEF Delivered, MonitorInv
<1>4. /\ idle' \in [Consumers -> Nat]
      /\ life' \in [Consumers -> {"new", "asleep", "busy", "dead"}]
      /\ \A d \in Consumers : life'[d] = "asleep" => idle'[d] <= PollInterval
      /\ \A d \in Consumers : life[d] # "new" => life'[d] # "new"
  BY <1>1 DEF MonitorInv, QueueMonitorAssumption
<1> QED
  BY <1>1, <1>2, <1>3, <1>4, NamesStay DEF MonitorInv

LEMMA HandleKeeps ==
  ASSUME MonitorInv, NEW c \in Consumers, Handle(c) PROVE MonitorInv'
<1>1. PICK m : \/ holder' = [holder EXCEPT ![m] = Nobody]
               \/ UNCHANGED holder
  BY DEF Handle
<1>2. UNCHANGED <<waiting, idle, life, published, group, workers>>
  BY DEF Handle, status
<1>3. Delivered' \subseteq Delivered /\ holder' \in [Messages -> Consumers \cup {Nobody}]
  BY <1>1 DEF Delivered, MonitorInv
<1> QED
  BY <1>2, <1>3 DEF MonitorInv

LEMMA DieKeeps ==
  ASSUME MonitorInv, NEW c \in Consumers, Die(c) PROVE MonitorInv'
<1>1. /\ life' = [life EXCEPT ![c] = "dead"]
      /\ UNCHANGED <<waiting, holder, idle, published, group, workers>>
  BY DEF Die, status
<1>2. Delivered' = Delivered
  BY <1>1 DEF Delivered
<1> QED
  BY <1>1, <1>2, NamesStay DEF MonitorInv

LEMMA TickKeeps ==
  ASSUME QueueMonitorAssumption, MonitorInv, Tick PROVE MonitorInv'
<1>1. /\ \A c \in Consumers : life[c] = "asleep" => idle[c] < PollInterval
      /\ idle' = [c \in Consumers |-> IF life[c] = "new" THEN 0 ELSE Older(idle[c], ActiveThreshold)]
      /\ UNCHANGED <<waiting, holder, life, published, group, workers>>
  BY DEF Tick, status
<1>2. Delivered' = Delivered
  BY <1>1 DEF Delivered
<1>3. \A n \in Nat : Older(n, ActiveThreshold) \in Nat /\ Older(n, ActiveThreshold) <= n + 1
  BY DEF Older
<1>4. idle' \in [Consumers -> Nat]
  BY <1>1, <1>3 DEF MonitorInv
<1>5. ASSUME NEW c \in Consumers, life'[c] = "asleep" PROVE idle'[c] <= PollInterval
  BY <1>1, <1>3, <1>5 DEF MonitorInv, QueueMonitorAssumption
<1> QED
  BY <1>1, <1>2, <1>4, <1>5 DEF MonitorInv

\* One command counts the messages that wait and those that are delivered.
LEMMA FindGroupKeeps ==
  ASSUME MonitorInv, FindGroup PROVE MonitorInv'
<1>1. PICK lag \in {Cardinality(waiting), 0} : group' = [lag |-> lag, pending |-> Cardinality(Delivered)]
  BY DEF FindGroup
<1>8. UNCHANGED <<waiting, holder, idle, life, published, workers>>
  BY DEF FindGroup, queue
<1>2. Delivered' = Delivered
  BY <1>8 DEF Delivered
<1>3. IsFiniteSet(1..published) /\ Cardinality(1..published) = published
  BY FS_Interval DEF MonitorInv
<1>4. IsFiniteSet(waiting) /\ IsFiniteSet(Delivered) /\ IsFiniteSet(waiting \cup Delivered)
  BY <1>3, FS_Subset DEF MonitorInv
<1>5. Cardinality(waiting \cup Delivered) <= published
  <2>1. waiting \cup Delivered \subseteq 1..published
    BY DEF MonitorInv
  <2> QED
    BY <1>3, <2>1, FS_Subset
<1>6. Cardinality(waiting \cup Delivered) = Cardinality(waiting) + Cardinality(Delivered)
  <2>1. Cardinality(waiting \cap Delivered) = 0
    BY FS_EmptySet DEF MonitorInv
  <2>2. Cardinality(waiting \cup Delivered)
          = Cardinality(waiting) + Cardinality(Delivered) - Cardinality(waiting \cap Delivered)
    BY <1>4, FS_Union
  <2> QED
    BY <1>4, <2>1, <2>2, FS_CardinalityType
<1>7. Cardinality(waiting) \in Nat /\ Cardinality(Delivered) \in Nat
  BY <1>4, FS_CardinalityType
<1>9. group'.lag = lag /\ group'.pending = Cardinality(Delivered) /\ lag \in Nat
      /\ lag + Cardinality(Delivered) <= published
  BY <1>1, <1>5, <1>6, <1>7 DEF MonitorInv
<1> QED
  BY <1>8, <1>2, <1>7, <1>9 DEF MonitorInv

LEMMA FindNoGroupKeeps ==
  ASSUME MonitorInv, FindNoGroup PROVE MonitorInv'
<1>1. /\ group' = [lag |-> 0, pending |-> 0] /\ workers' = {}
      /\ UNCHANGED <<waiting, holder, idle, life, published>>
  BY DEF FindNoGroup, queue
<1>2. Delivered' = Delivered
  BY <1>1 DEF Delivered
<1> QED
  BY <1>1, <1>2 DEF MonitorInv

LEMMA CollectWorkersKeeps ==
  ASSUME MonitorInv, CollectWorkers PROVE MonitorInv'
<1>1. /\ workers' = {[name |-> c, pending |-> PendingOf(c), idle |-> idle[c]] :
                       c \in {d \in Consumers : life[d] # "new"}}
      /\ UNCHANGED <<waiting, holder, idle, life, published, group>>
  BY DEF CollectWorkers, queue
<1>2. Delivered' = Delivered
  BY <1>1 DEF Delivered
<1>3. \A w \in workers' : w.name \in Consumers /\ life'[w.name] # "new"
  BY <1>1
<1> QED
  BY <1>1, <1>2, <1>3 DEF MonitorInv

LEMMA MonitorStutter ==
  ASSUME MonitorInv, UNCHANGED <<waiting, holder, idle, life, published, group, workers>>
  PROVE  MonitorInv'
<1>1. Delivered' = Delivered
  BY DEF Delivered
<1> QED
  BY <1>1 DEF MonitorInv

LEMMA MonitorStep ==
  ASSUME QueueMonitorAssumption, MonitorInv, QueueNext \/ UNCHANGED queueVars
  PROVE  MonitorInv'
<1>1. CASE StreamLength \/ UNCHANGED queueVars
  <2>1. UNCHANGED <<waiting, holder, idle, life, published, group, workers>>
    BY <1>1 DEF StreamLength, queueVars, queue, status
  <2> QED
    BY <2>1, MonitorStutter
<1> QED
  BY <1>1, PublishKeeps, PollKeeps, HandleKeeps, DieKeeps, TickKeeps, FindGroupKeeps,
     FindNoGroupKeeps, CollectWorkersKeeps DEF QueueNext

LEMMA MonitorStart ==
  ASSUME QueueInit PROVE MonitorInv
<1>1. Delivered = {}
  BY DEF QueueInit, Delivered
<1> QED
  BY <1>1 DEF QueueInit, MonitorInv

LEMMA MonitorInvariant == Spec => []MonitorInv
<1>1. Init => MonitorInv
  BY MonitorStart DEF Init
<1>2. MonitorInv /\ [Next]_vars => MonitorInv'
  <2> SUFFICES ASSUME MonitorInv, [Next]_vars PROVE MonitorInv'
    OBVIOUS
  <2>1. QueueNext \/ UNCHANGED queueVars
    BY DEF Next, vars
  <2> QED
    BY <2>1, MonitorStep, QueueMonitorAssumption
<1> QED
  BY <1>1, <1>2, PTL DEF Spec

(* A queue said to be stalled has no worker between two polls              *)
(* (indexing_queue.py, is_active and is_stalled): the threshold exceeds    *)
(* the interval of the polls.                                              *)
THEOREM StallIsNoFalseAlarmOfRest == Spec => []StalledIsNobodyPolling
<1>1. MonitorInv => StalledIsNobodyPolling
  <2> SUFFICES ASSUME MonitorInv, Response.is_stalled, NEW c \in Consumers, AsRead(c)
               PROVE  life[c] \in {"dead", "busy"}
    BY DEF StalledIsNobodyPolling
  <2>1. PICK w \in workers : w.name = c /\ w.idle = idle[c]
    BY DEF AsRead
  <2>2. ~(idle[c] < ActiveThreshold)
    BY <2>1 DEF Response, IsStalled, IsActive
  <2>3. life[c] # "asleep"
    BY <2>2, QueueMonitorAssumption DEF MonitorInv, QueueMonitorAssumption
  <2>4. life[c] # "new"
    BY <2>1 DEF MonitorInv
  <2> QED
    BY <2>3, <2>4 DEF MonitorInv
<1> QED
  BY <1>1, MonitorInvariant, PTL

(* No message counts twice in the backlog (redis_queue_monitor.py, one     *)
(* XINFO GROUPS for both parts), whatever is delivered meanwhile.          *)
THEOREM BacklogIsNoMoreThanPublished == Spec => []BacklogCountsOnce
<1>1. MonitorInv => BacklogCountsOnce
  BY DEF MonitorInv, BacklogCountsOnce, Response, Backlog
<1> QED
  BY <1>1, MonitorInvariant, PTL

-----------------------------------------------------------------------------
(* The readings of the database.                                           *)
DroppedIn(S) == UNION {{<<i, f>> : f \in Dropped[i]} : i \in S}
ImagesOfEvent(e) == {i \in Images : ImageEvent[i] = e}

\* Rows refer to rows, and a face that is indexed is one of an indexed image.
DatabaseInv ==
  /\ images \subseteq {i \in Images : ImageEvent[i] \in events}
  /\ done \subseteq images
  /\ \A x \in embeddings : x[1] \in done
  /\ \A x \in rejections : x[1] \in images /\ x[2] \in Dropped[x[1]]

\* What is true of a row when it is read stays true of what was read.
RowFine(row) ==
  /\ IsSearchable(row) => row.indexed > 0
  /\ row.indexed + row.pending = row.images
  /\ row.discarded <= Cardinality(DroppedIn(ImagesOfEvent(row.event)))

\* The image of a face that was read is still indexed, or its event is gone
\* for good.
FacesRead(faces) == \A x \in faces :
  x[1] \in Images /\ (ImageEvent[x[1]] \in events => x[1] \in done)

GotInv ==
  /\ \E S : got \in Seq(S)
  /\ kind \in Kinds /\ (kind = "none" => got = <<>>)
  /\ Len(got) <= Len(Statements(kind))
  /\ kind = "statistics" /\ Len(got) >= 6 => got[6] <= Cardinality(DroppedIn(Images))
  /\ kind = "list" /\ Len(got) >= 1 => \A n \in DOMAIN got[1] : RowFine(got[1][n])
  /\ kind = "detail" =>
       /\ Len(got) >= 2 => FacesRead(got[2])
       /\ Len(got) >= 3 => got[3] \subseteq DroppedIn(ImagesOfEvent(arg))
       /\ Len(got) >= 4 => \A x \in got[2] : x[1] \in got[4].all => x[1] \in got[4].done

ReadingInv == DatabaseInv /\ GotInv

LEMMA StatementsLengths ==
  /\ Len(Statements("none")) = 0 /\ Len(Statements("statistics")) = 10
  /\ Len(Statements("list")) = 2 /\ Len(Statements("detail")) = 4
BY DEF Statements

LEMMA StatementsPlaces ==
  /\ \A n \in 1..10 : Statements("statistics")[n] = "rejected" <=> n = 6
  /\ \A n \in 1..2 : Statements("list")[n] = "page" <=> n = 1
  /\ \A n \in 1..4 : /\ Statements("detail")[n] = "embeddings" <=> n = 2
                     /\ Statements("detail")[n] = "discarded" <=> n = 3
                     /\ Statements("detail")[n] = "rows" <=> n = 4
<1>1. \A n \in 1..10 : Statements("statistics")[n] = "rejected" <=> n = 6
  BY DEF Statements
<1>2. \A n \in 1..2 : Statements("list")[n] = "page" <=> n = 1
  BY DEF Statements
<1>3. \A n \in 1..4 : /\ Statements("detail")[n] = "embeddings" <=> n = 2
                      /\ Statements("detail")[n] = "discarded" <=> n = 3
                      /\ Statements("detail")[n] = "rows" <=> n = 4
  BY DEF Statements
<1> QED
  BY <1>1, <1>2, <1>3

LEMMA AppendOne ==
  ASSUME NEW s, NEW S, s \in Seq(S), NEW r
  PROVE  /\ Append(s, r) \in Seq(S \cup {r}) /\ Len(Append(s, r)) = Len(s) + 1
         /\ \A n \in 1..Len(s) : Append(s, r)[n] = s[n]
         /\ Append(s, r)[Len(s) + 1] = r
<1>1. s \in Seq(S \cup {r})
  OBVIOUS
<1> QED
  BY <1>1

\* No more faces are discarded in a set of images than the filter discarded.
LEMMA DiscardedBound ==
  ASSUME ReadingsAssumption, DatabaseInv, NEW S, S \subseteq images, NEW T, S \subseteq T, T \subseteq Images
  PROVE  /\ DiscardedFaces(S) \subseteq DroppedIn(T)
         /\ IsFiniteSet(DroppedIn(T)) /\ IsFiniteSet(DiscardedFaces(S))
         /\ Cardinality(DiscardedFaces(S)) <= Cardinality(DroppedIn(T))
<1>1. DiscardedFaces(S) \subseteq DroppedIn(T)
  BY DEF DatabaseInv, DiscardedFaces, DroppedIn
<1>2. DroppedIn(T) \subseteq UNION {{i} \X Dropped[i] : i \in Images}
  BY DEF DroppedIn
<1>3. IsFiniteSet(DroppedIn(T))
  BY <1>2, FS_Subset DEF ReadingsAssumption
<1> QED
  BY <1>1, <1>3, FS_Subset

LEMMA RowIsFine ==
  ASSUME ReadingsAssumption, DatabaseInv, NEW e
  PROVE  RowFine(Row(e))
<1> DEFINE own == ImagesOf(e)
<1>1. own \subseteq images /\ own \subseteq ImagesOfEvent(e) /\ ImagesOfEvent(e) \subseteq Images
  BY DEF ImagesOf, ImagesOfEvent, DatabaseInv
<1>2. IsFiniteSet(own)
  <2>1. own \subseteq Images
    BY <1>1
  <2> QED
    BY <2>1, FS_Subset DEF ReadingsAssumption
<1>3. IsFiniteSet(own \cap done) /\ IsFiniteSet(own \ done)
  BY <1>2, FS_Subset
<1>4. Cardinality(own) = Cardinality(own \cap done) + Cardinality(own \ done)
  <2>1. own = (own \cap done) \cup (own \ done) /\ (own \cap done) \cap (own \ done) = {}
    OBVIOUS
  <2>2. Cardinality((own \cap done) \cap (own \ done)) = 0
    BY <2>1, FS_EmptySet
  <2>3. Cardinality((own \cap done) \cup (own \ done))
          = Cardinality(own \cap done) + Cardinality(own \ done)
            - Cardinality((own \cap done) \cap (own \ done))
    BY <1>3, FS_Union
  <2>4. Cardinality(own \cap done) \in Nat /\ Cardinality(own \ done) \in Nat
    BY <1>3, FS_CardinalityType
  <2>5. Cardinality(own) = Cardinality((own \cap done) \cup (own \ done))
    BY <2>1, Zenon
  <2> HIDE DEF own
  <2> QED
    BY <2>2, <2>3, <2>4, <2>5
<1>5. Row(e).faces > 0 => Cardinality(own \cap done) > 0
  <2> DEFINE faces == {x \in embeddings : x[1] \in own /\ x[2] = Current}
  <2>1. Row(e).faces = Cardinality(faces)
    BY DEF Row
  <2>2. CASE faces = {}
    <3> HIDE DEF faces
    <3>1. Cardinality(faces) = 0
      BY <2>2, FS_EmptySet
    <3> QED
      BY <2>1, <3>1
  <2>3. ASSUME NEW x \in faces PROVE Cardinality(own \cap done) > 0
    <3>1. own \cap done # {}
      BY DEF DatabaseInv
    <3>2. Cardinality(own \cap done) # 0 /\ Cardinality(own \cap done) \in Nat
      BY <1>3, <3>1, FS_EmptySet, FS_CardinalityType
    <3> QED
      BY <3>2
  <2> QED
    BY <2>2, <2>3
<1>6. Cardinality(DiscardedFaces(own)) <= Cardinality(DroppedIn(ImagesOfEvent(e)))
  BY <1>1, DiscardedBound
<1> HIDE DEF own
<1>7. /\ Row(e).event = e /\ Row(e).images = Cardinality(own)
      /\ Row(e).indexed = Cardinality(own \cap done) /\ Row(e).pending = Cardinality(own \ done)
      /\ Row(e).discarded = Cardinality(DiscardedFaces(own))
  BY DEF Row, own
<1> QED
  BY <1>4, <1>5, <1>6, <1>7 DEF RowFine, IsSearchable

\* A change of the database disturbs no reading that satisfies GotInv.
LEMMA ChangeKeepsGot ==
  ASSUME GotInv, UNCHANGED reading, events' \subseteq events,
         \A i \in Images : ImageEvent[i] \in events' /\ i \in done => i \in done'
  PROVE  GotInv'
<1>1. kind' = kind /\ arg' = arg /\ got' = got
  BY DEF reading
<1>2. kind = "detail" /\ Len(got) >= 2 => FacesRead(got[2])'
  BY <1>1 DEF GotInv, FacesRead
<1>3. /\ \E S : got' \in Seq(S)
      /\ kind' \in Kinds /\ (kind' = "none" => got' = <<>>)
      /\ Len(got') <= Len(Statements(kind'))
      /\ kind' = "statistics" /\ Len(got') >= 6 => got'[6] <= Cardinality(DroppedIn(Images))
      /\ kind' = "list" /\ Len(got') >= 1 => \A n \in DOMAIN got'[1] : RowFine(got'[1][n])
  BY <1>1 DEF GotInv
<1>4. kind' = "detail" =>
       /\ Len(got') >= 2 => FacesRead(got[2])'
       /\ Len(got') >= 3 => got'[3] \subseteq DroppedIn(ImagesOfEvent(arg'))
       /\ Len(got') >= 4 => \A x \in got'[2] : x[1] \in got'[4].all => x[1] \in got'[4].done
  BY <1>1, <1>2 DEF GotInv
<1> QED
  BY <1>1, <1>3, <1>4 DEF GotInv

LEMMA ImportImageKeeps ==
  ASSUME ReadingInv, NEW i \in Images, ImportImage(i) PROVE ReadingInv'
<1>1. /\ images' = images \cup {i} /\ ImageEvent[i] \in events
      /\ UNCHANGED <<events, done, embeddings, rejections>> /\ UNCHANGED reading
  BY DEF ImportImage, Change
<1>2. DatabaseInv'
  BY <1>1 DEF ReadingInv, DatabaseInv
<1>3. GotInv'
  BY <1>1, ChangeKeepsGot DEF ReadingInv
<1> QED
  BY <1>2, <1>3 DEF ReadingInv

LEMMA IndexImageKeeps ==
  ASSUME ReadingInv, NEW i \in Images, NEW v \in Versions, IndexImage(i, v) PROVE ReadingInv'
<1>1. /\ i \in images /\ done' = done \cup {i}
      /\ embeddings' = embeddings \cup {<<i, v, f>> : f \in Kept[i]}
      /\ rejections' \subseteq rejections \cup {<<i, f, n>> : f \in Dropped[i], n \in Attempts}
      /\ UNCHANGED <<events, images>> /\ UNCHANGED reading
  BY DEF IndexImage, Change
<1>2. \A x \in embeddings' : x[1] \in done'
  BY <1>1 DEF ReadingInv, DatabaseInv
<1>3. \A x \in rejections' : x[1] \in images' /\ x[2] \in Dropped[x[1]]
  BY <1>1 DEF ReadingInv, DatabaseInv
<1>4. DatabaseInv'
  BY <1>1, <1>2, <1>3 DEF ReadingInv, DatabaseInv
<1>5. GotInv'
  BY <1>1, ChangeKeepsGot DEF ReadingInv
<1> QED
  BY <1>4, <1>5 DEF ReadingInv

LEMMA RecordSearchKeeps ==
  ASSUME ReadingInv, NEW found, RecordSearch(found) PROVE ReadingInv'
<1>1. UNCHANGED <<events, images, done, embeddings, rejections>> /\ UNCHANGED reading
  BY DEF RecordSearch, Change
<1>2. DatabaseInv'
  BY <1>1 DEF ReadingInv, DatabaseInv
<1>3. GotInv'
  BY <1>1, ChangeKeepsGot DEF ReadingInv
<1> QED
  BY <1>2, <1>3 DEF ReadingInv

LEMMA DeleteEventKeeps ==
  ASSUME ReadingInv, NEW e \in Events, DeleteEvent(e) PROVE ReadingInv'
<1> DEFINE left == {i \in images : ImageEvent[i] # e}
<1>1. /\ events' = events \ {e} /\ images' = left /\ done' = done \cap left
      /\ embeddings' = {x \in embeddings : x[1] \in left}
      /\ rejections' = {x \in rejections : x[1] \in left}
      /\ UNCHANGED reading
  BY DEF DeleteEvent, Change
<1>2. DatabaseInv'
  BY <1>1 DEF ReadingInv, DatabaseInv
<1>3. \A i \in Images : ImageEvent[i] \in events' /\ i \in done => i \in done'
  BY <1>1 DEF ReadingInv, DatabaseInv
<1>4. GotInv'
  BY <1>1, <1>3, ChangeKeepsGot DEF ReadingInv
<1> QED
  BY <1>2, <1>4 DEF ReadingInv

LEMMA StartReadingKeeps ==
  ASSUME ReadingInv, NEW k \in Kinds, NEW a, StartReading(k, a) PROVE ReadingInv'
<1>1. /\ kind' = k /\ got = <<>> /\ got' = <<>>
      /\ UNCHANGED <<events, images, done, embeddings, rejections>>
  BY DEF StartReading, ReadingInv, GotInv, database
<1>2. DatabaseInv'
  BY <1>1 DEF ReadingInv, DatabaseInv
<1>3. Len(got') = 0 /\ \E S : got' \in Seq(S)
  BY <1>1 DEF ReadingInv, GotInv
<1>4. Len(got') <= Len(Statements(kind'))
  BY <1>1, <1>3, StatementsLengths DEF Kinds
<1>5. GotInv'
  BY <1>1, <1>3, <1>4 DEF GotInv
<1> QED
  BY <1>2, <1>5 DEF ReadingInv

LEMMA ReadKeeps ==
  ASSUME ReadingsAssumption, ReadingInv, Read PROVE ReadingInv'
<1> DEFINE n == Len(got) + 1
           r == Result(Statements(kind)[n])
<1>1. /\ Len(got) < Len(Statements(kind)) /\ got' = Append(got, r)
      /\ UNCHANGED <<events, images, done, embeddings, rejections, kind, arg>>
  BY DEF Read, database
<1>2. PICK S : got \in Seq(S)
  BY DEF ReadingInv, GotInv
<1> HIDE DEF r
<1>3. /\ got' \in Seq(S \cup {r}) /\ Len(got') = n /\ got'[n] = r
      /\ \A m \in 1..Len(got) : got'[m] = got[m]
  BY <1>1, <1>2, AppendOne
<1>4. Len(got) \in Nat
  BY <1>2
<1>5. DatabaseInv' /\ DatabaseInv
  BY <1>1 DEF ReadingInv, DatabaseInv
<1>6. kind # "none" /\ kind \in Kinds /\ GotInv
  BY <1>1, <1>4, StatementsLengths DEF ReadingInv, GotInv
<1>7. n <= Len(Statements(kind))
  <2>1. Len(Statements(kind)) \in Nat
    BY <1>6, StatementsLengths DEF Kinds
  <2> QED
    BY <1>1, <1>4, <2>1
<1>8. CASE kind = "statistics"
  <2>1. n = 6 => r = Cardinality(DiscardedFaces(images))
    BY <1>8, StatementsPlaces DEF r, Result
  <2>2. n = 6 => got'[6] <= Cardinality(DroppedIn(Images))
    <3>1. images \subseteq Images
      BY <1>5 DEF DatabaseInv
    <3>2. Cardinality(DiscardedFaces(images)) <= Cardinality(DroppedIn(Images))
      BY <1>5, <3>1, DiscardedBound
    <3> QED
      BY <1>3, <2>1, <3>2
  <2>3. n > 6 => got'[6] = got[6] /\ Len(got) >= 6
    BY <1>3, <1>4
  <2>4. n >= 6 => got'[6] <= Cardinality(DroppedIn(Images))
    BY <1>4, <1>6, <1>8, <2>2, <2>3 DEF GotInv
  <2>5. GotInv'
    BY <1>1, <1>3, <1>6, <1>7, <1>8, <2>4 DEF GotInv
  <2> QED
    BY <1>5, <2>5 DEF ReadingInv
<1>9. CASE kind = "list"
  <2>1. n = 1 => r = Page(arg.offset, arg.limit)
    BY <1>9, StatementsPlaces DEF r, Result
  <2>2. ASSUME n = 1 PROVE \A k \in DOMAIN got'[1] : RowFine(got'[1][k])
    <3>1. got'[1] = Page(arg.offset, arg.limit)
      BY <1>3, <2>1, <2>2
    <3>2. \A k \in DOMAIN Page(arg.offset, arg.limit) :
            \E e : Page(arg.offset, arg.limit)[k] = Row(e)
      BY DEF Page
    <3> QED
      BY <1>5, <3>1, <3>2, RowIsFine
  <2>3. n > 1 => got'[1] = got[1] /\ Len(got) >= 1
    BY <1>3, <1>4
  <2>4. \A k \in DOMAIN got'[1] : RowFine(got'[1][k])
    <3>1. n = 1 \/ n > 1
      BY <1>4
    <3>2. CASE n > 1
      BY <1>6, <1>9, <2>3, <3>2 DEF GotInv
    <3> QED
      BY <2>2, <3>1, <3>2
  <2>5. GotInv'
    BY <1>1, <1>3, <1>6, <1>7, <1>9, <2>4 DEF GotInv
  <2> QED
    BY <1>5, <2>5 DEF ReadingInv
<1>10. CASE kind = "detail"
  <2>1. /\ n = 2 => r = FacesOf(arg)
        /\ n = 3 => r = DiscardedFaces(ImagesOf(arg))
        /\ n = 4 => r = [all |-> ImagesOf(arg), done |-> ImagesOf(arg) \cap done]
    <3>1. /\ n = 2 => Statements(kind)[n] = "embeddings"
          /\ n = 3 => Statements(kind)[n] = "discarded"
          /\ n = 4 => Statements(kind)[n] = "rows"
      BY <1>10, StatementsPlaces
    <3> DEFINE s == Statements(kind)[n]
    <3> HIDE DEF s
    <3>2. r = Result(s)
      BY DEF r, s
    <3>3. n = 2 => r = FacesOf(arg)
      BY <3>1, <3>2 DEF s, Result
    <3>4. n = 3 => r = DiscardedFaces(ImagesOf(arg))
      BY <3>1, <3>2 DEF s, Result
    <3>5. n = 4 => r = [all |-> ImagesOf(arg), done |-> ImagesOf(arg) \cap done]
      BY <3>1, <3>2 DEF s, Result
    <3> QED
      BY <3>3, <3>4, <3>5
  <2>2. n \in 1..4
    <3>1. Len(Statements(kind)) = 4
      BY <1>10, StatementsLengths
    <3> HIDE DEF n
    <3>2. n <= 4
      BY <1>7, <3>1
    <3> USE DEF n
    <3> QED
      BY <1>4, <3>2
  <2>3. n >= 2 => FacesRead(got'[2])
    <3>1. CASE n = 2
      <4>1. got'[2] = FacesOf(arg)
        BY <1>3, <2>1, <3>1
      <4>2. FacesRead(FacesOf(arg))
        BY <1>5 DEF FacesOf, FacesRead, DatabaseInv
      <4> QED
        BY <4>1, <4>2
    <3>2. CASE n > 2
      <4>1. got'[2] = got[2] /\ Len(got) >= 2
        BY <1>3, <1>4, <3>2
      <4> QED
        BY <1>6, <1>10, <4>1 DEF GotInv
    <3> QED
      BY <2>2, <3>1, <3>2
  <2>4. n >= 3 => got'[3] \subseteq DroppedIn(ImagesOfEvent(arg))
    <3>1. CASE n = 3
      <4>1. /\ ImagesOf(arg) \subseteq images /\ ImagesOf(arg) \subseteq ImagesOfEvent(arg)
            /\ ImagesOfEvent(arg) \subseteq Images
        BY <1>5 DEF ImagesOf, ImagesOfEvent, DatabaseInv
      <4>2. DiscardedFaces(ImagesOf(arg)) \subseteq DroppedIn(ImagesOfEvent(arg))
        BY <1>5, <4>1, DiscardedBound
      <4> QED
        BY <1>3, <2>1, <3>1, <4>2
    <3>2. CASE n > 3
      <4>1. got'[3] = got[3] /\ Len(got) >= 3
        BY <1>3, <1>4, <3>2
      <4> QED
        BY <1>6, <1>10, <4>1 DEF GotInv
    <3> QED
      BY <2>2, <3>1, <3>2
  <2>5. n >= 4 => \A x \in got'[2] : x[1] \in got'[4].all => x[1] \in got'[4].done
    <3> SUFFICES ASSUME n = 4, NEW x \in got'[2], x[1] \in got'[4].all PROVE x[1] \in got'[4].done
      BY <2>2
    <3>1. got'[4] = [all |-> ImagesOf(arg), done |-> ImagesOf(arg) \cap done]
      BY <1>3, <2>1
    <3>2. x[1] \in ImagesOf(arg) /\ ImageEvent[x[1]] \in events
      BY <1>5, <3>1 DEF ImagesOf, DatabaseInv
    <3>3. x[1] \in done
      BY <2>3, <3>2 DEF FacesRead
    <3> QED
      BY <3>1, <3>2, <3>3
  <2>6. n >= 2 => FacesRead(got[2])'
    BY <1>1, <2>3 DEF FacesRead
  <2>7. GotInv'
    BY <1>1, <1>3, <1>6, <1>7, <1>10, <2>3, <2>4, <2>5, <2>6 DEF GotInv
  <2> QED
    BY <1>5, <2>7 DEF ReadingInv
<1> QED
  BY <1>6, <1>8, <1>9, <1>10 DEF Kinds

LEMMA ReadingStutter ==
  ASSUME ReadingInv, UNCHANGED readingsVars PROVE ReadingInv'
<1>1. UNCHANGED <<events, images, done, embeddings, rejections>> /\ UNCHANGED reading
  BY DEF readingsVars, database
<1>2. DatabaseInv'
  BY <1>1 DEF ReadingInv, DatabaseInv
<1>3. GotInv'
  BY <1>1, ChangeKeepsGot DEF ReadingInv
<1> QED
  BY <1>2, <1>3 DEF ReadingInv

LEMMA ReadingStep ==
  ASSUME ReadingsAssumption, ReadingInv, ReadingsNext PROVE ReadingInv'
<1>1. {"statistics", "list", "detail"} \subseteq Kinds
  BY DEF Kinds
<1> QED
  BY <1>1, ImportImageKeeps, IndexImageKeeps, RecordSearchKeeps, DeleteEventKeeps,
     StartReadingKeeps, ReadKeeps DEF ReadingsNext

LEMMA ReadingStart ==
  ASSUME ReadingsInit PROVE ReadingInv
<1>1. got = <<>> /\ Len(got) = 0 /\ got \in Seq({})
  <2>1. <<>> \in Seq({}) /\ Len(<<>>) = 0
    OBVIOUS
  <2> QED
    BY <2>1 DEF ReadingsInit
<1>2. GotInv
  BY <1>1, StatementsLengths DEF ReadingsInit, GotInv, Kinds
<1> QED
  BY <1>2 DEF ReadingsInit, ReadingInv, DatabaseInv

LEMMA ReadingInvariant == Spec => []ReadingInv
<1>1. Init => ReadingInv
  BY ReadingStart DEF Init
<1>2. ReadingInv /\ [Next]_vars => ReadingInv'
  <2> SUFFICES ASSUME ReadingInv, [Next]_vars PROVE ReadingInv'
    OBVIOUS
  <2>1. ReadingsNext \/ UNCHANGED readingsVars
    BY DEF Next, vars
  <2> QED
    BY <2>1, ReadingStep, ReadingStutter, ReadingsAssumption
<1> QED
  BY <1>1, <1>2, PTL DEF Spec

\* What the screens take from a reading that is complete.
LEMMA ShownParts ==
  ASSUME ReadingInv, NEW k \in {"statistics", "list", "detail"}, Shown(k)
  PROVE  /\ DOMAIN got = 1..Len(Statements(k)) /\ Len(got) = Len(Statements(k))
         /\ k = "statistics" => At("rejected") = got[6]
         /\ k = "list" => At("page") = got[1]
         /\ k = "detail" => At("embeddings") = got[2] /\ At("discarded") = got[3] /\ At("rows") = got[4]
<1>1. PICK S : got \in Seq(S)
  BY DEF ReadingInv, GotInv
<1>2. kind = k /\ Len(got) = Len(Statements(k)) /\ DOMAIN got = 1..Len(Statements(k))
  BY <1>1 DEF Shown
<1>3. k = "statistics" => At("rejected") = got[6]
  <2> SUFFICES ASSUME k = "statistics" PROVE At("rejected") = got[6]
    OBVIOUS
  <2>1. \A n \in DOMAIN got : Statements(kind)[n] = "rejected" <=> n = 6
    <3>1. kind = "statistics" /\ DOMAIN got = 1..10
      BY <1>2, StatementsLengths
    <3> QED
      BY <3>1, StatementsPlaces
  <2>2. 6 \in DOMAIN got
    <3>1. DOMAIN got = 1..10
      BY <1>2, StatementsLengths
    <3> QED
      BY <3>1
  <2> QED
    BY <2>1, <2>2 DEF At
<1>4. k = "list" => At("page") = got[1]
  <2> SUFFICES ASSUME k = "list" PROVE At("page") = got[1]
    OBVIOUS
  <2>1. \A n \in DOMAIN got : Statements(kind)[n] = "page" <=> n = 1
    <3>1. kind = "list" /\ DOMAIN got = 1..2
      BY <1>2, StatementsLengths
    <3> QED
      BY <3>1, StatementsPlaces
  <2>2. 1 \in DOMAIN got
    <3>1. DOMAIN got = 1..2
      BY <1>2, StatementsLengths
    <3> QED
      BY <3>1
  <2> QED
    BY <2>1, <2>2 DEF At
<1>5. k = "detail" => At("embeddings") = got[2] /\ At("discarded") = got[3] /\ At("rows") = got[4]
  <2> SUFFICES ASSUME k = "detail"
               PROVE  At("embeddings") = got[2] /\ At("discarded") = got[3] /\ At("rows") = got[4]
    OBVIOUS
  <2>1. \A n \in DOMAIN got : /\ Statements(kind)[n] = "embeddings" <=> n = 2
                              /\ Statements(kind)[n] = "discarded" <=> n = 3
                              /\ Statements(kind)[n] = "rows" <=> n = 4
    <3>1. kind = "detail" /\ DOMAIN got = 1..4
      BY <1>2, StatementsLengths
    <3> QED
      BY <3>1, StatementsPlaces
  <2>2. 2 \in DOMAIN got /\ 3 \in DOMAIN got /\ 4 \in DOMAIN got
    <3>1. DOMAIN got = 1..4
      BY <1>2, StatementsLengths
    <3> QED
      BY <3>1
  <2> QED
    BY <2>1, <2>2 DEF At
<1> QED
  BY <1>2, <1>3, <1>4, <1>5

(* A face that the list counts or the detail shows belongs to an image     *)
(* that the same screen says is indexed (event_catalog_pg.py): a worker    *)
(* commits both together, and the detail reads the faces first.            *)
THEOREM FacesFollowTheirImages == Spec => []FacesOfIndexedImages
<1>1. ReadingInv => FacesOfIndexedImages
  <2> SUFFICES ASSUME ReadingInv PROVE FacesOfIndexedImages
    OBVIOUS
  <2>1. ASSUME Shown("list"), NEW n \in DOMAIN At("page") PROVE RowFine(At("page")[n])
    <3>1. At("page") = got[1] /\ Len(got) = 2
      BY <2>1, ShownParts, StatementsLengths
    <3> QED
      BY <2>1, <3>1 DEF ReadingInv, GotInv, Shown
  <2>2. ASSUME Shown("detail"), NEW x \in FacesShown PROVE x[1] \in At("rows").done
    <3>1. At("embeddings") = got[2] /\ At("rows") = got[4] /\ Len(got) = 4
      BY <2>2, ShownParts, StatementsLengths
    <3> QED
      BY <2>2, <3>1 DEF ReadingInv, GotInv, Shown, FacesShown
  <2> QED
    BY <2>1, <2>2 DEF FacesOfIndexedImages, RowFine
<1> QED
  BY <1>1, ReadingInvariant, PTL

(* Replays of an image never show more faces discarded than the filter     *)
(* discarded (statistics_pg.py and event_catalog_pg.py, DISTINCT).         *)
THEOREM ReplaysDiscardNothingMore == Spec => []DiscardedOnce
<1>1. ReadingInv => DiscardedOnce
  <2> SUFFICES ASSUME ReadingInv PROVE DiscardedOnce
    OBVIOUS
  <2>1. ASSUME Shown("statistics")
        PROVE  Statistics.discarded <= Cardinality(DroppedIn(Images))
    <3>1. At("rejected") = got[6] /\ Len(got) = 10
      BY <2>1, ShownParts, StatementsLengths
    <3>2. Statistics.discarded = got[6]
      BY <3>1 DEF Statistics
    <3>3. kind = "statistics" /\ Len(got) >= 6
      BY <2>1, <3>1 DEF Shown
    <3>4. got[6] <= Cardinality(DroppedIn(Images))
      BY <3>3 DEF ReadingInv, GotInv
    <3> QED
      BY <3>2, <3>4
  <2>2. ASSUME Shown("detail")
        PROVE  Detail.discarded <= Cardinality(DroppedIn(ImagesOfEvent(arg)))
    <3> DEFINE counted == {x \in At("discarded") : x[1] \in At("rows").all}
    <3>1. At("discarded") = got[3] /\ Len(got) = 4
      BY <2>2, ShownParts, StatementsLengths
    <3>2. counted \subseteq DroppedIn(ImagesOfEvent(arg))
      <4>1. kind = "detail" /\ Len(got) >= 3
        BY <2>2, <3>1 DEF Shown
      <4>2. got[3] \subseteq DroppedIn(ImagesOfEvent(arg))
        BY <4>1 DEF ReadingInv, GotInv
      <4> QED
        BY <3>1, <4>2
    <3>3. IsFiniteSet(DroppedIn(ImagesOfEvent(arg)))
      <4>1. DroppedIn(ImagesOfEvent(arg)) \subseteq UNION {{i} \X Dropped[i] : i \in Images}
        BY DEF DroppedIn, ImagesOfEvent
      <4> QED
        BY <4>1, ReadingsAssumption, FS_Subset DEF ReadingsAssumption
    <3>4. Cardinality(counted) <= Cardinality(DroppedIn(ImagesOfEvent(arg)))
      BY <3>2, <3>3, FS_Subset
    <3>5. Detail.discarded = Cardinality(counted)
      BY DEF Detail
    <3> QED
      BY <3>4, <3>5
  <2>3. ASSUME Shown("list"), NEW n \in DOMAIN At("page")
        PROVE  At("page")[n].discarded
                 <= Cardinality(DroppedIn(ImagesOfEvent(At("page")[n].event)))
    <3>1. At("page") = got[1] /\ Len(got) = 2
      BY <2>3, ShownParts, StatementsLengths
    <3>2. RowFine(At("page")[n])
      BY <2>3, <3>1 DEF ReadingInv, GotInv, Shown
    <3> QED
      BY <3>2 DEF RowFine
  <2> QED
    BY <2>1, <2>2, <2>3 DEF DiscardedOnce, DroppedIn, ImagesOfEvent
<1> QED
  BY <1>1, ReadingInvariant, PTL
-----------------------------------------------------------------------------
(* At rest the screens show what is there.                                 *)

\* A statement sees what did not change as it was.
LEMMA ResultSame ==
  ASSUME UNCHANGED database, UNCHANGED arg, NEW CONSTANT s
  PROVE  Result(s)' = Result(s)
<1>1. UNCHANGED <<events, images, done, embeddings, rejections, searches, arg>>
  BY DEF database
<1>2. \A e : ImagesOf(e)' = ImagesOf(e) /\ FacesOf(e)' = FacesOf(e)
  BY <1>1 DEF ImagesOf, FacesOf
<1>3. \A S : DiscardedFaces(S)' = DiscardedFaces(S)
  BY <1>1 DEF DiscardedFaces
<1>4. \A e : Row(e)' = Row(e) /\ Position(e)' = Position(e)
  BY <1>1 DEF Row, Position, ImagesOf, DiscardedFaces
<1>5. Page(arg.offset, arg.limit)' = Page(arg.offset, arg.limit)
  BY <1>1 DEF Page, Row, Position, ImagesOf, DiscardedFaces
<1> QED
  BY <1>1, <1>2, <1>3, <1>5 DEF Result, IndexedImages

\* The faces that an image keeps are finitely many rows of an index.
LEMMA KeptFinite ==
  ASSUME ReadingsAssumption, NEW i \in Images, NEW v
  PROVE  IsFiniteSet({<<i, v, f>> : f \in Kept[i]})
<1>1. IsFiniteSet(Kept[i])
  BY DEF ReadingsAssumption
<1>2. [f \in Kept[i] |-> <<i, v, f>>] \in Surjection(Kept[i], {<<i, v, f>> : f \in Kept[i]})
  BY DEF Surjection
<1> QED
  BY <1>1, <1>2, FS_Surjection

LEMMA ReadingsTypeStart ==
  ASSUME ReadingsAssumption, ReadingsInit
  PROVE  ReadingsTypeOK /\ RestInv
<1>1. <<>> \in Seq(BOOLEAN) /\ Len(<<>>) = 0 /\ MaxSearches \in Nat
  BY DEF ReadingsAssumption
<1>2. searches \in Seq(BOOLEAN) /\ Len(searches) <= MaxSearches /\ Len(got) <= Len(Statements(kind))
  <2>1. searches = <<>> /\ got = <<>> /\ kind = "none"
    BY DEF ReadingsInit
  <2> QED
    BY <1>1, <2>1, StatementsLengths
<1>4. ReadingsTypeOK
  BY <1>2 DEF ReadingsInit, ReadingsTypeOK, Kinds
<1>3. \A n \in 1..Len(got) : FALSE
  BY <1>1 DEF ReadingsInit
<1> QED
  BY <1>3, <1>4, FS_EmptySet DEF ReadingsInit, RestInv

\* What changes the database leaves nothing of a reading at rest.
LEMMA ChangeRaces ==
  ASSUME RestInv, ReadingInv, Change, IsFiniteSet(embeddings')
  PROVE  RestInv' /\ raced' = (raced \/ got # <<>>)
<1>1. UNCHANGED <<kind, arg, got>> /\ raced' = (raced \/ got # <<>>)
  BY DEF Change, reading
<1>2. ~raced' => \A n \in 1..Len(got') : FALSE
  <2>1. HAVE ~raced'
  <2>2. got' = <<>> /\ Len(<<>>) = 0
    BY <1>1, <2>1, Zenon
  <2> QED
    BY <2>2
<1> QED
  BY <1>1, <1>2 DEF RestInv

LEMMA ReadingsTypeStep ==
  ASSUME ReadingsAssumption, ReadingsTypeOK, RestInv, ReadingInv, ReadingInv', ReadingsNext
  PROVE  ReadingsTypeOK' /\ RestInv'
<1>0. kind' \in Kinds /\ Len(got') <= Len(Statements(kind'))
  BY DEF ReadingInv, GotInv
<1>1. ASSUME NEW i \in Images, ImportImage(i) PROVE ReadingsTypeOK' /\ RestInv'
  <2>1. /\ images' = images \cup {i} /\ ImageEvent[i] \in events /\ Change
        /\ UNCHANGED <<events, done, embeddings, rejections, searches>>
    BY <1>1 DEF ImportImage
  <2>2. RestInv' /\ raced' \in BOOLEAN
    BY <2>1, ChangeRaces DEF RestInv, ReadingsTypeOK
  <2> QED
    BY <1>0, <2>1, <2>2 DEF ReadingsTypeOK
<1>2. ASSUME NEW i \in Images, NEW v \in Versions, IndexImage(i, v) PROVE ReadingsTypeOK' /\ RestInv'
  <2>1. /\ i \in images /\ done' = done \cup {i} /\ Change
        /\ embeddings' = embeddings \cup {<<i, v, f>> : f \in Kept[i]}
        /\ rejections' \subseteq rejections \cup {<<i, f, n>> : f \in Dropped[i], n \in Attempts}
        /\ UNCHANGED <<events, images, searches>>
    BY <1>2 DEF IndexImage
  <2>2. IsFiniteSet(embeddings')
    BY <2>1, KeptFinite, FS_Union DEF RestInv
  <2>3. RestInv' /\ raced' \in BOOLEAN
    BY <2>1, <2>2, ChangeRaces DEF ReadingsTypeOK
  <2>4. Kept[i] \subseteq Nat /\ Dropped[i] \subseteq Nat
    BY DEF ReadingsAssumption
  <2>5. embeddings' \subseteq {x \in images \X Versions \X Nat : x[3] \in Kept[x[1]]}
    BY <2>1, <2>4 DEF ReadingsTypeOK
  <2>6. rejections' \subseteq {x \in images \X Nat \X Attempts : x[2] \in Dropped[x[1]]}
    BY <2>1, <2>4 DEF ReadingsTypeOK
  <2> QED
    BY <1>0, <2>1, <2>3, <2>5, <2>6 DEF ReadingsTypeOK
<1>3. ASSUME NEW found \in BOOLEAN, RecordSearch(found) PROVE ReadingsTypeOK' /\ RestInv'
  <2>1. /\ Len(searches) < MaxSearches /\ searches' = Append(searches, found) /\ Change
        /\ UNCHANGED <<events, images, done, embeddings, rejections>>
    BY <1>3 DEF RecordSearch
  <2>2. RestInv' /\ raced' \in BOOLEAN
    BY <2>1, ChangeRaces DEF RestInv, ReadingsTypeOK
  <2>3. searches' \in Seq(BOOLEAN) /\ Len(searches') <= MaxSearches
    <3>1. searches' \in Seq(BOOLEAN) /\ Len(searches') = Len(searches) + 1
      BY <2>1 DEF ReadingsTypeOK
    <3>2. Len(searches) \in Nat /\ MaxSearches \in Nat
      BY DEF ReadingsTypeOK, ReadingsAssumption
    <3> QED
      BY <2>1, <3>1, <3>2
  <2> QED
    BY <1>0, <2>1, <2>2, <2>3 DEF ReadingsTypeOK
<1>4. ASSUME NEW e \in Events, DeleteEvent(e) PROVE ReadingsTypeOK' /\ RestInv'
  <2>1. PICK left : left = {i \in images : ImageEvent[i] # e}
    OBVIOUS
  <2>2. /\ events' = events \ {e} /\ images' = left /\ done' = done \cap left
        /\ embeddings' = {x \in embeddings : x[1] \in left}
        /\ rejections' = {x \in rejections : x[1] \in left}
        /\ Change /\ UNCHANGED searches
    BY <1>4, <2>1 DEF DeleteEvent
  <2>3. RestInv' /\ raced' \in BOOLEAN
    <3>1. IsFiniteSet(embeddings')
      BY <2>2, FS_Subset DEF RestInv
    <3> QED
      BY <2>2, <3>1, ChangeRaces DEF ReadingsTypeOK
  <2>4. embeddings' \subseteq {x \in images' \X Versions \X Nat : x[3] \in Kept[x[1]]}
    BY <2>2 DEF ReadingsTypeOK
  <2>5. rejections' \subseteq {x \in images' \X Nat \X Attempts : x[2] \in Dropped[x[1]]}
    BY <2>2 DEF ReadingsTypeOK
  <2> QED
    BY <1>0, <2>1, <2>2, <2>3, <2>4, <2>5 DEF ReadingsTypeOK
<1>5. ASSUME NEW k \in Kinds, NEW a, StartReading(k, a),
             k = "list" => a.offset \in Nat /\ a.limit \in Nat, k = "detail" => a \in Events
      PROVE  ReadingsTypeOK' /\ RestInv'
  <2>1. kind = "none" /\ kind' = k /\ arg' = a /\ UNCHANGED <<database, got, raced>>
    BY <1>5 DEF StartReading
  <2>2. \A n \in 1..Len(got') : FALSE
    <3>1. got' = <<>> /\ Len(<<>>) = 0
      BY <2>1 DEF ReadingInv, GotInv
    <3> QED
      BY <3>1
  <2> QED
    BY <1>0, <1>5, <2>1, <2>2 DEF database, ReadingsTypeOK, RestInv
<1>6. ASSUME Read PROVE ReadingsTypeOK' /\ RestInv'
  <2>1. PICK r : r = Result(Statements(kind)[Len(got) + 1])
    OBVIOUS
  <2>2. got' = Append(got, r) /\ UNCHANGED <<database, kind, arg, raced>>
    BY <1>6, <2>1 DEF Read
  <2>3. PICK S : got \in Seq(S)
    BY DEF ReadingInv, GotInv
  <2>4. /\ got' \in Seq(S \cup {r}) /\ Len(got') = Len(got) + 1 /\ got'[Len(got) + 1] = r
        /\ \A n \in 1..Len(got) : got'[n] = got[n]
    BY <2>2, <2>3, AppendOne
  <2>5. ASSUME ~raced', NEW n \in 1..Len(got') PROVE got'[n] = Result(Statements(kind)[n])'
    <3>1. PICK s : s = Statements(kind)[n]
      OBVIOUS
    <3>2. Result(s)' = Result(s)
      BY <2>2, ResultSame
    <3>3. Statements(kind)' = Statements(kind)
      BY <2>2
    <3>4. got'[n] = Result(s)
      <4>1. n \in 1..Len(got) \/ n = Len(got) + 1
        <5>1. Len(got) \in Nat
          BY <2>3
        <5> QED
          BY <2>4, <5>1
      <4> QED
        BY <2>1, <2>2, <2>4, <2>5, <3>1, <4>1 DEF RestInv
    <3> QED
      BY <3>1, <3>2, <3>3, <3>4
  <2> QED
    BY <1>0, <2>2, <2>5 DEF database, ReadingsTypeOK, RestInv
<1>7. {"statistics", "list", "detail"} \subseteq Kinds
  BY DEF Kinds
<1>8. \A o \in 0..(Cardinality(Events) + 1), n \in PageSizes :
        o \in Nat /\ n \in Nat /\ [offset |-> o, limit |-> n].offset = o
        /\ [offset |-> o, limit |-> n].limit = n
  BY DEF ReadingsAssumption
<1>9. CASE \E o \in 0..(Cardinality(Events) + 1), n \in PageSizes :
             StartReading("list", [offset |-> o, limit |-> n])
  BY <1>5, <1>7, <1>8, <1>9
<1> QED
  BY <1>1, <1>2, <1>3, <1>4, <1>5, <1>6, <1>7, <1>9 DEF ReadingsNext

LEMMA ReadingsTypeStutter ==
  ASSUME ReadingsTypeOK, RestInv, UNCHANGED readingsVars
  PROVE  ReadingsTypeOK' /\ RestInv'
<1>1. UNCHANGED <<events, images, done, embeddings, rejections, searches, kind, arg, got, raced>>
  BY DEF readingsVars, database, reading
<1>2. ReadingsTypeOK'
  BY <1>1 DEF ReadingsTypeOK
<1>3. ASSUME ~raced', NEW n \in 1..Len(got') PROVE got'[n] = Result(Statements(kind)[n])'
  <2>1. PICK s : s = Statements(kind)[n]
    OBVIOUS
  <2>2. Result(s)' = Result(s)
    BY <1>1, ResultSame DEF database
  <2> QED
    BY <1>1, <1>3, <2>1, <2>2 DEF RestInv
<1> QED
  BY <1>1, <1>2, <1>3 DEF RestInv

-----------------------------------------------------------------------------
(* The types of the queue.                                                 *)

\* Messages are few: so is any set of them.
LEMMA FewMessages ==
  ASSUME QueueMonitorAssumption, NEW S, S \subseteq Messages
  PROVE  Cardinality(S) \in 0..MaxPublished
<1>1. IsFiniteSet(1..MaxPublished) /\ Cardinality(1..MaxPublished) = MaxPublished /\ MaxPublished \in Nat
  BY FS_Interval DEF QueueMonitorAssumption
<1>2. Cardinality(S) <= MaxPublished /\ IsFiniteSet(S)
  BY <1>1, FS_Subset DEF Messages
<1>3. Cardinality(S) \in Nat
  BY <1>2, FS_CardinalityType
<1> QED
  BY <1>1, <1>2, <1>3

LEMMA QueueTypeStart ==
  ASSUME QueueMonitorAssumption, QueueInit
  PROVE  QueueTypeOK
<1>1. Delivered = {}
  BY DEF QueueInit, Delivered
<1>2. MaxPublished \in Nat /\ RetryIdle \in Nat /\ ActiveThreshold \in Nat
  BY DEF QueueMonitorAssumption
<1>3. /\ holder \in [Messages -> Consumers \cup {Nobody}] /\ age \in [Messages -> 0..RetryIdle]
      /\ batch \in [Consumers -> SUBSET Messages] /\ \A c \in Consumers : batch[c] = {}
      /\ idle \in [Consumers -> 0..ActiveThreshold]
      /\ life \in [Consumers -> {"new", "asleep", "busy", "dead"}]
  BY <1>2 DEF QueueInit
<1>4. /\ group \in [lag : 0..MaxPublished, pending : 0..MaxPublished] /\ published \in 0..MaxPublished
      /\ workers = {} /\ waiting = {} /\ dead = FALSE /\ letters = FALSE /\ step = "group"
      /\ grouped \in BOOLEAN
  BY <1>2 DEF QueueInit
<1> QED
  BY <1>1, <1>3, <1>4 DEF QueueTypeOK

LEMMA QueueTypeStep ==
  ASSUME QueueMonitorAssumption, MonitorInv, QueueTypeOK, QueueNext \/ UNCHANGED queueVars
  PROVE  QueueTypeOK'
<1>0. /\ MaxPublished \in Nat /\ RetryIdle \in Nat /\ ActiveThreshold \in Nat
      /\ published \in Nat /\ waiting \subseteq Messages
  BY DEF QueueMonitorAssumption, QueueTypeOK, Messages
<1>1. ASSUME Publish PROVE QueueTypeOK'
  <2>1. /\ published < MaxPublished /\ published' = published + 1 /\ waiting' = waiting \cup {published + 1}
        /\ UNCHANGED <<holder, age, batch, idle, life, dead, grouped, group, workers, letters, step>>
    BY <1>1 DEF Publish, status
  <2>2. waiting' \subseteq 1..published' /\ published' \in 0..MaxPublished
    BY <1>0, <2>1 DEF QueueTypeOK
  <2>3. waiting' \cap Delivered' = {}
    <3>1. published + 1 \notin Delivered /\ Delivered' = Delivered
      BY <1>0, <2>1 DEF MonitorInv, Delivered
    <3> QED
      BY <2>1, <3>1 DEF QueueTypeOK
  <2> QED
    BY <2>1, <2>2, <2>3 DEF QueueTypeOK
<1>2. ASSUME NEW c \in Consumers, Poll(c) PROVE QueueTypeOK'
  <2>1. PICK R : R = Readable
    OBVIOUS
  <2>2. /\ life[c] \in {"new", "asleep", "busy"} /\ batch[c] = {}
        /\ batch' = [batch EXCEPT ![c] = R]
        /\ holder' = [m \in Messages |-> IF m \in R THEN c ELSE holder[m]]
        /\ age' = [m \in Messages |-> IF m \in R THEN 0 ELSE age[m]]
        /\ waiting' = waiting \ R
        /\ idle' = [idle EXCEPT ![c] = 0]
        /\ life' = [life EXCEPT ![c] = IF R = {} THEN "asleep" ELSE "busy"]
        /\ grouped' = TRUE
        /\ UNCHANGED <<published, dead, group, workers, letters, step>>
    BY <1>2, <2>1 DEF Poll, status
  <2>3. R \subseteq Messages
    BY <1>0, <2>1 DEF Readable, First, Delivered
  <2>4. /\ batch' \in [Consumers -> SUBSET Messages]
        /\ \A d \in Consumers : batch'[d] # {} => life'[d] \in {"busy", "dead"}
        /\ life' \in [Consumers -> {"new", "asleep", "busy", "dead"}]
    BY <2>2, <2>3 DEF QueueTypeOK
  <2>5. /\ holder' \in [Messages -> Consumers \cup {Nobody}]
        /\ age' \in [Messages -> 0..RetryIdle]
        /\ idle' \in [Consumers -> 0..ActiveThreshold]
    BY <1>0, <2>2 DEF QueueTypeOK
  <2>6. waiting' \cap Delivered' = {}
    BY <2>2 DEF QueueTypeOK, Delivered
  <2> QED
    BY <2>2, <2>4, <2>5, <2>6 DEF QueueTypeOK
<1>3. ASSUME NEW c \in Consumers, Handle(c) PROVE QueueTypeOK'
  <2>1. PICK m \in batch[c] :
          /\ life[c] = "busy" /\ batch' = [batch EXCEPT ![c] = @ \ {m}]
          /\ \/ holder' = [holder EXCEPT ![m] = Nobody] /\ age' = [age EXCEPT ![m] = 0]
                /\ dead' \in {dead, TRUE}
             \/ UNCHANGED <<holder, age, dead>>
          /\ UNCHANGED <<waiting, idle, life, published, grouped, group, workers, letters, step>>
    BY <1>3 DEF Handle, status
  <2>2. /\ batch' \in [Consumers -> SUBSET Messages]
        /\ \A d \in Consumers : batch'[d] # {} => life'[d] \in {"busy", "dead"}
    BY <2>1 DEF QueueTypeOK
  <2>3. holder' \in [Messages -> Consumers \cup {Nobody}] /\ age' \in [Messages -> 0..RetryIdle]
    <3>1. holder \in [Messages -> Consumers \cup {Nobody}] /\ age \in [Messages -> 0..RetryIdle]
      BY DEF QueueTypeOK
    <3>2. 0 \in 0..RetryIdle
      BY <1>0
    <3>3. CASE UNCHANGED <<holder, age>>
      BY <3>1, <3>3
    <3>4. CASE holder' = [holder EXCEPT ![m] = Nobody] /\ age' = [age EXCEPT ![m] = 0]
      BY <3>1, <3>2, <3>4
    <3> QED
      BY <2>1, <3>3, <3>4
  <2>5. dead' = dead \/ dead' = TRUE
    BY <2>1
  <2>6. dead' \in BOOLEAN /\ (letters' => dead')
    BY <2>1, <2>5 DEF QueueTypeOK
  <2>4. waiting' \cap Delivered' = {}
    BY <2>1 DEF QueueTypeOK, Delivered
  <2> QED
    BY <2>1, <2>2, <2>3, <2>4, <2>6 DEF QueueTypeOK
<1>4. ASSUME NEW c \in Consumers, Die(c) PROVE QueueTypeOK'
  <2>1. /\ life' = [life EXCEPT ![c] = "dead"]
        /\ UNCHANGED <<waiting, holder, age, batch, idle, published, dead, grouped, group, workers, letters, step>>
    BY <1>4 DEF Die, status
  <2> QED
    BY <2>1 DEF QueueTypeOK, Delivered
<1>5. ASSUME Tick PROVE QueueTypeOK'
  <2>1. /\ idle' = [c \in Consumers |-> IF life[c] = "new" THEN 0 ELSE Older(idle[c], ActiveThreshold)]
        /\ age' = [m \in Messages |-> IF m \in Delivered THEN Older(age[m], RetryIdle) ELSE 0]
        /\ UNCHANGED <<waiting, holder, batch, life, published, dead, grouped, group, workers, letters, step>>
    BY <1>5 DEF Tick, status
  <2>2. \A cap \in Nat : \A n \in 0..cap : Older(n, cap) \in 0..cap
    BY DEF Older
  <2>3. idle' \in [Consumers -> 0..ActiveThreshold] /\ age' \in [Messages -> 0..RetryIdle]
    BY <1>0, <2>1, <2>2 DEF QueueTypeOK
  <2> QED
    BY <2>1, <2>3 DEF QueueTypeOK, Delivered
<1>6. ASSUME FindGroup PROVE QueueTypeOK'
  <2>1. PICK lag \in {Cardinality(waiting), 0} : group' = [lag |-> lag, pending |-> Cardinality(Delivered)]
    BY <1>6 DEF FindGroup
  <2>2. Cardinality(waiting) \in 0..MaxPublished /\ Cardinality(Delivered) \in 0..MaxPublished
    BY <1>0, FewMessages DEF Delivered
  <2>3. group' \in [lag : 0..MaxPublished, pending : 0..MaxPublished]
    BY <1>0, <2>1, <2>2
  <2>4. /\ step' = "workers"
        /\ UNCHANGED <<waiting, holder, age, batch, idle, life, published, dead, grouped, workers, letters>>
    BY <1>6 DEF FindGroup, queue
  <2> QED
    BY <2>3, <2>4 DEF QueueTypeOK, Delivered
<1>9. ASSUME FindNoGroup PROVE QueueTypeOK'
  <2>1. /\ group' = [lag |-> 0, pending |-> 0] /\ workers' = {} /\ step' = "letters"
        /\ UNCHANGED <<waiting, holder, age, batch, idle, life, published, dead, grouped, letters>>
    BY <1>9 DEF FindNoGroup, queue
  <2>2. group' \in [lag : 0..MaxPublished, pending : 0..MaxPublished]
    BY <1>0, <2>1
  <2> QED
    BY <2>1, <2>2 DEF QueueTypeOK, Delivered
<1>7. ASSUME CollectWorkers PROVE QueueTypeOK'
  <2>1. /\ workers' = {[name |-> c, pending |-> PendingOf(c), idle |-> idle[c]] :
                         c \in {d \in Consumers : life[d] # "new"}}
        /\ step' = "letters"
        /\ UNCHANGED <<waiting, holder, age, batch, idle, life, published, dead, grouped, group, letters>>
    BY <1>7 DEF CollectWorkers, queue
  <2>2. \A c \in Consumers : PendingOf(c) \in 0..MaxPublished /\ idle[c] \in 0..ActiveThreshold
    BY FewMessages DEF PendingOf, QueueTypeOK
  <2>3. workers' \subseteq [name : Consumers, pending : 0..MaxPublished, idle : 0..ActiveThreshold]
    BY <2>1, <2>2
  <2> QED
    BY <2>1, <2>3 DEF QueueTypeOK, Delivered
<1>8. ASSUME StreamLength \/ UNCHANGED queueVars PROVE QueueTypeOK'
  <2>1. UNCHANGED <<waiting, holder, age, batch, idle, life, published, dead, grouped, group, workers>>
    BY <1>8 DEF StreamLength, queueVars, queue, status
  <2>2. (letters' = dead /\ step' = "done") \/ UNCHANGED <<letters, step>>
    BY <1>8 DEF StreamLength, queueVars, queue, status
  <2>3. (letters' => dead') /\ step' \in {"group", "workers", "letters", "done"}
    BY <2>1, <2>2 DEF QueueTypeOK
  <2> QED
    BY <2>1, <2>3 DEF QueueTypeOK, Delivered
<1> QED
  BY <1>1, <1>2, <1>3, <1>4, <1>5, <1>6, <1>7, <1>8, <1>9 DEF QueueNext

-----------------------------------------------------------------------------
LEMMA SupervisionInvariant == Spec => [](TypeOK /\ RestInv)
<1>1. Init => TypeOK /\ RestInv
  BY QueueTypeStart, ReadingsTypeStart, QueueMonitorAssumption, ReadingsAssumption
     DEF Init, TypeOK
<1>2. TypeOK /\ RestInv /\ MonitorInv /\ ReadingInv /\ ReadingInv' /\ [Next]_vars => TypeOK' /\ RestInv'
  <2> SUFFICES ASSUME TypeOK, RestInv, MonitorInv, ReadingInv, ReadingInv', [Next]_vars
               PROVE TypeOK' /\ RestInv'
    OBVIOUS
  <2>1. ReadingsNext \/ UNCHANGED readingsVars
    BY DEF Next, vars
  <2>2. QueueNext \/ UNCHANGED queueVars
    BY DEF Next, vars
  <2>3. QueueTypeOK'
    BY <2>2, QueueTypeStep, QueueMonitorAssumption DEF TypeOK
  <2>4. ReadingsTypeOK' /\ RestInv'
    BY <2>1, ReadingsTypeStep, ReadingsTypeStutter, ReadingsAssumption DEF TypeOK
  <2>5. screen' \in {"database", "queue"}
    BY DEF Next, vars, TypeOK
  <2> QED
    BY <2>3, <2>4, <2>5 DEF TypeOK
<1> QED
  BY <1>1, <1>2, ReadingInvariant, MonitorInvariant, PTL DEF Spec

\* The types hold, of the database and of what was read, of the queue and of its status (TypeOK).
THEOREM SupervisionTypes == Spec => []TypeOK
BY SupervisionInvariant, PTL

\* At rest, each part of a screen is the result of its statement.
LEMMA AtRest ==
  ASSUME ReadingInv, RestInv, ~raced, NEW k \in {"statistics", "list", "detail"}, Shown(k),
         NEW n \in 1..Len(Statements(k)),
         \A m \in 1..Len(Statements(k)) : Statements(k)[m] = Statements(k)[n] => m = n
  PROVE  At(Statements(k)[n]) = Result(Statements(k)[n])
<1>1. DOMAIN got = 1..Len(Statements(k)) /\ Len(got) = Len(Statements(k))
  BY ShownParts
<1>2. kind = k
  BY DEF Shown
<1>3. At(Statements(k)[n]) = got[n]
  BY <1>1, <1>2 DEF At
<1> QED
  BY <1>1, <1>2, <1>3 DEF RestInv

LEMMA StatisticsAtRest ==
  ASSUME ReadingInv, RestInv, ~raced, Shown("statistics")
  PROVE  /\ At("images") = Cardinality(images) /\ At("indexed") = Cardinality(done)
         /\ At("pending") = Cardinality(images \ done)
         /\ At("faces") = Cardinality(embeddings)
         /\ At("rejected") = Cardinality(DiscardedFaces(images))
         /\ At("reasons") = DiscardedFaces(images)
         /\ At("searches") = Len(searches)
         /\ At("empty") = Cardinality({n \in DOMAIN searches : ~searches[n]})
         /\ At("versions") = {x[2] : x \in embeddings}
<1> DEFINE S == Statements("statistics")
<1>1. /\ S[2] = "images" /\ S[3] = "indexed" /\ S[4] = "pending" /\ S[5] = "faces" /\ S[6] = "rejected"
      /\ S[7] = "searches" /\ S[8] = "empty" /\ S[9] = "reasons" /\ S[10] = "versions"
      /\ S[1] = "events" /\ Len(S) = 10
  BY DEF Statements
<1> HIDE DEF S
<1>2. \A m, n \in 1..10 : S[m] = S[n] => m = n
  BY <1>1
<1>3. \A n \in 1..10 : At(S[n]) = Result(S[n])
  BY <1>1, <1>2, AtRest DEF S
<1>4. /\ At("images") = Result("images") /\ At("indexed") = Result("indexed")
      /\ At("pending") = Result("pending") /\ At("faces") = Result("faces")
      /\ At("rejected") = Result("rejected") /\ At("searches") = Result("searches")
      /\ At("empty") = Result("empty") /\ At("reasons") = Result("reasons")
      /\ At("versions") = Result("versions")
  BY <1>1, <1>3
<1>5. /\ Result("images") = Cardinality(images) /\ Result("indexed") = Cardinality(done)
      /\ Result("pending") = Cardinality(images \ done)
      /\ Result("faces") = Cardinality(embeddings)
      /\ Result("rejected") = Cardinality(DiscardedFaces(images))
  BY DEF Result, IndexedImages
<1>6. /\ Result("reasons") = DiscardedFaces(images)
      /\ Result("searches") = Len(searches)
      /\ Result("empty") = Cardinality({n \in DOMAIN searches : ~searches[n]})
      /\ Result("versions") = {x[2] : x \in embeddings}
  BY DEF Result
<1> QED
  BY <1>4, <1>5, <1>6

LEMMA ListAtRest ==
  ASSUME ReadingInv, RestInv, ~raced, Shown("list")
  PROVE  /\ At("page") = Page(arg.offset, arg.limit) /\ At("events") = Cardinality(events)
         /\ arg.offset \in Nat /\ arg.limit \in Nat
<1> DEFINE S == Statements("list")
<1>1. S[1] = "page" /\ S[2] = "events" /\ Len(S) = 2
  BY DEF Statements
<1> HIDE DEF S
<1>2. \A n \in 1..2 : At(S[n]) = Result(S[n])
  <2>1. \A m, n \in 1..2 : S[m] = S[n] => m = n
    BY <1>1
  <2> QED
    BY <1>1, <2>1, AtRest DEF S
<1>3. At("page") = Result("page") /\ At("events") = Result("events")
  BY <1>1, <1>2
<1>4. Result("page") = Page(arg.offset, arg.limit) /\ Result("events") = Cardinality(events)
  BY DEF Result
<1> QED
  BY <1>3, <1>4 DEF RestInv, Shown

LEMMA DetailAtRest ==
  ASSUME ReadingInv, RestInv, ~raced, Shown("detail")
  PROVE  /\ At("embeddings") = FacesOf(arg) /\ At("discarded") = DiscardedFaces(ImagesOf(arg))
         /\ At("rows") = [all |-> ImagesOf(arg), done |-> ImagesOf(arg) \cap done]
<1> DEFINE S == Statements("detail")
<1>1. S[1] = "event" /\ S[2] = "embeddings" /\ S[3] = "discarded" /\ S[4] = "rows" /\ Len(S) = 4
  BY DEF Statements
<1> HIDE DEF S
<1>2. \A n \in 1..4 : At(S[n]) = Result(S[n])
  <2>1. \A m, n \in 1..4 : S[m] = S[n] => m = n
    BY <1>1
  <2> QED
    BY <1>1, <2>1, AtRest DEF S
<1>3. At("embeddings") = Result("embeddings") /\ At("discarded") = Result("discarded")
                                              /\ At("rows") = Result("rows")
  BY <1>1, <1>2
<1>4. /\ Result("embeddings") = FacesOf(arg) /\ Result("discarded") = DiscardedFaces(ImagesOf(arg))
      /\ Result("rows") = [all |-> ImagesOf(arg), done |-> ImagesOf(arg) \cap done]
  BY DEF Result
<1> QED
  BY <1>3, <1>4

\* The order of the list: the latest event first.
ListOrder == {p \in events \X events : p[1] > p[2]}

\* Every position of the list is that of one event.
LEMMA PositionsTaken ==
  ASSUME ReadingsAssumption, ReadingsTypeOK
  PROVE  /\ IsFiniteSet(events) /\ Cardinality(events) \in Nat
         /\ \A e \in events : Position(e) \in 0..(Cardinality(events) - 1)
         /\ \A n \in 0..(Cardinality(events) - 1) : \E e \in events : Position(e) = n
         /\ \A d, e \in events : Position(d) = Position(e) => d = e
<1>1. IsFiniteSet(events) /\ \A e \in events : e \in Nat
  BY FS_Subset DEF ReadingsAssumption, ReadingsTypeOK
<1>2. PICK N : N = Cardinality(events)
  OBVIOUS
<1>3. N \in Nat
  BY <1>1, <1>2, FS_CardinalityType
<1>4. PICK R : R = ListOrder
  OBVIOUS
<1>5. \A d, e \in events : <<d, e>> \in R <=> d > e
  BY <1>4 DEF ListOrder
<1>6. StrictTotalOrder(events, R)
  BY <1>1, <1>5 DEF StrictTotalOrder
<1>7. \A e \in events : Place(e, events, R) = 1 + Position(e) /\ Position(e) \in Nat
  <2>1. TAKE e \in events
  <2>2. Below(e, events, R) = {d \in events : d > e}
    BY <1>5 DEF Below
  <2>3. Cardinality(Below(e, events, R)) \in Nat
    BY <1>1, <1>6, BelowFinite
  <2> QED
    BY <2>2, <2>3 DEF Place, Position
<1>8. \A e \in events : Position(e) \in 0..(N - 1)
  <2>1. TAKE e \in events
  <2>2. 1 + Position(e) \in 1..N
    BY <1>1, <1>2, <1>6, <1>7, BelowFinite
  <2> QED
    BY <1>3, <1>7, <2>2
<1>9. \A n \in 0..(N - 1) : \E e \in events : Position(e) = n
  <2>1. TAKE n \in 0..(N - 1)
  <2>2. n + 1 \in 1..N
    BY <1>3
  <2>3. PICK e \in events : Place(e, events, R) = n + 1
    BY <1>1, <1>2, <1>6, <2>2, PlacesTaken
  <2>4. Position(e) = n
    BY <1>3, <1>7, <2>3
  <2> QED
    BY <2>4
<1>10. \A d, e \in events : Position(d) = Position(e) => d = e
  <2>1. TAKE d, e \in events
  <2>2. HAVE Position(d) = Position(e)
  <2>3. Place(d, events, R) = Place(e, events, R)
    BY <1>7, <2>2
  <2> QED
    BY <1>1, <1>6, <2>3, PlacesTaken
<1> QED
  BY <1>1, <1>2, <1>3, <1>8, <1>9, <1>10

\* A page that does not start beyond the end does not go beyond it.
LEMMA PageFits ==
  ASSUME ReadingsAssumption, ReadingsTypeOK, NEW offset \in Nat, NEW limit \in Nat
  PROVE  /\ Len(Page(offset, limit)) \in Nat
         /\ offset <= Cardinality(events) => offset + Len(Page(offset, limit)) <= Cardinality(events)
<1> DEFINE taken == {e \in events : Position(e) \in offset..(offset + limit - 1)}
<1>1. PICK T : T = taken
  OBVIOUS
<1>2. PICK N : N = Cardinality(events)
  OBVIOUS
<1>3. T \subseteq events /\ IsFiniteSet(T) /\ Cardinality(T) \in Nat /\ N \in Nat
  BY <1>1, <1>2, PositionsTaken, FS_Subset, FS_CardinalityType
<1>4. Len(Page(offset, limit)) = Cardinality(T)
  BY <1>1, <1>3 DEF Page
<1>5. ASSUME offset <= N PROVE Cardinality(T) <= N - offset
  <2>1. PICK f : f = [e \in T |-> Position(e)]
    OBVIOUS
  <2>2. \A e \in T : Position(e) \in offset..(N - 1)
    <3>1. TAKE e \in T
    <3>2. Position(e) \in 0..(N - 1) /\ Position(e) \in offset..(offset + limit - 1)
      BY <1>1, <1>2, PositionsTaken
    <3> QED
      BY <1>3, <3>2
  <2>3. f \in Injection(T, offset..(N - 1))
    <3>1. \A d, e \in T : Position(d) = Position(e) => d = e
      BY <1>3, PositionsTaken
    <3>2. f \in [T -> offset..(N - 1)]
      BY <2>1, <2>2
    <3>3. \A d, e \in T : f[d] = f[e] => d = e
      BY <2>1, <3>1
    <3> QED
      BY <3>2, <3>3 DEF Injection, IsInjective
  <2>4. /\ IsFiniteSet(offset..(N - 1))
        /\ Cardinality(offset..(N - 1)) = IF offset > N - 1 THEN 0 ELSE N - 1 - offset + 1
    BY <1>3, FS_Interval
  <2>5. Cardinality(T) <= Cardinality(offset..(N - 1))
    BY <2>3, <2>4, FS_Injection
  <2>6. Cardinality(offset..(N - 1)) = N - offset
    BY <1>3, <1>5, <2>4
  <2> QED
    BY <2>5, <2>6
<1> QED
  BY <1>2, <1>3, <1>4, <1>5

(* No screen that read the database at rest fails on its own guards, unless *)
(* the page asked for starts beyond the last event (system_statistics.py,   *)
(* event_catalog.py): OnlyARaceRaises.                                      *)
THEOREM GuardsRaiseInARaceOnly == Spec => []OnlyARaceRaises
<1>1. TypeOK /\ RestInv /\ ReadingInv => OnlyARaceRaises
  <2> SUFFICES ASSUME TypeOK, RestInv, ReadingInv, ~raced PROVE
         /\ Shown("statistics") =>
              /\ ~StatisticsRaise
              /\ \A share \in {EmptySearches, IndexingCompletion(Statistics), QualityRejection(Statistics)} :
                   share[1] <= share[2]
         /\ Shown("list") /\ PageRaises => arg.offset > Cardinality(events)
    BY DEF OnlyARaceRaises
  <2>0. ReadingsTypeOK
    BY DEF TypeOK
  <2>1. ASSUME Shown("statistics")
        PROVE  /\ ~StatisticsRaise
               /\ \A share \in {EmptySearches, IndexingCompletion(Statistics), QualityRejection(Statistics)} :
                    share[1] <= share[2]
    <3> DEFINE i == At("images")  d == At("indexed")  s == At("searches")  e == At("empty")
               f == At("faces")   x == At("rejected")
    <3>1. d \in Nat /\ i \in Nat /\ d <= i
      <4>1. IsFiniteSet(images) /\ done \subseteq images
        BY <2>0, FS_Subset, ReadingsAssumption DEF ReadingsTypeOK, ReadingsAssumption
      <4>2. Cardinality(done) <= Cardinality(images) /\ IsFiniteSet(done)
        BY <4>1, FS_Subset
      <4> QED
        BY <2>1, <4>1, <4>2, StatisticsAtRest, FS_CardinalityType
    <3>2. e \in Nat /\ s \in Nat /\ e <= s
      <4> DEFINE E == {n \in DOMAIN searches : ~searches[n]}
      <4>1. E \subseteq 1..Len(searches) /\ Len(searches) \in Nat
        BY <2>0 DEF ReadingsTypeOK
      <4>2. IsFiniteSet(1..Len(searches)) /\ Cardinality(1..Len(searches)) = Len(searches)
        <5>1. /\ IsFiniteSet(1..Len(searches))
              /\ Cardinality(1..Len(searches)) = IF 1 > Len(searches) THEN 0 ELSE Len(searches) - 1 + 1
          BY <4>1, FS_Interval
        <5> QED
          BY <4>1, <5>1
      <4>3. e = Cardinality(E) /\ s = Len(searches)
        BY <2>1, StatisticsAtRest
      <4> HIDE DEF E
      <4>4. Cardinality(E) <= Len(searches) /\ Cardinality(E) \in Nat
        BY <4>1, <4>2, FS_Subset, FS_CardinalityType
      <4> QED
        BY <4>1, <4>3, <4>4
    <3>3. f \in Nat /\ x \in Nat
      <4>1. IsFiniteSet(embeddings)
        BY DEF RestInv
      <4>2. IsFiniteSet(DiscardedFaces(images))
        <5>1. images \subseteq Images
          BY <2>0 DEF ReadingsTypeOK
        <5> QED
          BY <5>1, DiscardedBound, ReadingsAssumption DEF ReadingInv
      <4> QED
        BY <2>1, <4>1, <4>2, StatisticsAtRest, FS_CardinalityType
    <3>4. /\ EmptySearches = Rate(e, s) /\ IndexingCompletion(Statistics) = Rate(d, i)
          /\ QualityRejection(Statistics) = Rate(x, f + x)
      BY DEF EmptySearches, IndexingCompletion, QualityRejection, Statistics
    <3>5. StatisticsRaise <=> d > i \/ e > s
      BY DEF StatisticsRaise
    <3> HIDE DEF i, d, s, e, f, x
    <3>6. \A part, whole \in Nat : part <= whole => Rate(part, whole)[1] <= Rate(part, whole)[2]
      BY DEF Rate
    <3>7. x <= f + x /\ f + x \in Nat
      BY <3>3
    <3> QED
      BY <3>1, <3>2, <3>3, <3>4, <3>5, <3>6, <3>7
  <2>2. ASSUME Shown("list"), PageRaises PROVE arg.offset > Cardinality(events)
    <3>1. PICK o : o = arg.offset
      OBVIOUS
    <3>2. PICK N : N = Cardinality(events)
      OBVIOUS
    <3>3. PICK L : L = Len(Page(arg.offset, arg.limit))
      OBVIOUS
    <3>4. o \in Nat /\ N \in Nat /\ L \in Nat /\ (o <= N => o + L <= N)
      BY <2>0, <2>2, <3>1, <3>2, <3>3, ListAtRest, PageFits, PositionsTaken, ReadingsAssumption
    <3>5. o + L > N
      BY <2>2, <3>1, <3>2, <3>3, ListAtRest DEF PageRaises
    <3> QED
      BY <3>1, <3>2, <3>4, <3>5
  <2> QED
    BY <2>1, <2>2
<1> QED
  BY <1>1, SupervisionInvariant, ReadingInvariant, PTL

(* "Is there more" is right at rest (event_catalog.py, has_more): MoreIsTold. *)
THEOREM MoreIsToldAtRest == Spec => []MoreIsTold
<1>1. TypeOK /\ RestInv /\ ReadingInv => MoreIsTold
  <2> SUFFICES ASSUME TypeOK, RestInv, ReadingInv, Shown("list"), ~raced, ~PageRaises
               PROVE  HasMore <=> \E e \in events : Position(e) >= arg.offset + Len(At("page"))
    BY DEF MoreIsTold
  <2>0. ReadingsTypeOK
    BY DEF TypeOK
  <2>1. PICK m : m = arg.offset + Len(At("page"))
    OBVIOUS
  <2>2. PICK N : N = Cardinality(events)
    OBVIOUS
  <2>3. m \in Nat /\ N \in Nat
    <3>1. arg.offset \in Nat /\ Len(At("page")) \in Nat
      BY <2>0, ListAtRest, PageFits, ReadingsAssumption
    <3> QED
      BY <2>0, <2>1, <2>2, <3>1, PositionsTaken, ReadingsAssumption
  <2>4. HasMore <=> m < N
    BY <2>1, <2>2, ListAtRest DEF HasMore
  <2>5. /\ \A e \in events : Position(e) \in 0..(N - 1)
        /\ \A n \in 0..(N - 1) : \E e \in events : Position(e) = n
    BY <2>0, <2>2, PositionsTaken, ReadingsAssumption
  <2>6. ASSUME m < N PROVE \E e \in events : Position(e) >= m
    <3>1. m \in 0..(N - 1)
      BY <2>3, <2>6
    <3>2. PICK e \in events : Position(e) = m
      BY <2>5, <3>1
    <3> QED
      BY <2>3, <3>2
  <2>7. ASSUME NEW e \in events, Position(e) >= m PROVE m < N
    <3>1. Position(e) \in 0..(N - 1)
      BY <2>5
    <3> QED
      BY <2>3, <2>7, <3>1
  <2> QED
    BY <2>1, <2>4, <2>6, <2>7
<1> QED
  BY <1>1, SupervisionInvariant, ReadingInvariant, PTL

\* The faces of an event: as many as its rows of embeddings of that version.
LEMMA FacesCounted ==
  ASSUME ReadingsTypeOK, RestInv, NEW e
  PROVE  Row(e).faces = Cardinality(FacesOf(e))
<1>1. PICK E : E = {x \in embeddings : x[1] \in ImagesOf(e) /\ x[2] = Current}
  OBVIOUS
<1>2. FacesOf(e) = {<<x[1], x[3]>> : x \in E} /\ Row(e).faces = Cardinality(E)
  BY <1>1 DEF FacesOf, Row
<1>3. IsFiniteSet(E)
  BY <1>1, FS_Subset DEF RestInv
<1>4. PICK f : f = [x \in E |-> <<x[1], x[3]>>]
  OBVIOUS
<1>5. \A x \in E : x = <<x[1], x[2], x[3]>> /\ x[2] = Current
  BY <1>1 DEF ReadingsTypeOK
<1>6. f \in Surjection(E, FacesOf(e))
  BY <1>2, <1>4 DEF Surjection
<1>7. f \in Injection(E, FacesOf(e))
  <2>1. f \in [E -> FacesOf(e)]
    BY <1>2, <1>4
  <2>2. ASSUME NEW x \in E, NEW y \in E, f[x] = f[y] PROVE x = y
    <3>1. x[1] = y[1] /\ x[3] = y[3]
      BY <1>4, <2>2
    <3> QED
      BY <1>5, <3>1
  <2> QED
    BY <2>1, <2>2 DEF Injection, IsInjective
<1> QED
  BY <1>2, <1>3, <1>6, <1>7, FS_Surjection

\* A finite set cut into parts has as many elements as its parts together.
LEMMA SumOfParts ==
  ASSUME NEW U, IsFiniteSet(U), NEW E, NEW P \in [E -> SUBSET U],
         \A u \in U : \E e \in E : u \in P[e],
         \A d \in E : \A e \in E : P[d] \cap P[e] # {} => d = e
  PROVE  Total([e \in E |-> Cardinality(P[e])]) = Cardinality(U)
<1>1. \A e \in E : IsFiniteSet(P[e])
  BY FS_Subset
<1>2. PICK n : n = [e \in E |-> Cardinality(P[e])]
  OBVIOUS
<1>3. \A e \in E : \E b : b \in Bijection(1..n[e], P[e])
  <2>1. TAKE e \in E
  <2>2. ExistsBijection(1..Cardinality(P[e]), P[e])
    BY <1>1, FS_CardinalityType
  <2> QED
    BY <1>2, <2>2 DEF ExistsBijection
<1>4. PICK g : g = [e \in E |-> CHOOSE b : b \in Bijection(1..n[e], P[e])]
  OBVIOUS
<1>5. \A e \in E : g[e] \in Bijection(1..n[e], P[e])
  BY <1>3, <1>4
<1>6. PICK S : S = UNION {{e} \X (1..n[e]) : e \in E}
  OBVIOUS
<1>7. \A x \in S : x[1] \in E /\ x[2] \in 1..n[x[1]] /\ x = <<x[1], x[2]>>
  BY <1>6
<1>8. \A e \in E : \A k \in 1..n[e] : <<e, k>> \in S
  BY <1>6
<1>9. PICK h : h = [x \in S |-> g[x[1]][x[2]]]
  OBVIOUS
<1>19. \A e \in E : /\ g[e] \in [1..n[e] -> P[e]]
                    /\ \A j, k \in 1..n[e] : g[e][j] = g[e][k] => j = k
                    /\ \A u \in P[e] : \E k \in 1..n[e] : g[e][k] = u
  <2>1. TAKE e \in E
  <2>2. PICK b : b = g[e]
    OBVIOUS
  <2>3. PICK D : D = 1..n[e]
    OBVIOUS
  <2>4. b \in Bijection(D, P[e])
    BY <1>5, <2>2, <2>3
  <2>5. /\ b \in [D -> P[e]]
        /\ \A j, k \in D : b[j] = b[k] => j = k
        /\ \A u \in P[e] : \E k \in D : b[k] = u
    BY <2>4 DEF Bijection, Injection, Surjection, IsInjective
  <2> QED
    BY <2>2, <2>3, <2>5
<1>10. \A x \in S : h[x] \in P[x[1]]
  <2>1. TAKE x \in S
  <2>2. x[1] \in E /\ x[2] \in 1..n[x[1]] /\ h[x] = g[x[1]][x[2]]
    BY <1>7, <1>9
  <2>3. g[x[1]] \in [1..n[x[1]] -> P[x[1]]]
    BY <1>19, <2>2
  <2> QED
    BY <2>2, <2>3
<1>11. h \in [S -> U]
  BY <1>7, <1>9, <1>10
<1>12. ASSUME NEW x \in S, NEW y \in S, h[x] = h[y] PROVE x = y
  <2>1. x[1] = y[1]
    BY <1>7, <1>10, <1>12
  <2>2. g[x[1]][x[2]] = g[x[1]][y[2]] /\ x[2] \in 1..n[x[1]] /\ y[2] \in 1..n[x[1]]
    BY <1>7, <1>9, <1>12, <2>1
  <2>3. x[2] = y[2]
    BY <1>7, <1>19, <2>2
  <2> QED
    BY <1>7, <2>1, <2>3
<1>13. ASSUME NEW u \in U PROVE \E x \in S : h[x] = u
  <2>1. PICK e \in E : u \in P[e]
    OBVIOUS
  <2>2. PICK k \in 1..n[e] : g[e][k] = u
    BY <1>19, <2>1
  <2>3. <<e, k>> \in S /\ h[<<e, k>>] = u
    BY <1>8, <1>9, <2>2
  <2> QED
    BY <2>3
<1>14. h \in Bijection(S, U)
  BY <1>11, <1>12, <1>13 DEF Bijection, Injection, Surjection, IsInjective
<1>15. ExistsBijection(U, S)
  BY <1>14, Fun_ExistsBijSymmetric DEF ExistsBijection
<1>16. Cardinality(S) = Cardinality(U)
  BY <1>15, FS_Bijection
<1>17. DOMAIN n = E
  BY <1>2
<1>18. S = UNION {{e} \X (1..n[e]) : e \in DOMAIN n}
  BY <1>6, <1>17
<1> QED
  BY <1>2, <1>16, <1>18 DEF Total

\* The detail of an event at rest is its row.
LEMMA DetailIsRow ==
  ASSUME ReadingsTypeOK, RestInv, ReadingInv, ~raced, Shown("detail")
  PROVE  Detail = Row(arg)
<1>1. /\ At("embeddings") = FacesOf(arg) /\ At("discarded") = DiscardedFaces(ImagesOf(arg))
      /\ At("rows").all = ImagesOf(arg) /\ At("rows").done = ImagesOf(arg) \cap done
  BY DetailAtRest
<1>2. FacesShown = FacesOf(arg)
  BY <1>1 DEF FacesShown, FacesOf
<1>3. {x \in DiscardedFaces(ImagesOf(arg)) : x[1] \in ImagesOf(arg)} = DiscardedFaces(ImagesOf(arg))
  BY DEF DiscardedFaces
<1>4. ImagesOf(arg) \ (ImagesOf(arg) \cap done) = ImagesOf(arg) \ done
  OBVIOUS
<1>5. Cardinality(FacesOf(arg)) = Cardinality({x \in embeddings : x[1] \in ImagesOf(arg) /\ x[2] = Current})
  BY FacesCounted DEF Row
<1> QED
  BY <1>1, <1>2, <1>3, <1>4, <1>5 DEF Detail, Row

\* A set of things that each belong to an image is cut into the events' parts.
LEMMA SumOverEvents ==
  ASSUME ReadingsTypeOK, NEW U, IsFiniteSet(U), NEW f \in [U -> images]
  PROVE  Total([e \in events |-> Cardinality({u \in U : f[u] \in ImagesOf(e)})]) = Cardinality(U)
<1>1. PICK P : P = [e \in events |-> {u \in U : f[u] \in ImagesOf(e)}]
  OBVIOUS
<1>2. P \in [events -> SUBSET U]
  BY <1>1
<1>3. \A u \in U : \E e \in events : u \in P[e]
  BY <1>1 DEF ReadingsTypeOK, ImagesOf
<1>4. \A d \in events : \A e \in events : P[d] \cap P[e] # {} => d = e
  BY <1>1 DEF ImagesOf
<1>5. [e \in events |-> Cardinality(P[e])]
        = [e \in events |-> Cardinality({u \in U : f[u] \in ImagesOf(e)})]
  BY <1>1
<1>6. Total([e \in events |-> Cardinality(P[e])]) = Cardinality(U)
  BY <1>2, <1>3, <1>4, SumOfParts
<1> QED
  BY <1>5, <1>6

\* The counters of the dashboard are the sums of the events'.
LEMMA CountersAreSums ==
  ASSUME ReadingsAssumption, ReadingsTypeOK, RestInv, ReadingInv
  PROVE  /\ Cardinality(images) = Total([e \in events |-> Row(e).images])
         /\ Cardinality(done) = Total([e \in events |-> Row(e).indexed])
         /\ Cardinality(images \ done) = Total([e \in events |-> Row(e).pending])
         /\ Cardinality(DiscardedFaces(images)) = Total([e \in events |-> Row(e).discarded])
         /\ {x[2] : x \in embeddings} \subseteq {Current}
              => Cardinality(embeddings) = Total([e \in events |-> Row(e).faces])
<1>1. images \subseteq Images /\ done \subseteq images
  BY DEF ReadingsTypeOK
<1>2. IsFiniteSet(images) /\ IsFiniteSet(done) /\ IsFiniteSet(images \ done)
  BY <1>1, FS_Subset DEF ReadingsAssumption
<1>3. ASSUME NEW S, S \subseteq images, IsFiniteSet(S)
      PROVE  Cardinality(S) = Total([e \in events |-> Cardinality(ImagesOf(e) \cap S)])
  <2>1. PICK f : f = [i \in S |-> i]
    OBVIOUS
  <2>2. f \in [S -> images]
    BY <1>3, <2>1
  <2>3. \A e \in events : {u \in S : f[u] \in ImagesOf(e)} = ImagesOf(e) \cap S
    BY <2>1
  <2>4. [e \in events |-> Cardinality({u \in S : f[u] \in ImagesOf(e)})]
          = [e \in events |-> Cardinality(ImagesOf(e) \cap S)]
    BY <2>3
  <2> QED
    BY <1>3, <2>2, <2>4, SumOverEvents
<1>4. \A e \in events : /\ ImagesOf(e) \cap images = ImagesOf(e)
                        /\ ImagesOf(e) \cap (images \ done) = ImagesOf(e) \ done
  BY DEF ImagesOf
<1>5. Cardinality(images) = Total([e \in events |-> Row(e).images])
  <2>1. [e \in events |-> Cardinality(ImagesOf(e) \cap images)] = [e \in events |-> Row(e).images]
    BY <1>4 DEF Row
  <2> QED
    BY <1>2, <1>3, <2>1
<1>6. Cardinality(done) = Total([e \in events |-> Row(e).indexed])
  <2>1. [e \in events |-> Cardinality(ImagesOf(e) \cap done)] = [e \in events |-> Row(e).indexed]
    BY DEF Row
  <2> QED
    BY <1>1, <1>2, <1>3, <2>1
<1>7. Cardinality(images \ done) = Total([e \in events |-> Row(e).pending])
  <2>1. [e \in events |-> Cardinality(ImagesOf(e) \cap (images \ done))]
          = [e \in events |-> Row(e).pending]
    BY <1>4 DEF Row
  <2> QED
    BY <1>2, <1>3, <2>1
<1>8. Cardinality(DiscardedFaces(images)) = Total([e \in events |-> Row(e).discarded])
  <2>1. PICK U : U = DiscardedFaces(images)
    OBVIOUS
  <2>2. IsFiniteSet(U)
    BY <1>1, <2>1, DiscardedBound DEF ReadingInv
  <2>3. PICK f : f = [u \in U |-> u[1]]
    OBVIOUS
  <2>4. f \in [U -> images]
    BY <2>1, <2>3 DEF DiscardedFaces
  <2>5. ASSUME NEW e \in events
        PROVE  {u \in U : f[u] \in ImagesOf(e)} = DiscardedFaces(ImagesOf(e))
    BY <2>1, <2>3 DEF DiscardedFaces, ImagesOf
  <2>6. [e \in events |-> Cardinality({u \in U : f[u] \in ImagesOf(e)})]
          = [e \in events |-> Row(e).discarded]
    BY <2>5 DEF Row
  <2> QED
    BY <2>1, <2>2, <2>4, <2>6, SumOverEvents
<1>9. ASSUME {x[2] : x \in embeddings} \subseteq {Current}
      PROVE  Cardinality(embeddings) = Total([e \in events |-> Row(e).faces])
  <2>1. PICK f : f = [x \in embeddings |-> x[1]]
    OBVIOUS
  <2>2. f \in [embeddings -> images]
    BY <2>1 DEF ReadingsTypeOK
  <2>3. ASSUME NEW e \in events
        PROVE  {x \in embeddings : f[x] \in ImagesOf(e)}
                 = {x \in embeddings : x[1] \in ImagesOf(e) /\ x[2] = Current}
    BY <1>9, <2>1
  <2>4. [e \in events |-> Cardinality({x \in embeddings : f[x] \in ImagesOf(e)})]
          = [e \in events |-> Row(e).faces]
    BY <2>3 DEF Row
  <2> QED
    BY <2>2, <2>4, SumOverEvents DEF RestInv
<1> QED
  BY <1>5, <1>6, <1>7, <1>8, <1>9

(* At rest the three screens agree (statistics_pg.py, event_catalog_pg.py, *)
(* event_catalog.py): the detail of an event shows the counters of its row *)
(* in the list, and the dashboard the sums of those rows (ScreensAgree).   *)
THEOREM ScreensAgreeAtRest == Spec => []ScreensAgree
<1>1. TypeOK /\ RestInv /\ ReadingInv => ScreensAgree
  <2> SUFFICES ASSUME TypeOK, RestInv, ReadingInv, ~raced PROVE
         /\ Shown("detail") => Detail = Row(arg)
         /\ Shown("statistics") =>
              /\ At("rejected") = Cardinality(At("reasons"))
              /\ \A counter \in {"images", "indexed", "pending", "discarded", "faces"} :
                   (counter = "faces" => At("versions") \subseteq {Current})
                   => Statistics[counter] = Total([e \in events |-> Row(e)[counter]])
    BY DEF ScreensAgree
  <2>0. ReadingsTypeOK
    BY DEF TypeOK
  <2>1. Shown("detail") => Detail = Row(arg)
    BY <2>0, DetailIsRow
  <2>2. Shown("statistics") => At("rejected") = Cardinality(At("reasons"))
    BY StatisticsAtRest
  <2>3. ASSUME Shown("statistics"), NEW counter \in {"images", "indexed", "pending", "discarded", "faces"},
               counter = "faces" => At("versions") \subseteq {Current}
        PROVE  Statistics[counter] = Total([e \in events |-> Row(e)[counter]])
    <3>1. /\ Statistics.images = Cardinality(images) /\ Statistics.indexed = Cardinality(done)
          /\ Statistics.pending = Cardinality(images \ done)
          /\ Statistics.faces = Cardinality(embeddings)
          /\ Statistics.discarded = Cardinality(DiscardedFaces(images))
          /\ At("versions") = {x[2] : x \in embeddings}
      BY <2>3, StatisticsAtRest DEF Statistics
    <3>2. /\ Cardinality(images) = Total([e \in events |-> Row(e).images])
          /\ Cardinality(done) = Total([e \in events |-> Row(e).indexed])
          /\ Cardinality(images \ done) = Total([e \in events |-> Row(e).pending])
          /\ Cardinality(DiscardedFaces(images)) = Total([e \in events |-> Row(e).discarded])
          /\ At("versions") \subseteq {Current}
               => Cardinality(embeddings) = Total([e \in events |-> Row(e).faces])
      BY <2>0, <3>1, CountersAreSums, ReadingsAssumption
    <3> QED
      BY <2>3, <3>1, <3>2
  <2> QED
    BY <2>1, <2>2, <2>3
<1> QED
  BY <1>1, SupervisionInvariant, ReadingInvariant, PTL
=============================================================================
