--------------------------- MODULE FrontEndProofs ---------------------------
(*************************************************************************)
(* Proofs about the screens of FrontEnd, for every number of photos,     *)
(* faces, pending calls, openings, cycles and events.  The screens share *)
(* nothing: each has an invariant of its own.                            *)
(*************************************************************************)
EXTENDS FrontEnd, Orders, SequenceTheorems

-----------------------------------------------------------------------------
(* The import.                                                             *)
Statuses == Terminal \cup Active \cup {"pending"}

\* An answer is of the kind of what was asked.
AnswersFit == \A r \in Request :
  /\ requests[r] = "created" => r.item = 0
  /\ requests[r] \in {"indexed", "duplicate"} => r.item # 0

\* A run that goes on is not cancelled: what ends it ends it at once.  The
\* screen knows the request whose answer it listens to.
ImportInv ==
  /\ ImportTypeOK /\ QueueIsSequential /\ OutcomesAreTrue /\ AnswersFit
  /\ importing => ~cancelling /\ awaited = subscribed

\* What ProcessNext is given: the photos before index have their outcome.
ReadyAt(index, statuses) ==
  /\ run' \in 0..MaxRuns /\ cancelling' = FALSE /\ AnswersFit
  /\ statuses \in Seq(Statuses) /\ Len(statuses) <= MaxPhotos
  /\ index \in 1..(Len(statuses) + 1)
  /\ Len(statuses) > 0 => run' > 0
  /\ requests \in [Request -> {"none", "sent", "indexed", "duplicate", "created"}]
  /\ \A i \in 1..Len(statuses) :
       /\ i < index => statuses[i] \in Terminal
       /\ i >= index => statuses[i] = "pending"
       /\ statuses[i] \in {"indexed", "duplicate"} => requests[[run |-> run', item |-> i]] = statuses[i]

\* The sequences of statuses are functions on an interval.
LEMMA StatusSequence ==
  ASSUME NEW n \in Nat, NEW f \in [1..n -> Statuses]
  PROVE  f \in Seq(Statuses) /\ Len(f) = n /\ DOMAIN f = 1..n
OBVIOUS

LEMMA RequestOf ==
  ASSUME QueueAssumption, NEW r \in 1..MaxRuns, NEW i \in 0..MaxPhotos
  PROVE  [run |-> r, item |-> i] \in Request
BY DEF Request

\* Whoever calls ProcessNext leaves a queue in order.
LEMMA ProcessKeeps ==
  ASSUME QueueAssumption, NEW index, NEW statuses, ReadyAt(index, statuses),
         ProcessNext(index, statuses, {})
  PROVE  ImportInv'
<1>1. CASE index > Len(statuses)
  <2>1. importing' = FALSE /\ items' = statuses /\ subscribed' = {} /\ awaited' = {}
        /\ UNCHANGED requests
    BY <1>1 DEF ProcessNext, Finish
  <2>2. ImportTypeOK'
    BY <2>1 DEF ImportTypeOK, ReadyAt, Statuses
  <2>3. QueueIsSequential'
    <3>1. Len(statuses) \in Nat /\ index \in Nat
      BY DEF ReadyAt
    <3>2. \A i \in 1..Len(statuses) : statuses[i] \in Terminal
      <4> TAKE i \in 1..Len(statuses)
      <4>1. i < index
        BY <1>1, <3>1
      <4> QED
        BY <4>1 DEF ReadyAt
    <3> QED
      BY <2>1, <3>2 DEF QueueIsSequential
  <2>4. OutcomesAreTrue'
    BY <2>1 DEF OutcomesAreTrue, ReadyAt
  <2> QED
    BY <2>1, <2>2, <2>3, <2>4 DEF ImportInv, AnswersFit, ReadyAt
<1>2. CASE ~(index > Len(statuses))
  <2> DEFINE r == [run |-> run', item |-> index]
  <2>1. /\ importing' = TRUE /\ items' = [statuses EXCEPT ![index] = "uploading"]
        /\ subscribed' = {r} /\ awaited' = {r} /\ requests' = [requests EXCEPT ![r] = "sent"]
    BY <1>2 DEF ProcessNext, Send, ReadyAt
  <2>2. index \in 1..Len(statuses) /\ Len(statuses) \in Nat /\ run' \in 1..MaxRuns
    BY <1>2 DEF ReadyAt, QueueAssumption
  <2>3. r \in Request
    BY <2>2, RequestOf DEF ReadyAt, QueueAssumption
  <2>4. items' \in Seq(Statuses) /\ Len(items') = Len(statuses)
    BY <2>1, <2>2 DEF ReadyAt, Statuses, Active
  <2>5. items'[index] = "uploading" /\ \A i \in 1..Len(statuses) : i # index => items'[i] = statuses[i]
    BY <2>1, <2>2 DEF ReadyAt
  <2>10. requests' \in [Request -> {"none", "sent", "indexed", "duplicate", "created"}]
    BY <2>1, <2>3 DEF ReadyAt
  <2>11. /\ run' \in 0..MaxRuns /\ {importing', cancelling'} \subseteq BOOLEAN
         /\ subscribed' \subseteq Request /\ awaited' \subseteq Request
         /\ Len(items') <= MaxPhotos
    BY <2>1, <2>3, <2>4 DEF ReadyAt
  <2>6. ImportTypeOK'
    BY <2>4, <2>10, <2>11 DEF ImportTypeOK, Statuses
  <2>7. QueueIsSequential'
    <3>1. \A i \in 1..Len(items') :
            /\ i < index => items'[i] \in Terminal
            /\ i = index => items'[i] \in Active
            /\ i > index => items'[i] = "pending"
      <4> TAKE i \in 1..Len(items')
      <4>1. i \in 1..Len(statuses) /\ i \in Nat /\ index \in Nat
        BY <2>2, <2>4
      <4>2. CASE i = index
        BY <2>5, <4>1, <4>2 DEF Active
      <4>3. CASE i # index
        <5>1. items'[i] = statuses[i] /\ (i < index \/ i >= index)
          BY <2>5, <4>1, <4>3
        <5>2. i < index => statuses[i] \in Terminal
          BY <4>1 DEF ReadyAt
        <5>3. i >= index => statuses[i] = "pending"
          BY <4>1 DEF ReadyAt
        <5>4. i > index => i >= index
          BY <4>1
        <5> QED
          BY <4>3, <5>1, <5>2, <5>3, <5>4
      <4> QED
        BY <4>2, <4>3
    <3>2. index \in 0..Len(items')
      BY <2>2, <2>4
    <3> QED
      BY <2>1, <3>1, <3>2 DEF QueueIsSequential
  <2>8. OutcomesAreTrue'
    <3> SUFFICES ASSUME NEW i \in 1..Len(items'), items'[i] \in {"indexed", "duplicate"}
                 PROVE  requests'[[run |-> run', item |-> i]] = items'[i]
      BY DEF OutcomesAreTrue
    <3>1. i # index /\ i \in 1..Len(statuses)
      BY <2>4, <2>5
    <3>2. requests[[run |-> run', item |-> i]] = items'[i]
      BY <2>5, <3>1 DEF ReadyAt
    <3>3. [run |-> run', item |-> i] \in Request
      BY <2>2, <3>1, RequestOf DEF ReadyAt, QueueAssumption
    <3>4. [run |-> run', item |-> i] # r
      BY <3>1
    <3> QED
      BY <2>1, <3>2, <3>3, <3>4 DEF ReadyAt
  <2>9. AnswersFit'
    BY <2>1, <2>3 DEF AnswersFit, ReadyAt
  <2> QED
    BY <2>1, <2>6, <2>7, <2>8, <2>9 DEF ImportInv, ReadyAt
<1> QED
  BY <1>1, <1>2

\* A run that is over with an empty or an ended list, and nothing listened to.
LEMMA FinishKeeps ==
  ASSUME QueueAssumption, ImportInv, run' = run, cancelling' \in BOOLEAN, NEW statuses,
         statuses \in Seq(Statuses), Len(statuses) <= MaxPhotos,
         \A i \in 1..Len(statuses) : statuses[i] \in Terminal,
         \A i \in 1..Len(statuses) : statuses[i] \in {"indexed", "duplicate"} =>
             i \in 1..Len(items) /\ statuses[i] = items[i],
         Finish(statuses, {})
  PROVE  ImportInv'
<1>1. importing' = FALSE /\ items' = statuses /\ subscribed' = {} /\ awaited' = {}
      /\ UNCHANGED requests
  BY DEF Finish
<1>2. ImportTypeOK'
  BY <1>1 DEF ImportTypeOK, ImportInv, Statuses
<1>3. QueueIsSequential'
  BY <1>1 DEF QueueIsSequential
<1>4. OutcomesAreTrue'
  BY <1>1 DEF OutcomesAreTrue, ImportInv
<1> QED
  BY <1>1, <1>2, <1>3, <1>4 DEF ImportInv, AnswersFit

\* The request that is listened to.
LEMMA Listened ==
  ASSUME QueueAssumption, ImportInv, NEW r \in Request, r \in subscribed
  PROVE  /\ importing /\ ~cancelling
         /\ r = [run |-> run, item |-> r.item] /\ subscribed = {r} /\ subscribed \ {r} = {}
         /\ r.item \in 0..Len(items) /\ r.run = run /\ run \in 1..MaxRuns
         /\ \A i \in 1..Len(items) :
              /\ i < r.item => items[i] \in Terminal
              /\ i = r.item => items[i] \in Active
              /\ i > r.item => items[i] = "pending"
<1>1. importing /\ ~cancelling
  BY DEF ImportInv, QueueIsSequential
<1>2. PICK at \in 0..Len(items) :
        /\ subscribed = {[run |-> run, item |-> at]}
        /\ \A i \in 1..Len(items) :
             /\ i < at => items[i] \in Terminal
             /\ i = at => items[i] \in Active
             /\ i > at => items[i] = "pending"
  BY <1>1 DEF ImportInv, QueueIsSequential
<1>3. r = [run |-> run, item |-> at]
  BY <1>2
<1>4. r.item = at /\ r.run = run /\ r.run \in 1..MaxRuns
  BY <1>3 DEF Request
<1> QED
  BY <1>1, <1>2, <1>3, <1>4

\* The list after the outcome of the photo that was sent.
LEMMA PatchReady ==
  ASSUME QueueAssumption, ImportInv, NEW r \in Request, r \in subscribed, r.item # 0,
         UNCHANGED <<run, cancelling>>, NEW status \in {"indexed", "duplicate", "error"},
         status # "error" => requests[r] = status
  PROVE  ReadyAt(r.item + 1, Patch(r.item, status))
<1> DEFINE s == Patch(r.item, status)
<1>1. Len(items) \in Nat /\ items \in Seq(Statuses) /\ Len(items) <= MaxPhotos
  BY DEF ImportInv, ImportTypeOK, Statuses
<1>2. status \in Statuses /\ status \in Terminal
  BY DEF Statuses, Terminal
<1>3. s \in [1..Len(items) -> Statuses]
  BY <1>1, <1>2 DEF Patch
<1>4. s \in Seq(Statuses) /\ Len(s) = Len(items)
  BY <1>1, <1>3, StatusSequence
<1>5. \A i \in 1..Len(items) : s[i] = IF i = r.item THEN status ELSE items[i]
  BY DEF Patch
<1> HIDE DEF s
<1>6. /\ r = [run |-> run, item |-> r.item] /\ r.item \in 1..Len(items) /\ run \in 1..MaxRuns
      /\ ~cancelling
      /\ \A i \in 1..Len(items) :
           /\ i < r.item => items[i] \in Terminal
           /\ i > r.item => items[i] = "pending"
  BY <1>1, Listened DEF Request
<1>7. ASSUME NEW i \in 1..Len(s)
      PROVE  /\ i < r.item + 1 => s[i] \in Terminal
             /\ i >= r.item + 1 => s[i] = "pending"
             /\ s[i] \in {"indexed", "duplicate"} => requests[[run |-> run', item |-> i]] = s[i]
  <2>1. CASE i = r.item
    BY <1>2, <1>4, <1>5, <1>6, <2>1
  <2>2. CASE i # r.item
    BY <1>1, <1>4, <1>5, <1>6, <2>2 DEF ImportInv, OutcomesAreTrue
  <2> QED
    BY <2>1, <2>2
<1>8. /\ run' \in 0..MaxRuns /\ cancelling' = FALSE /\ run' > 0
      /\ requests \in [Request -> {"none", "sent", "indexed", "duplicate", "created"}]
  BY <1>6 DEF ImportInv, ImportTypeOK, QueueAssumption
<1>9. r.item + 1 \in 1..(Len(s) + 1)
  BY <1>1, <1>4, <1>6
<1> QED
  BY <1>1, <1>4, <1>7, <1>8, <1>9 DEF ReadyAt, ImportInv, s

LEMMA ImportStep ==
  ASSUME QueueAssumption, ImportInv, ImportNext
  PROVE  ImportInv'
<1> USE DEF ImportInv
<1>0. /\ Len(items) \in Nat /\ items \in Seq(Statuses) /\ Len(items) <= MaxPhotos
      /\ run \in 0..MaxRuns /\ cancelling \in BOOLEAN
      /\ requests \in [Request -> {"none", "sent", "indexed", "duplicate", "created"}]
  BY DEF ImportTypeOK, Statuses
<1>1. ASSUME NEW n \in 1..MaxPhotos, OnSubmitPhotos(n) PROVE ImportInv'
  <2> DEFINE w == [i \in 1..n |-> "pending"]
  <2>1. n \in Nat /\ w \in [1..n -> Statuses] /\ \A i \in 1..n : w[i] = "pending"
    BY DEF Statuses, QueueAssumption
  <2>2. w \in Seq(Statuses) /\ Len(w) = n
    BY <2>1, StatusSequence
  <2>3. /\ run' = run + 1 /\ run' \in 1..MaxRuns /\ cancelling' = FALSE
        /\ subscribed = {}
        /\ \/ ProcessNext(1, w, subscribed)
           \/ items' = w /\ importing' = TRUE /\ Send([run |-> run + 1, item |-> 0], subscribed)
    <3>1. run < MaxRuns /\ MaxRuns \in Nat /\ ~importing
      BY <1>1 DEF OnSubmitPhotos, QueueAssumption
    <3>2. run + 1 \in 1..MaxRuns
      BY <1>0, <3>1
    <3>3. run' = run + 1 /\ cancelling' = FALSE
      BY <1>1 DEF OnSubmitPhotos
    <3>4. \/ ProcessNext(1, w, subscribed)
          \/ items' = w /\ importing' = TRUE /\ Send([run |-> run + 1, item |-> 0], subscribed)
      BY <1>1 DEF OnSubmitPhotos
    <3> QED
      BY <3>1, <3>2, <3>3, <3>4 DEF QueueIsSequential
  <2> HIDE DEF w
  <2>4. CASE ProcessNext(1, w, subscribed)
    <3>1. ReadyAt(1, w)
      BY <1>0, <2>1, <2>2, <2>3 DEF ReadyAt, QueueAssumption
    <3> QED
      BY <2>3, <2>4, <3>1, ProcessKeeps
  <2>5. CASE items' = w /\ importing' = TRUE /\ Send([run |-> run + 1, item |-> 0], subscribed)
    <3>1. [run |-> run + 1, item |-> 0] \in Request
      BY <2>3, RequestOf DEF QueueAssumption
    <3>2. ImportTypeOK'
      <4>1. /\ subscribed' = {[run |-> run + 1, item |-> 0]} /\ awaited' = subscribed'
            /\ requests' = [requests EXCEPT ![[run |-> run + 1, item |-> 0]] = "sent"]
        BY <2>3, <2>5 DEF Send
      <4>2. requests' \in [Request -> {"none", "sent", "indexed", "duplicate", "created"}]
        BY <1>0, <3>1, <4>1
      <4>3. run' \in 0..MaxRuns /\ Len(items') <= MaxPhotos
        BY <2>2, <2>3, <2>5 DEF QueueAssumption
      <4> QED
        BY <2>2, <2>3, <2>5, <3>1, <4>1, <4>2, <4>3 DEF ImportTypeOK, Statuses
    <3>3. QueueIsSequential'
      BY <2>1, <2>2, <2>3, <2>5 DEF QueueIsSequential, Send
    <3>4. OutcomesAreTrue'
      BY <2>1, <2>2, <2>5 DEF OutcomesAreTrue
    <3>5. AnswersFit'
      BY <1>0, <2>3, <2>5, <3>1 DEF AnswersFit, Send
    <3>6. awaited' = subscribed'
      BY <2>3, <2>5 DEF Send
    <3> QED
      BY <2>3, <3>2, <3>3, <3>4, <3>5, <3>6
  <2> QED
    BY <2>3, <2>4, <2>5
<1>2. CASE CancelRun
  <2>1. Cancelled \in [1..Len(items) -> Statuses]
    BY <1>0 DEF Cancelled, Statuses, Terminal
  <2>2. Cancelled \in Seq(Statuses) /\ Len(Cancelled) = Len(items)
    BY <1>0, <2>1, StatusSequence
  <2>3. \A i \in 1..Len(items) :
          /\ Cancelled[i] \in Terminal
          /\ Cancelled[i] \in {"indexed", "duplicate"} => Cancelled[i] = items[i]
    BY DEF Cancelled, Terminal
  <2>4. Finish(Cancelled, {}) /\ run' = run /\ cancelling' = TRUE
    BY <1>2 DEF CancelRun, QueueIsSequential
  <2> QED
    BY <1>0, <2>2, <2>3, <2>4, FinishKeeps
<1>3. CASE LeaveImport
  <2>1. Finish(<<>>, {}) /\ run' = run /\ cancelling' = FALSE
    BY <1>3 DEF LeaveImport, QueueIsSequential
  <2>2. <<>> \in Seq(Statuses) /\ Len(<<>>) = 0
    OBVIOUS
  <2>3. \A i \in 1..Len(<<>>) : FALSE
    OBVIOUS
  <2>4. Len(<<>>) <= MaxPhotos
    BY <2>2 DEF QueueAssumption
  <2>5. cancelling' \in BOOLEAN
    BY <2>1
  <2> HIDE DEF ImportInv
  <2> QED
    BY <2>1, <2>2, <2>3, <2>4, <2>5, FinishKeeps
<1>4. ASSUME NEW r \in Request, ServiceHandles(r) PROVE ImportInv'
  <2>1. PICK outcome \in {"created", "indexed", "duplicate"} :
          requests' = [requests EXCEPT ![r] = outcome]
    BY <1>4 DEF ServiceHandles
  <2>2. requests[r] = "sent" /\ UNCHANGED <<run, importing, cancelling, items, subscribed, awaited>>
    BY <1>4 DEF ServiceHandles
  <2>3. ImportTypeOK' /\ QueueIsSequential'
    BY <1>0, <2>1, <2>2 DEF ImportTypeOK, QueueIsSequential
  <2>4. OutcomesAreTrue'
    BY <1>0, <2>1, <2>2 DEF OutcomesAreTrue
  <2>5. AnswersFit'
    BY <1>0, <1>4 DEF AnswersFit, ServiceHandles
  <2> QED
    BY <2>2, <2>3, <2>4, <2>5
<1>5. ASSUME NEW r \in Request, UploadProgress(r) PROVE ImportInv'
  <2>1. /\ r \in subscribed /\ r.item # 0 /\ items' = Patch(r.item, "indexing")
        /\ UNCHANGED <<run, importing, cancelling, requests, subscribed, awaited>>
    BY <1>5 DEF UploadProgress
  <2>2. /\ importing /\ subscribed = {[run |-> run, item |-> r.item]} /\ r.item \in 0..Len(items)
        /\ \A i \in 1..Len(items) :
             /\ i < r.item => items[i] \in Terminal
             /\ i > r.item => items[i] = "pending"
    BY <2>1, Listened
  <2>3. items' \in [1..Len(items) -> Statuses]
    BY <1>0, <2>1 DEF Patch, Statuses, Active
  <2>4. items' \in Seq(Statuses) /\ Len(items') = Len(items)
    BY <1>0, <2>3, StatusSequence
  <2>5. \A i \in 1..Len(items) : items'[i] = IF i = r.item THEN "indexing" ELSE items[i]
    BY <2>1 DEF Patch
  <2>6. ImportTypeOK'
    BY <1>0, <2>1, <2>4 DEF ImportTypeOK, Statuses
  <2>7. QueueIsSequential'
    <3>1. \A i \in 1..Len(items') :
            /\ i < r.item => items'[i] \in Terminal
            /\ i = r.item => items'[i] \in Active
            /\ i > r.item => items'[i] = "pending"
      BY <1>0, <2>2, <2>4, <2>5 DEF Active
    <3> QED
      BY <2>1, <2>2, <2>4, <3>1 DEF QueueIsSequential
  <2>8. OutcomesAreTrue'
    BY <2>1, <2>4, <2>5 DEF OutcomesAreTrue
  <2> QED
    BY <2>1, <2>6, <2>7, <2>8 DEF AnswersFit
<1>6. ASSUME NEW r \in Request, EventCreatedAnswer(r) PROVE ImportInv'
  <2>1. r \in subscribed /\ requests[r] = "created" /\ UNCHANGED <<run, cancelling>>
        /\ ProcessNext(1, items, subscribed \ {r})
    BY <1>6 DEF EventCreatedAnswer
  <2>2. CASE r.item = 0
    <3>1. /\ subscribed \ {r} = {} /\ ~cancelling /\ run \in 1..MaxRuns
          /\ \A i \in 1..Len(items) : items[i] = "pending"
      BY <1>0, <2>1, <2>2, Listened
    <3>2. ReadyAt(1, items)
      BY <1>0, <2>1, <3>1 DEF ReadyAt, QueueAssumption
    <3> QED
      BY <2>1, <3>1, <3>2, ProcessKeeps
  <2> QED
    BY <2>1, <2>2 DEF AnswersFit
<1>7. ASSUME NEW r \in Request, CreationFails(r) PROVE ImportInv'
  <2>1. r \in subscribed /\ UNCHANGED <<run, cancelling>> /\ Finish(<<>>, {})
    BY <1>7, Listened DEF CreationFails
  <2>2. <<>> \in Seq(Statuses) /\ Len(<<>>) = 0
    OBVIOUS
  <2>3. \A i \in 1..Len(<<>>) : FALSE
    OBVIOUS
  <2>4. Len(<<>>) <= MaxPhotos
    BY <2>2 DEF QueueAssumption
  <2>5. cancelling' \in BOOLEAN
    BY <1>0, <2>1
  <2> HIDE DEF ImportInv
  <2> QED
    BY <2>1, <2>2, <2>3, <2>4, <2>5, FinishKeeps
<1>8. ASSUME NEW r \in Request, UploadAnswered(r) PROVE ImportInv'
  <2>1. /\ r \in subscribed /\ requests[r] \in {"indexed", "duplicate"} /\ UNCHANGED <<run, cancelling>>
        /\ ProcessNext(r.item + 1, Patch(r.item, requests[r]), {})
    BY <1>8, Listened DEF UploadAnswered
  <2>2. r.item # 0
    BY <2>1 DEF AnswersFit
  <2> QED
    BY <2>1, <2>2, PatchReady, ProcessKeeps
<1>9. ASSUME NEW r \in Request, UploadFails(r) PROVE ImportInv'
  <2>1. /\ r \in subscribed /\ r.item # 0 /\ UNCHANGED <<run, cancelling>>
        /\ ProcessNext(r.item + 1, Patch(r.item, "error"), {})
    BY <1>9, Listened DEF UploadFails
  <2> QED
    BY <2>1, PatchReady, ProcessKeeps
<1> QED
  BY <1>1, <1>2, <1>3, <1>4, <1>5, <1>6, <1>7, <1>8, <1>9 DEF ImportNext, ImportAnswers

-----------------------------------------------------------------------------
(* The camera.                                                             *)

\* One opening at most comes from the button, and only on a screen at rest.
OpeningInv ==
  /\ opening \in [Openings -> [by : {"nobody", "start", "change"}, at : {"none", "asking", "playing"}]]
  /\ \A o \in Openings :
       /\ opening[o].by = "nobody" <=> opening[o].at = "none"
       /\ opening[o].by = "start" => starting /\ ~running
       /\ \A q \in Openings : opening[o].by = "start" /\ opening[q].by = "start" => o = q

\* What is not crossed is alone.
StreamInv ==
  ~crossed =>
    /\ live \subseteq {stream}
    /\ ~running /\ ~Opening => live = {}
    /\ \A o \in Openings :
         /\ opening[o].at = "asking" => live = {}
         /\ opening[o].by = "change" => running
         /\ \A q \in Openings : opening[o] # NotOpening /\ opening[q] # NotOpening => o = q

\* The only cycle under way is the one that cancelCycle drops, and nothing
\* sets another one before it ends.
LoopInv ==
  ~crossed /\ ~rewoken =>
    /\ \A c, d \in Busy : c = d
    /\ timer => Busy = {}
    /\ ~running \/ Opening => Busy = {} /\ ~timer
    /\ \A c \in Cycles : cycle[c] \in {"detect", "search"} => c = inFlight /\ phase # "hidden"

CameraInv ==
  /\ cycle \in [Cycles -> {"free", "capture", "stale", "detect", "search"}]
  /\ OpeningInv /\ StreamInv /\ LoopInv /\ LoopGoesOn

LEMMA OpeningRecords ==
  ASSUME OpeningInv, NEW o \in Openings
  PROVE  opening[o] = NotOpening <=> opening[o].at = "none"
BY DEF OpeningInv, NotOpening

\* A cancelled cycle is not busy any more: there was no other.
LEMMA NothingBusy ==
  ASSUME CameraInv, CancelCycle
  PROVE  /\ cycle' \in [Cycles -> {"free", "capture", "stale", "detect", "search"}]
         /\ timer' = FALSE
         /\ ~crossed /\ ~rewoken => Busy' = {} /\ \A c \in Cycles : cycle'[c] \in {"free", "stale"}
<1>1. /\ timer' = FALSE
      /\ cycle' = [c \in Cycles |-> CASE c = inFlight -> "free"
                                     [] cycle[c] = "capture" -> "stale"
                                     [] OTHER -> cycle[c]]
  BY DEF CancelCycle
<1>2. cycle' \in [Cycles -> {"free", "capture", "stale", "detect", "search"}]
  BY <1>1 DEF CameraInv
<1>3. ASSUME ~crossed, ~rewoken, NEW c \in Cycles
      PROVE  cycle'[c] \in {"free", "stale"}
  BY <1>1, <1>3 DEF CameraInv, LoopInv
<1> QED
  BY <1>1, <1>2, <1>3 DEF Busy

\* The user and the tab.
LEMMA StartKeeps ==
  ASSUME CameraInv, NEW o \in Openings, Start(o) PROVE CameraInv'
<1>1. /\ ~running /\ ~starting /\ starting' = TRUE /\ opening[o] = NotOpening
      /\ opening' = [opening EXCEPT ![o] = [by |-> "start", at |-> "asking"]]
      /\ crossed' = (crossed \/ Opening)
      /\ UNCHANGED <<mounted, hidden, running, stream, live, phase, timer, cycle, inFlight, rewoken>>
  BY DEF Start, Cross, loop
<1>2. OpeningInv'
  BY <1>1 DEF CameraInv, OpeningInv
<1>3. StreamInv'
  <2> SUFFICES ASSUME ~crossed, ~Opening PROVE StreamInv'
    BY <1>1 DEF StreamInv
  <2>1. live = {} /\ \A q \in Openings : opening[q] = NotOpening
    BY <1>1 DEF CameraInv, StreamInv, Opening
  <2>2. \A q \in Openings : q # o => opening'[q] = NotOpening
    BY <1>1, <2>1 DEF CameraInv, OpeningInv
  <2>3. opening'[o] = [by |-> "start", at |-> "asking"]
    BY <1>1 DEF CameraInv, OpeningInv
  <2> QED
    BY <1>1, <2>1, <2>2, <2>3 DEF StreamInv, NotOpening
<1>4. LoopInv'
  <2>1. Busy' = Busy
    BY <1>1 DEF Busy
  <2> QED
    BY <1>1, <2>1 DEF CameraInv, LoopInv
<1>5. LoopGoesOn'
  BY <1>1 DEF LoopGoesOn
<1> QED
  BY <1>1, <1>2, <1>3, <1>4, <1>5 DEF CameraInv

\* Stop and Leave, and a change of device that is refused.
LEMMA StoppedKeeps ==
  ASSUME CameraInv, StopAll, OpeningInv', crossed => crossed', rewoken' = rewoken,
         ~crossed' => \A o \in Openings : opening'[o] = NotOpening
  PROVE  CameraInv'
<1>1. running' = FALSE /\ stream' = NoStream /\ live' = live \ {stream} /\ phase' = "idle"
  BY DEF StopAll, ReleaseStream
<1>2. /\ cycle' \in [Cycles -> {"free", "capture", "stale", "detect", "search"}]
      /\ timer' = FALSE
      /\ ~crossed /\ ~rewoken => Busy' = {} /\ \A c \in Cycles : cycle'[c] \in {"free", "stale"}
  BY NothingBusy DEF StopAll
<1>3. StreamInv'
  <2> SUFFICES ASSUME ~crossed' PROVE StreamInv'
    BY DEF StreamInv
  <2>1. live' = {}
    BY <1>1 DEF CameraInv, StreamInv
  <2> QED
    BY <1>1, <2>1 DEF StreamInv, NotOpening
<1>4. LoopInv'
  BY <1>1, <1>2 DEF LoopInv
<1>5. LoopGoesOn'
  BY <1>1 DEF LoopGoesOn
<1> QED
  BY <1>2, <1>3, <1>4, <1>5 DEF CameraInv

LEMMA StopKeeps ==
  ASSUME CameraInv, Stop \/ Leave PROVE CameraInv'
<1>1. StopAll /\ Cross /\ UNCHANGED <<starting, opening, rewoken>>
  BY DEF Stop, Leave
<1>2. running' = FALSE
  BY <1>1 DEF StopAll
<1>3. OpeningInv'
  BY <1>1, <1>2 DEF CameraInv, OpeningInv
<1>4. ~crossed' => \A o \in Openings : opening'[o] = NotOpening
  BY <1>1 DEF Cross, Opening
<1> QED
  BY <1>1, <1>3, <1>4, StoppedKeeps DEF Cross

LEMMA ChangeKeeps ==
  ASSUME CameraInv, NEW o \in Openings, OnDeviceChange(o) PROVE CameraInv'
<1>1. /\ running /\ opening[o] = NotOpening /\ CancelCycle
      /\ stream' = NoStream /\ live' = live \ {stream}
      /\ opening' = [opening EXCEPT ![o] = [by |-> "change", at |-> "asking"]]
      /\ crossed' = (crossed \/ Opening)
      /\ UNCHANGED <<mounted, hidden, running, starting, phase, rewoken>>
  BY DEF OnDeviceChange, Cross, ReleaseStream
<1>2. /\ opening'[o] = [by |-> "change", at |-> "asking"]
      /\ \A q \in Openings : q # o => opening'[q] = opening[q]
  BY <1>1 DEF CameraInv, OpeningInv
<1>3. OpeningInv'
  BY <1>1 DEF CameraInv, OpeningInv
<1>4. StreamInv'
  <2> SUFFICES ASSUME ~crossed, ~Opening PROVE StreamInv'
    BY <1>1 DEF StreamInv
  <2>1. live' = {}
    BY <1>1 DEF CameraInv, StreamInv
  <2>2. \A q \in Openings : q # o => opening'[q] = NotOpening
    BY <1>2 DEF Opening
  <2> QED
    BY <1>1, <1>2, <2>1, <2>2 DEF StreamInv, NotOpening
<1>5. LoopInv' /\ cycle' \in [Cycles -> {"free", "capture", "stale", "detect", "search"}]
  BY <1>1, NothingBusy DEF LoopInv
<1>6. LoopGoesOn'
  BY <1>2 DEF LoopGoesOn, Opening, NotOpening
<1> QED
  BY <1>3, <1>4, <1>5, <1>6 DEF CameraInv

LEMMA TabKeeps ==
  ASSUME CameraInv, Hide \/ Show PROVE CameraInv'
<1>1. /\ UNCHANGED <<mounted, running, starting, opening, stream, live, phase, cycle, inFlight, crossed>>
      /\ Opening' = Opening /\ Busy' = Busy
  BY DEF Hide, Show, camera, loop, Opening, Busy
<1>2. OpeningInv' /\ StreamInv'
  BY <1>1 DEF CameraInv, OpeningInv, StreamInv
<1>3. CASE Hide
  BY <1>1, <1>2, <1>3 DEF Hide, loop, CameraInv, LoopInv, LoopGoesOn
<1>4. CASE Show
  <2>1. CASE mounted /\ running /\ phase = "hidden"
    <3>1. timer' = TRUE /\ rewoken' = (rewoken \/ Opening \/ \E c \in Cycles : cycle[c] = "capture")
      BY <1>4, <2>1 DEF Show
    <3>2. ASSUME ~crossed, ~rewoken, ~Opening, \A c \in Cycles : cycle[c] # "capture" PROVE Busy = {}
      BY <2>1, <3>2 DEF CameraInv, LoopInv, Busy
    <3>3. LoopInv'
      BY <1>1, <2>1, <3>1, <3>2 DEF CameraInv, LoopInv
    <3> QED
      BY <1>1, <1>2, <3>1, <3>3 DEF CameraInv, LoopGoesOn
  <2>2. CASE ~(mounted /\ running /\ phase = "hidden")
    BY <1>1, <1>2, <1>4, <2>2 DEF Show, CameraInv, LoopInv, LoopGoesOn
  <2> QED
    BY <2>1, <2>2
<1> QED
  BY <1>3, <1>4

\* openStream.
LEMMA GrantedKeeps ==
  ASSUME CameraInv, NEW o \in Openings, Granted(o) PROVE CameraInv'
<1>1. PICK s : stream' = s /\ live' = live \cup {s}
  BY DEF Granted
<1>2. /\ opening[o].at = "asking" /\ opening' = [opening EXCEPT ![o].at = "playing"]
      /\ UNCHANGED <<mounted, hidden, running, starting, phase, timer, cycle, inFlight, crossed, rewoken>>
  BY DEF Granted, loop
<1>3. /\ opening'[o] = [by |-> opening[o].by, at |-> "playing"]
      /\ \A q \in Openings : q # o => opening'[q] = opening[q]
  BY <1>2 DEF CameraInv, OpeningInv
<1>4. OpeningInv'
  BY <1>2, <1>3 DEF CameraInv, OpeningInv
<1>5. Opening /\ Opening' /\ opening[o] # NotOpening
  BY <1>2, <1>3 DEF Opening, NotOpening
<1>6. StreamInv'
  <2> SUFFICES ASSUME ~crossed PROVE StreamInv'
    BY <1>2 DEF StreamInv
  <2>1. live = {} /\ \A q \in Openings : q # o => opening[q] = NotOpening
    BY <1>2, <1>5 DEF CameraInv, StreamInv
  <2> QED
    BY <1>1, <1>2, <1>3, <1>5, <2>1 DEF StreamInv, CameraInv, NotOpening
<1>7. LoopInv'
  <2>1. Busy' = Busy
    BY <1>2 DEF Busy
  <2> QED
    BY <1>2, <1>5, <2>1 DEF CameraInv, LoopInv
<1>8. LoopGoesOn'
  BY <1>5 DEF LoopGoesOn
<1> QED
  BY <1>2, <1>4, <1>6, <1>7, <1>8 DEF CameraInv

LEMMA OpenedKeeps ==
  ASSUME CameraInv, NEW o \in Openings, Opened(o) PROVE CameraInv'
<1>1. /\ opening[o].at = "playing" /\ opening' = [opening EXCEPT ![o] = NotOpening] /\ timer' = TRUE
      /\ UNCHANGED <<mounted, hidden, stream, live, phase, cycle, inFlight, crossed, rewoken>>
  BY DEF Opened
<1>2. /\ opening'[o] = NotOpening /\ \A q \in Openings : q # o => opening'[q] = opening[q]
      /\ Opening /\ opening[o] # NotOpening
  BY <1>1 DEF CameraInv, OpeningInv, Opening, NotOpening
<1>3. \/ opening[o].by = "start" /\ running' = TRUE /\ starting' = FALSE
      \/ opening[o].by = "change" /\ UNCHANGED <<running, starting>>
  BY <1>1 DEF Opened, CameraInv, OpeningInv
<1>4. OpeningInv'
  BY <1>1, <1>2, <1>3 DEF CameraInv, OpeningInv, NotOpening
<1>5. ~crossed => running' = TRUE \/ running' = running
  BY <1>3
<1>6. ~crossed => running' /\ \A q \in Openings : opening'[q] = NotOpening
  BY <1>2, <1>3 DEF CameraInv, StreamInv
<1>7. StreamInv'
  BY <1>1, <1>6 DEF CameraInv, StreamInv, NotOpening
<1>8. LoopInv'
  <2>1. Busy' = Busy
    BY <1>1 DEF Busy
  <2>2. ~crossed => ~Opening'
    BY <1>6 DEF Opening
  <2> QED
    BY <1>1, <1>2, <1>6, <2>1, <2>2 DEF CameraInv, LoopInv
<1>9. LoopGoesOn'
  BY <1>1 DEF LoopGoesOn
<1> QED
  BY <1>1, <1>4, <1>7, <1>8, <1>9 DEF CameraInv

LEMMA NotOpenedKeeps ==
  ASSUME CameraInv, NEW o \in Openings, NotOpened(o) PROVE CameraInv'
<1>1. /\ opening[o] # NotOpening /\ opening' = [opening EXCEPT ![o] = NotOpening]
      /\ UNCHANGED <<mounted, hidden, crossed, rewoken>>
  BY DEF NotOpened
<1>2. opening'[o] = NotOpening /\ \A q \in Openings : q # o => opening'[q] = opening[q]
  BY <1>1 DEF CameraInv, OpeningInv
<1>3. ~crossed => \A q \in Openings : opening'[q] = NotOpening
  BY <1>1, <1>2 DEF CameraInv, StreamInv
<1>4. CASE opening[o].by = "start"
  <2>1. /\ stream' = NoStream /\ live' = live \ {stream} /\ starting' = FALSE /\ ~running
        /\ UNCHANGED <<running, phase, timer, cycle, inFlight>>
    BY <1>4 DEF NotOpened, ReleaseStream, loop, CameraInv, OpeningInv
  <2>2. OpeningInv'
    BY <1>1, <1>2, <1>4, <2>1 DEF CameraInv, OpeningInv, NotOpening
  <2>3. StreamInv'
    <3> SUFFICES ASSUME ~crossed PROVE StreamInv'
      BY <1>1 DEF StreamInv
    <3>1. live' = {}
      BY <2>1 DEF CameraInv, StreamInv
    <3> QED
      BY <1>3, <3>1 DEF StreamInv, NotOpening
  <2>4. LoopInv'
    <3>1. Busy' = Busy
      BY <2>1 DEF Busy
    <3> QED
      BY <1>1, <2>1, <3>1 DEF CameraInv, LoopInv
  <2>5. LoopGoesOn'
    BY <2>1 DEF LoopGoesOn
  <2> QED
    BY <2>1, <2>2, <2>3, <2>4, <2>5 DEF CameraInv
<1>5. CASE opening[o].by # "start"
  <2>1. StopAll /\ UNCHANGED starting
    BY <1>5 DEF NotOpened
  <2>2. running' = FALSE
    BY <2>1 DEF StopAll
  <2>3. OpeningInv'
    BY <1>1, <1>2, <2>1, <2>2 DEF CameraInv, OpeningInv, NotOpening
  <2>4. crossed' = crossed /\ rewoken' = rewoken
    BY <1>1
  <2> QED
    BY <1>3, <2>1, <2>3, <2>4, StoppedKeeps
<1> QED
  BY <1>4, <1>5

\* The loop.
LEMMA TimerKeeps ==
  ASSUME CameraInv, TimerFires PROVE CameraInv'
<1>1. /\ timer /\ timer' = FALSE
      /\ UNCHANGED <<mounted, hidden, running, starting, opening, stream, live, inFlight, crossed, rewoken>>
      /\ Opening' = Opening
  BY DEF TimerFires, camera, Opening
<1>2. OpeningInv' /\ StreamInv'
  BY <1>1 DEF CameraInv, OpeningInv, StreamInv
<1>3. CASE ~running /\ UNCHANGED <<phase, cycle>>
  <2>1. Busy' = Busy
    BY <1>3 DEF Busy
  <2> QED
    BY <1>1, <1>2, <1>3, <2>1 DEF CameraInv, LoopInv, LoopGoesOn
<1>4. CASE running /\ hidden /\ phase' = "hidden" /\ UNCHANGED cycle
  <2>1. Busy' = Busy
    BY <1>4 DEF Busy
  <2>2. LoopInv'
    BY <1>1, <1>4, <2>1 DEF CameraInv, LoopInv, Busy
  <2> QED
    BY <1>1, <1>2, <1>4, <2>2 DEF CameraInv, LoopGoesOn
<1>5. ASSUME NEW c \in Cycles, cycle[c] = "free", cycle' = [cycle EXCEPT ![c] = "capture"],
             running, UNCHANGED phase
      PROVE  CameraInv'
  <2>1. /\ cycle' \in [Cycles -> {"free", "capture", "stale", "detect", "search"}]
        /\ cycle'[c] = "capture" /\ \A d \in Cycles : d # c => cycle'[d] = cycle[d]
    BY <1>5 DEF CameraInv
  <2>2. Busy' = Busy \cup {c}
    BY <1>5, <2>1 DEF Busy
  <2>3. LoopInv'
    BY <1>1, <1>5, <2>1, <2>2 DEF CameraInv, LoopInv
  <2>4. LoopGoesOn'
    BY <2>2 DEF LoopGoesOn
  <2> QED
    BY <1>2, <2>1, <2>3, <2>4 DEF CameraInv
<1> QED
  BY <1>3, <1>4, <1>5 DEF TimerFires

\* A cycle ends, and another is set or the screen is at rest.
LEMMA EndedKeeps ==
  ASSUME CameraInv, NEW c \in Cycles, c \in Busy, cycle' = [cycle EXCEPT ![c] = "free"], timer' = TRUE,
         UNCHANGED <<mounted, hidden, running, starting, camera, crossed, rewoken>>
  PROVE  CameraInv'
<1>1. UNCHANGED <<opening, stream, live>> /\ Opening' = Opening
  BY DEF camera, Opening
<1>2. OpeningInv' /\ StreamInv'
  BY <1>1 DEF CameraInv, OpeningInv, StreamInv
<1>3. /\ cycle' \in [Cycles -> {"free", "capture", "stale", "detect", "search"}]
      /\ cycle'[c] = "free" /\ \A d \in Cycles : d # c => cycle'[d] = cycle[d]
  BY DEF CameraInv
<1>4. Busy' = Busy \ {c}
  BY <1>3 DEF Busy
<1>5. LoopInv'
  <2> SUFFICES ASSUME ~crossed, ~rewoken PROVE LoopInv'
    BY DEF LoopInv
  <2>1. Busy' = {} /\ running /\ ~Opening
    BY <1>4 DEF CameraInv, LoopInv
  <2>2. \A d \in Cycles : cycle'[d] \notin {"detect", "search"}
    BY <2>1 DEF Busy
  <2> QED
    BY <1>1, <2>1, <2>2 DEF LoopInv
<1>6. LoopGoesOn'
  BY DEF LoopGoesOn
<1> QED
  BY <1>2, <1>3, <1>5, <1>6 DEF CameraInv

\* A cycle goes on to its detection or its search.
LEMMA AdvancedKeeps ==
  ASSUME CameraInv, NEW c \in Cycles, c \in Busy, NEW at \in {"detect", "search"},
         cycle' = [cycle EXCEPT ![c] = at], UNCHANGED timer,
         phase' \in {"detecting", "searching"}, inFlight' = c,
         UNCHANGED <<mounted, hidden, running, starting, camera, crossed, rewoken>>
  PROVE  CameraInv'
<1>1. UNCHANGED <<opening, stream, live>> /\ Opening' = Opening
  BY DEF camera, Opening
<1>2. OpeningInv' /\ StreamInv'
  BY <1>1 DEF CameraInv, OpeningInv, StreamInv
<1>3. /\ cycle' \in [Cycles -> {"free", "capture", "stale", "detect", "search"}]
      /\ cycle'[c] = at /\ \A d \in Cycles : d # c => cycle'[d] = cycle[d]
  BY DEF CameraInv
<1>4. Busy' = Busy
  BY <1>3 DEF Busy
<1>5. LoopInv'
  <2> SUFFICES ASSUME ~crossed, ~rewoken PROVE LoopInv'
    BY DEF LoopInv
  <2>1. \A d \in Busy : d = c
    BY DEF CameraInv, LoopInv
  <2>2. ASSUME NEW d \in Cycles, cycle'[d] \in {"detect", "search"} PROVE d = c
    BY <1>4, <2>1, <2>2 DEF Busy
  <2> QED
    BY <1>1, <1>4, <2>2 DEF CameraInv, LoopInv
<1>6. LoopGoesOn'
  BY <1>4 DEF LoopGoesOn
<1> QED
  BY <1>2, <1>3, <1>5, <1>6 DEF CameraInv

LEMMA CapturedKeeps ==
  ASSUME CameraInv, NEW c \in Cycles, Captured(c) PROVE CameraInv'
<1>1. UNCHANGED <<mounted, hidden, running, starting, camera, crossed, rewoken>>
  BY DEF Captured
<1>2. CASE /\ cycle[c] = "stale" \/ (cycle[c] = "capture" /\ ~running)
           /\ cycle' = [cycle EXCEPT ![c] = "free"]
           /\ UNCHANGED <<phase, timer, inFlight>>
  <2>1. UNCHANGED <<opening, stream, live>> /\ Opening' = Opening
    BY <1>1 DEF camera, Opening
  <2>2. OpeningInv' /\ StreamInv'
    BY <1>1, <2>1 DEF CameraInv, OpeningInv, StreamInv
  <2>3. /\ cycle' \in [Cycles -> {"free", "capture", "stale", "detect", "search"}]
        /\ cycle'[c] = "free" /\ \A d \in Cycles : d # c => cycle'[d] = cycle[d]
    BY <1>2 DEF CameraInv
  <2>4. Busy' = Busy \ {c} /\ (running => c \notin Busy)
    BY <1>2, <2>3 DEF Busy
  <2>5. LoopInv'
    BY <1>1, <1>2, <2>1, <2>3, <2>4 DEF CameraInv, LoopInv
  <2>6. LoopGoesOn'
    BY <1>1, <1>2, <2>1, <2>4 DEF CameraInv, LoopGoesOn
  <2> QED
    BY <2>2, <2>3, <2>5, <2>6 DEF CameraInv
<1>3. CASE /\ cycle[c] = "capture" /\ cycle' = [cycle EXCEPT ![c] = "free"] /\ timer' = TRUE
  <2>1. c \in Busy
    BY <1>3 DEF Busy
  <2> QED
    BY <1>1, <1>3, <2>1, EndedKeeps
<1>4. CASE /\ cycle[c] = "capture" /\ cycle' = [cycle EXCEPT ![c] = "detect"]
           /\ phase' = "detecting" /\ inFlight' = c /\ UNCHANGED timer
  <2>1. c \in Busy
    BY <1>4 DEF Busy
  <2> QED
    BY <1>1, <1>4, <2>1, AdvancedKeeps
<1> QED
  BY <1>2, <1>3, <1>4 DEF Captured

LEMMA CameraStep ==
  ASSUME CameraInv, CameraNext PROVE CameraInv'
<1>1. ASSUME NEW c \in Cycles, Detected(c) PROVE CameraInv'
  <2>1. c \in Busy
    BY <1>1 DEF Detected, Busy
  <2> QED
    BY <1>1, <2>1, AdvancedKeeps DEF Detected
<1>2. ASSUME NEW c \in Cycles, CycleEnds(c) PROVE CameraInv'
  <2>1. c \in Busy
    BY <1>2 DEF CycleEnds, Busy
  <2> QED
    BY <1>2, <2>1, EndedKeeps DEF CycleEnds
<1> QED
  BY <1>1, <1>2, StartKeeps, StopKeeps, ChangeKeeps, TabKeeps, GrantedKeeps, OpenedKeeps,
     NotOpenedKeeps, TimerKeeps, CapturedKeeps DEF CameraNext

LEMMA CameraStart ==
  ASSUME CameraInit PROVE CameraInv
BY DEF CameraInit, CameraInv, OpeningInv, StreamInv, LoopInv, LoopGoesOn, Busy, Opening, NotOpening

LEMMA CameraPromises ==
  ASSUME CameraInv PROVE LoopIsSequential /\ LoopGoesOn /\ OnlyCrossedOpeningsLeak
<1>1. ASSUME ~crossed, ~rewoken PROVE Cardinality(Busy) <= 1
  <2>1. CASE Busy = {}
    BY <2>1, FS_EmptySet
  <2>2. ASSUME NEW c \in Busy PROVE Cardinality(Busy) <= 1
    <3>1. Busy = {c}
      BY <1>1, <2>2 DEF CameraInv, LoopInv
    <3> QED
      BY <3>1, FS_Singleton
  <2> QED
    BY <2>1, <2>2
<1>2. LoopIsSequential
  BY <1>1 DEF LoopIsSequential, CameraInv, LoopInv
<1> QED
  BY <1>2 DEF CameraInv, StreamInv, OnlyCrossedOpeningsLeak

\* The types of the screen, step by step.
CycleStates == {"free", "capture", "stale", "detect", "search"}
OpeningStates == [by : {"nobody", "start", "change"}, at : {"none", "asking", "playing"}]

LEMMA CameraFlags ==
  CameraTypeOK <=>
    /\ mounted \in BOOLEAN /\ hidden \in BOOLEAN /\ running \in BOOLEAN /\ starting \in BOOLEAN
    /\ timer \in BOOLEAN /\ crossed \in BOOLEAN /\ rewoken \in BOOLEAN
    /\ phase \in Phases
    /\ opening \in [Openings -> OpeningStates]
    /\ stream \in Streams \cup {NoStream} /\ live \subseteq Streams
    /\ cycle \in [Cycles -> CycleStates]
    /\ inFlight \in Cycles \cup {NoCycle}
    /\ inFlight # NoCycle => cycle[inFlight] \in {"detect", "search"}
BY DEF CameraTypeOK, CycleStates, OpeningStates

LEMMA CancelTypes ==
  ASSUME CameraTypeOK, CancelCycle
  PROVE  /\ timer' = FALSE /\ inFlight' = NoCycle
         /\ cycle' \in [Cycles -> CycleStates]
BY CameraFlags DEF CancelCycle, CycleStates

LEMMA StopTypes ==
  ASSUME CameraTypeOK, StopAll, UNCHANGED <<mounted, hidden, rewoken>>,
         starting' \in BOOLEAN, crossed' \in BOOLEAN, opening' \in [Openings -> OpeningStates]
  PROVE  CameraTypeOK'
<1>1. running' = FALSE /\ stream' = NoStream /\ live' = live \ {stream} /\ phase' = "idle"
  BY DEF StopAll, ReleaseStream
<1>2. timer' = FALSE /\ inFlight' = NoCycle /\ cycle' \in [Cycles -> CycleStates]
  BY CancelTypes DEF StopAll
<1>3. live' \subseteq Streams /\ mounted' \in BOOLEAN /\ hidden' \in BOOLEAN /\ rewoken' \in BOOLEAN
  BY <1>1, CameraFlags
<1> QED
  BY <1>1, <1>2, <1>3 DEF CameraTypeOK, Phases, CycleStates, OpeningStates, Streams

LEMMA CameraTypesStep ==
  ASSUME CameraTypeOK, CameraNext PROVE CameraTypeOK'
<1>0. /\ mounted \in BOOLEAN /\ hidden \in BOOLEAN /\ running \in BOOLEAN /\ starting \in BOOLEAN
      /\ timer \in BOOLEAN /\ crossed \in BOOLEAN /\ rewoken \in BOOLEAN
      /\ phase \in Phases
      /\ opening \in [Openings -> OpeningStates]
      /\ stream \in Streams \cup {NoStream} /\ live \subseteq Streams
      /\ cycle \in [Cycles -> CycleStates]
      /\ inFlight \in Cycles \cup {NoCycle}
      /\ inFlight # NoCycle => cycle[inFlight] \in {"detect", "search"}
  BY CameraFlags
<1> DEFINE Typed == /\ mounted' \in BOOLEAN /\ hidden' \in BOOLEAN /\ running' \in BOOLEAN
                    /\ starting' \in BOOLEAN /\ timer' \in BOOLEAN /\ crossed' \in BOOLEAN
                    /\ rewoken' \in BOOLEAN /\ phase' \in Phases
                    /\ opening' \in [Openings -> OpeningStates]
                    /\ stream' \in Streams \cup {NoStream} /\ live' \subseteq Streams
                    /\ cycle' \in [Cycles -> CycleStates]
                    /\ inFlight' \in Cycles \cup {NoCycle}
                    /\ inFlight' # NoCycle => cycle'[inFlight'] \in {"detect", "search"}
<1>typed. Typed => CameraTypeOK'
  BY DEF CameraTypeOK, CycleStates, OpeningStates, Streams, NoStream, Phases
<1>cross. Cross => crossed' \in BOOLEAN
  BY <1>0 DEF Cross
<1>a. ASSUME NEW o \in Openings, Start(o) PROVE CameraTypeOK'
  <2>1. /\ starting' = TRUE /\ Cross /\ UNCHANGED <<mounted, hidden, running, stream, live, rewoken>>
        /\ UNCHANGED <<phase, timer, cycle, inFlight>>
        /\ opening' = [opening EXCEPT ![o] = [by |-> "start", at |-> "asking"]]
    BY <1>a DEF Start, loop
  <2>2. opening' \in [Openings -> OpeningStates]
    BY <1>0, <2>1 DEF OpeningStates
  <2> QED
    BY <1>0, <1>typed, <1>cross, <2>1, <2>2
<1>b. ASSUME Stop \/ Leave PROVE CameraTypeOK'
  <2>1. StopAll /\ Cross /\ UNCHANGED <<hidden, starting, opening, rewoken>>
        /\ mounted' \in BOOLEAN
    BY <1>0, <1>b DEF Stop, Leave
  <2>2. CASE mounted' = mounted
    BY <1>0, <1>cross, <2>1, <2>2, StopTypes
  <2>3. CASE mounted' = FALSE
    <3>1. running' = FALSE /\ stream' = NoStream /\ live' = live \ {stream} /\ phase' = "idle"
      BY <2>1 DEF StopAll, ReleaseStream
    <3>2. timer' = FALSE /\ inFlight' = NoCycle /\ cycle' \in [Cycles -> CycleStates]
      BY <2>1, CancelTypes DEF StopAll
    <3> QED
      BY <1>0, <1>typed, <1>cross, <2>1, <3>1, <3>2 DEF Phases
  <2> QED
    BY <1>b, <2>2, <2>3 DEF Stop, Leave
<1>c. ASSUME NEW o \in Openings, OnDeviceChange(o) PROVE CameraTypeOK'
  <2>1. /\ CancelCycle /\ stream' = NoStream /\ live' = live \ {stream} /\ Cross
        /\ opening' = [opening EXCEPT ![o] = [by |-> "change", at |-> "asking"]]
        /\ UNCHANGED <<mounted, hidden, running, starting, phase, rewoken>>
    BY <1>c DEF OnDeviceChange, ReleaseStream
  <2>2. opening' \in [Openings -> OpeningStates]
    BY <1>0, <2>1 DEF OpeningStates
  <2>3. timer' = FALSE /\ inFlight' = NoCycle /\ cycle' \in [Cycles -> CycleStates]
    BY <2>1, CancelTypes
  <2> QED
    BY <1>0, <1>typed, <1>cross, <2>1, <2>2, <2>3
<1>d. ASSUME Hide \/ Show PROVE CameraTypeOK'
  <2>1. /\ UNCHANGED <<mounted, running, starting, opening, stream, live, phase, cycle, inFlight, crossed>>
        /\ hidden' \in BOOLEAN
    BY <1>d DEF Hide, Show, camera, loop
  <2>2. timer' \in BOOLEAN /\ rewoken' \in BOOLEAN
    <3>1. CASE UNCHANGED <<timer, rewoken>>
      BY <1>0, <3>1
    <3>2. CASE timer' = TRUE /\ rewoken' = (rewoken \/ Opening \/ \E c \in Cycles : cycle[c] = "capture")
      BY <3>2
    <3> QED
      BY <1>d, <3>1, <3>2 DEF Hide, Show, loop
  <2> QED
    BY <1>0, <1>typed, <2>1, <2>2
<1>e. ASSUME NEW o \in Openings, Granted(o) PROVE CameraTypeOK'
  <2>1. PICK s \in Streams : stream' = s /\ live' = live \cup {s}
    BY <1>e DEF Granted
  <2>2. /\ opening' = [opening EXCEPT ![o].at = "playing"]
        /\ UNCHANGED <<mounted, hidden, running, starting, phase, timer, cycle, inFlight, crossed, rewoken>>
    BY <1>e DEF Granted, loop
  <2>3. opening' \in [Openings -> OpeningStates]
    BY <1>0, <2>2 DEF OpeningStates
  <2> QED
    BY <1>0, <1>typed, <2>1, <2>2, <2>3
<1>f. ASSUME NEW o \in Openings, Opened(o) PROVE CameraTypeOK'
  <2>1. /\ opening' = [opening EXCEPT ![o] = NotOpening] /\ timer' = TRUE
        /\ UNCHANGED <<mounted, hidden, stream, live, phase, cycle, inFlight, crossed, rewoken>>
        /\ running' \in {TRUE, running} /\ starting' \in {FALSE, starting}
    BY <1>f DEF Opened
  <2>2. opening' \in [Openings -> OpeningStates]
    BY <1>0, <2>1 DEF OpeningStates, NotOpening
  <2> QED
    BY <1>0, <1>typed, <2>1, <2>2
<1>g. ASSUME NEW o \in Openings, NotOpened(o) PROVE CameraTypeOK'
  <2>1. /\ opening' = [opening EXCEPT ![o] = NotOpening] /\ UNCHANGED <<mounted, hidden, crossed, rewoken>>
    BY <1>g DEF NotOpened
  <2>2. opening' \in [Openings -> OpeningStates]
    BY <1>0, <2>1 DEF OpeningStates, NotOpening
  <2>3. CASE StopAll /\ UNCHANGED starting
    BY <1>0, <2>1, <2>2, <2>3, StopTypes
  <2>4. CASE ReleaseStream /\ starting' = FALSE /\ UNCHANGED <<running, loop>>
    BY <1>0, <1>typed, <2>1, <2>2, <2>4 DEF ReleaseStream, loop
  <2> QED
    BY <1>g, <2>3, <2>4 DEF NotOpened
<1>h. ASSUME TimerFires PROVE CameraTypeOK'
  <2>1. /\ timer' = FALSE
        /\ UNCHANGED <<mounted, hidden, running, starting, opening, stream, live, inFlight, crossed, rewoken>>
        /\ phase' \in {phase, "hidden"}
        /\ \/ cycle' = cycle
           \/ \E c \in Cycles : cycle[c] = "free" /\ cycle' = [cycle EXCEPT ![c] = "capture"]
    BY <1>h DEF TimerFires, camera
  <2>2. /\ cycle' \in [Cycles -> CycleStates]
        /\ inFlight # NoCycle => cycle'[inFlight] \in {"detect", "search"}
    BY <1>0, <2>1 DEF CycleStates
  <2> QED
    BY <1>0, <1>typed, <2>1, <2>2 DEF Phases
<1>i. ASSUME NEW c \in Cycles, Captured(c) PROVE CameraTypeOK'
  <2>1. UNCHANGED <<mounted, hidden, running, starting, opening, stream, live, crossed, rewoken>>
    BY <1>i DEF Captured, camera
  <2>2. CASE /\ cycle[c] \in {"stale", "capture"} /\ cycle' = [cycle EXCEPT ![c] = "free"]
             /\ timer' \in {TRUE, timer} /\ UNCHANGED <<phase, inFlight>>
    <3>1. /\ cycle' \in [Cycles -> CycleStates]
          /\ inFlight # NoCycle => cycle'[inFlight] \in {"detect", "search"}
      BY <1>0, <2>2 DEF CycleStates
    <3> QED
      BY <1>0, <1>typed, <2>1, <2>2, <3>1
  <2>3. CASE /\ cycle' = [cycle EXCEPT ![c] = "detect"] /\ phase' = "detecting" /\ inFlight' = c
             /\ UNCHANGED timer
    <3>1. cycle' \in [Cycles -> CycleStates] /\ cycle'[c] = "detect"
      BY <1>0, <2>3 DEF CycleStates
    <3> QED
      BY <1>0, <1>typed, <2>1, <2>3, <3>1 DEF Phases
  <2> QED
    BY <1>i, <2>2, <2>3 DEF Captured
<1>j. ASSUME NEW c \in Cycles, Detected(c) PROVE CameraTypeOK'
  <2>1. /\ UNCHANGED <<timer, mounted, hidden, running, starting, opening, stream, live, crossed, rewoken>>
        /\ cycle' = [cycle EXCEPT ![c] = "search"] /\ phase' = "searching" /\ inFlight' = c
    BY <1>j DEF Detected, camera
  <2>2. cycle' \in [Cycles -> CycleStates] /\ cycle'[c] = "search"
    BY <1>0, <2>1 DEF CycleStates
  <2> QED
    BY <1>0, <1>typed, <2>1, <2>2 DEF Phases
<1>k. ASSUME NEW c \in Cycles, CycleEnds(c) PROVE CameraTypeOK'
  <2>1. /\ UNCHANGED <<mounted, hidden, running, starting, opening, stream, live, crossed, rewoken>>
        /\ cycle' = [cycle EXCEPT ![c] = "free"] /\ phase' \in {"waiting", "throttled"}
        /\ inFlight' = NoCycle /\ timer' = TRUE
    BY <1>k DEF CycleEnds, camera
  <2>2. cycle' \in [Cycles -> CycleStates]
    BY <1>0, <2>1 DEF CycleStates
  <2> QED
    BY <1>0, <1>typed, <2>1, <2>2 DEF Phases
<1> QED
  BY <1>a, <1>b, <1>c, <1>d, <1>e, <1>f, <1>g, <1>h, <1>i, <1>j, <1>k DEF CameraNext

LEMMA CameraTypesStart ==
  ASSUME CameraInit PROVE CameraTypeOK
BY DEF CameraInit, CameraTypeOK, Phases, NotOpening

LEMMA CameraTypesStutter == ASSUME CameraTypeOK, UNCHANGED cameraVars PROVE CameraTypeOK'
BY DEF cameraVars, camera, loop, CameraTypeOK

-----------------------------------------------------------------------------
(* The search by a photo.                                                  *)

\* When no choice was made over a pending call, there is one call at most and
\* it is about what is chosen.
AskedInv ==
  /\ \A c, d \in Calls : call[c] # Idle /\ call[d] # Idle => c = d
  /\ \A c \in Calls :
       /\ call[c].kind = "detect" => call[c].photo = selectedFile /\ results = NoResults /\ detecting
       /\ call[c].kind = "search" => call[c].photo = selectedFile /\ call[c].face = selectedFace
  /\ queryFaces \in {Nothing, selectedFile}
  /\ results \in {NoResults, Shown}

CallType(question) ==
  /\ question.kind \in {"none", "detect", "search"}
  /\ question.kind = "none" <=> question = Idle

\* A single search is pending, whatever is chosen meanwhile.
QueryInv ==
  /\ call = [c \in Calls |-> call[c]]
  /\ \A c \in Calls : CallType(call[c])
  /\ detecting \in BOOLEAN /\ loading \in BOOLEAN
  /\ detecting => Pending("detect") # {}
  /\ loading <=> Pending("search") # {}
  /\ \A c, d \in Pending("search") : c = d
  /\ ~overtaken => AskedInv

\* What a step does to the pending calls.
LEMMA CallMade ==
  ASSUME QueryInv, NEW c \in Calls, NEW kind \in {"detect", "search"}, NEW photo, NEW face,
         call[c] = Idle, call' = [call EXCEPT ![c] = Question(kind, photo, face)]
  PROVE  /\ call' = [d \in Calls |-> call'[d]]
         /\ call'[c] = [kind |-> kind, photo |-> photo, face |-> face]
         /\ \A d \in Calls : d # c => call'[d] = call[d]
         /\ \A d \in Calls : CallType(call'[d])
         /\ \A k \in {"detect", "search"} :
              Pending(k)' = IF k = kind THEN Pending(k) \cup {c} ELSE Pending(k)
<1>1. /\ call' = [d \in Calls |-> call'[d]]
      /\ call'[c] = [kind |-> kind, photo |-> photo, face |-> face]
      /\ \A d \in Calls : d # c => call'[d] = call[d]
  BY DEF QueryInv, Question
<1>2. \A d \in Calls : CallType(call'[d])
  BY <1>1 DEF QueryInv, CallType, Idle, Question
<1>3. \A k \in {"detect", "search"} :
        Pending(k)' = IF k = kind THEN Pending(k) \cup {c} ELSE Pending(k)
  BY <1>1 DEF Pending, Idle, Question
<1> QED
  BY <1>1, <1>2, <1>3

LEMMA CallEnded ==
  ASSUME QueryInv, NEW c \in Calls, call' = [call EXCEPT ![c] = Idle]
  PROVE  /\ call' = [d \in Calls |-> call'[d]]
         /\ call'[c] = Idle
         /\ \A d \in Calls : d # c => call'[d] = call[d]
         /\ \A d \in Calls : CallType(call'[d])
         /\ \A k \in {"detect", "search"} : Pending(k)' = Pending(k) \ {c}
<1>1. /\ call' = [d \in Calls |-> call'[d]]
      /\ call'[c] = Idle
      /\ \A d \in Calls : d # c => call'[d] = call[d]
  BY DEF QueryInv
<1>2. \A d \in Calls : CallType(call'[d])
  BY <1>1 DEF QueryInv, CallType, Idle, Question
<1>3. \A k \in {"detect", "search"} : Pending(k)' = Pending(k) \ {c}
  BY <1>1 DEF Pending, Idle, Question
<1> QED
  BY <1>1, <1>2, <1>3

\* A screen at rest waits for nothing.
LEMMA AtRest ==
  ASSUME QueryInv, ~Waiting
  PROVE  /\ \A c \in Calls : call[c] = Idle /\ call[c].kind = "none"
         /\ Pending("detect") = {} /\ Pending("search") = {}
BY DEF Waiting, QueryInv, CallType, Pending

LEMMA ChooseNoFileKeeps ==
  ASSUME QueryInv, ChooseNoFile PROVE QueryInv'
<1>1. /\ selectedFile' = Nothing /\ queryFaces' = Nothing /\ results' = NoResults
      /\ overtaken' = Waiting /\ UNCHANGED <<detecting, loading, call>>
  BY DEF ChooseNoFile, Afresh
<1>2. Pending("detect")' = Pending("detect") /\ Pending("search")' = Pending("search")
  BY <1>1 DEF Pending
<1>3. ~overtaken' => AskedInv'
  BY <1>1, AtRest DEF AskedInv
<1> QED
  BY <1>1, <1>2, <1>3 DEF QueryInv

LEMMA ChooseFileKeeps ==
  ASSUME QueryInv, NEW c \in Calls, NEW p \in Photos, ChooseFile(c, p) PROVE QueryInv'
<1>1. /\ selectedFile' = p /\ queryFaces' = Nothing /\ results' = NoResults
      /\ call[c] = Idle /\ call' = [call EXCEPT ![c] = Question("detect", p, 0)]
      /\ detecting' = TRUE /\ overtaken' = Waiting /\ UNCHANGED loading
  BY DEF ChooseFile, Afresh
<1>2. /\ call' = [d \in Calls |-> call'[d]]
      /\ call'[c] = [kind |-> "detect", photo |-> p, face |-> 0]
      /\ \A d \in Calls : d # c => call'[d] = call[d]
      /\ \A d \in Calls : CallType(call'[d])
      /\ Pending("detect")' = Pending("detect") \cup {c}
      /\ Pending("search")' = Pending("search")
  BY <1>1, CallMade
<1>3. ~overtaken' => AskedInv'
  <2> SUFFICES ASSUME ~Waiting PROVE AskedInv'
    BY <1>1
  <2>1. \A d \in Calls : d # c => call'[d] = Idle /\ call'[d].kind = "none"
    BY <1>2, AtRest
  <2> QED
    BY <1>1, <1>2, <2>1 DEF AskedInv
<1> QED
  BY <1>1, <1>2, <1>3 DEF QueryInv

LEMMA SelectFaceKeeps ==
  ASSUME QueryInv, NEW f, SelectFace(f) PROVE QueryInv'
<1>1. /\ results' = NoResults /\ overtaken' = (overtaken \/ Waiting)
      /\ UNCHANGED <<selectedFile, queryFaces, detecting, loading, call>>
  BY DEF SelectFace, Overtake
<1>2. Pending("detect")' = Pending("detect") /\ Pending("search")' = Pending("search")
  BY <1>1 DEF Pending
<1>3. ~overtaken' => AskedInv'
  BY <1>1, AtRest DEF QueryInv, AskedInv
<1> QED
  BY <1>1, <1>2, <1>3 DEF QueryInv

LEMMA OnSubmitKeeps ==
  ASSUME QueryInv, NEW c \in Calls, OnSubmit(c) PROVE QueryInv'
<1>1. /\ ~detecting /\ ~loading /\ loading' = TRUE
      /\ call[c] = Idle /\ call' = [call EXCEPT ![c] = Question("search", selectedFile, selectedFace)]
      /\ UNCHANGED <<selectedFile, queryFaces, selectedFace, results, detecting, overtaken>>
  BY DEF OnSubmit, CanSearch
<1>2. /\ call' = [d \in Calls |-> call'[d]]
      /\ call'[c] = [kind |-> "search", photo |-> selectedFile, face |-> selectedFace]
      /\ \A d \in Calls : d # c => call'[d] = call[d]
      /\ \A d \in Calls : CallType(call'[d])
      /\ Pending("detect")' = Pending("detect")
      /\ Pending("search")' = Pending("search") \cup {c}
  BY <1>1, CallMade
<1>3. Pending("search") = {}
  BY <1>1 DEF QueryInv
<1>4. ~overtaken' => AskedInv'
  <2> SUFFICES ASSUME ~overtaken PROVE AskedInv'
    BY <1>1
  <2>1. \A d \in Calls : call[d].kind \notin {"detect", "search"}
    BY <1>1, <1>3 DEF QueryInv, AskedInv, Pending
  <2>2. \A d \in Calls : call[d].kind \in {"none", "detect", "search"}
    BY DEF QueryInv, CallType
  <2>3. \A d \in Calls : d # c => call'[d] = Idle /\ call'[d].kind = "none"
    BY <1>2, <2>1, <2>2 DEF QueryInv, CallType
  <2> QED
    BY <1>1, <1>2, <2>3 DEF QueryInv, AskedInv, Shown
<1> QED
  BY <1>1, <1>2, <1>3, <1>4 DEF QueryInv

\* Faces, or none.
LEMMA DetectionKeeps ==
  ASSUME QueryInv, NEW c \in Calls, call[c].kind = "detect", detecting' = FALSE,
         call' = [call EXCEPT ![c] = Idle],
         queryFaces' \in {queryFaces, call[c].photo},
         UNCHANGED <<selectedFile, results, loading, overtaken>>
  PROVE  QueryInv'
<1>1. /\ call' = [d \in Calls |-> call'[d]]
      /\ call'[c] = Idle
      /\ \A d \in Calls : d # c => call'[d] = call[d]
      /\ \A d \in Calls : CallType(call'[d])
      /\ Pending("search")' = Pending("search") \ {c}
  BY CallEnded
<1>2. Pending("search")' = Pending("search")
  BY <1>1 DEF Pending
<1>3. ~overtaken' => AskedInv'
  <2> SUFFICES ASSUME ~overtaken PROVE AskedInv'
    OBVIOUS
  <2>1. \A d \in Calls : call'[d] = Idle
    BY <1>1 DEF QueryInv, CallType, AskedInv, Idle, Question
  <2>2. \A d \in Calls : call'[d].kind = "none"
    BY <2>1 DEF Idle, Question
  <2>3. results = NoResults /\ call[c].photo = selectedFile /\ queryFaces \in {Nothing, selectedFile}
    BY DEF QueryInv, AskedInv
  <2> QED
    BY <2>1, <2>2, <2>3 DEF AskedInv, NoResults
<1> QED
  BY <1>1, <1>2, <1>3 DEF QueryInv

LEMMA SearchEndsKeeps ==
  ASSUME QueryInv, NEW c \in Calls, SearchEnds(c) PROVE QueryInv'
<1>1. /\ call[c].kind = "search" /\ loading' = FALSE /\ call' = [call EXCEPT ![c] = Idle]
      /\ results' \in {results, [photo |-> call[c].photo, face |-> call[c].face]}
      /\ UNCHANGED <<selectedFile, queryFaces, selectedFace, detecting, overtaken>>
  BY DEF SearchEnds
<1>2. /\ call' = [d \in Calls |-> call'[d]]
      /\ call'[c] = Idle
      /\ \A d \in Calls : d # c => call'[d] = call[d]
      /\ \A d \in Calls : CallType(call'[d])
      /\ Pending("detect")' = Pending("detect") \ {c}
      /\ Pending("search")' = Pending("search") \ {c}
  BY <1>1, CallEnded
<1>3. c \notin Pending("detect") /\ c \in Pending("search")
  BY <1>1 DEF Pending
<1>4. Pending("search")' = {} /\ Pending("detect")' = Pending("detect")
  BY <1>2, <1>3 DEF QueryInv
<1>5. ~overtaken' => AskedInv'
  <2> SUFFICES ASSUME ~overtaken PROVE AskedInv'
    BY <1>1
  <2>1. \A d \in Calls : call'[d] = Idle
    BY <1>1, <1>2 DEF QueryInv, CallType, AskedInv, Idle, Question
  <2>2. \A d \in Calls : call'[d].kind = "none"
    BY <2>1 DEF Idle, Question
  <2>3. results' \in {NoResults, Shown}
    BY <1>1 DEF QueryInv, AskedInv, Shown
  <2>4. Shown' = Shown
    BY <1>1 DEF Shown
  <2> QED
    BY <1>1, <2>1, <2>2, <2>3, <2>4 DEF QueryInv, AskedInv, NoResults
<1> QED
  BY <1>1, <1>2, <1>3, <1>4, <1>5 DEF QueryInv

LEMMA QueryStep ==
  ASSUME QueryInv, QueryNext PROVE QueryInv'
<1>1. ASSUME NEW c \in Calls, FacesArrive(c) PROVE QueryInv'
  BY <1>1, DetectionKeeps DEF FacesArrive
<1>2. ASSUME NEW c \in Calls, FacesFail(c) PROVE QueryInv'
  BY <1>2, DetectionKeeps DEF FacesFail
<1> QED
  BY <1>1, <1>2, ChooseNoFileKeeps, ChooseFileKeeps, SelectFaceKeeps, OnSubmitKeeps, SearchEndsKeeps
  DEF QueryNext

LEMMA QueryStart ==
  ASSUME QueryInit PROVE QueryInv
BY DEF QueryInit, QueryInv, CallType, AskedInv, Pending, Idle, Question

LEMMA QueryPromises ==
  ASSUME QueryInv PROVE ShownBelongs
<1> SUFFICES ASSUME ~overtaken PROVE ShownBelongs
  BY DEF ShownBelongs
<1>1. detecting <=> Pending("detect") # {}
  BY DEF QueryInv, AskedInv, Pending
<1> QED
  BY <1>1 DEF QueryInv, AskedInv, ShownBelongs

\* A detection is about a photo, so that what it frames is one.
QueryTypes ==
  /\ QueryTypeOK
  /\ \A c \in Calls : call[c].kind = "detect" => call[c].photo \in Photos

CallTypes == [kind : {"none", "detect", "search"}, photo : Photos \cup {Nothing}, face : FaceIndexes]

LEMMA QueryTypesStart ==
  ASSUME QueryInit PROVE QueryTypes
<1>1. 0 \in FaceIndexes
  BY DEF FaceIndexes
<1>2. Idle \in CallTypes /\ NoResults \in [photo : Photos \cup {Nothing}, face : FaceIndexes]
  BY <1>1 DEF Idle, Question, NoResults, CallTypes
<1>3. \A c \in Calls : call[c].kind = "none"
  BY DEF QueryInit, Idle, Question
<1>4. call \in [Calls -> CallTypes]
  BY <1>2 DEF QueryInit
<1> QED
  BY <1>1, <1>2, <1>3, <1>4 DEF QueryInit, QueryTypes, QueryTypeOK, CallTypes

LEMMA QueryTypesStep ==
  ASSUME QueryTypes, QueryNext PROVE QueryTypes'
<1>0. /\ selectedFile \in Photos \cup {Nothing} /\ queryFaces \in Photos \cup {Nothing}
      /\ selectedFace \in FaceIndexes
      /\ results \in [photo : Photos \cup {Nothing}, face : FaceIndexes]
      /\ detecting \in BOOLEAN /\ loading \in BOOLEAN /\ detectError \in BOOLEAN /\ overtaken \in BOOLEAN
      /\ call \in [Calls -> CallTypes]
      /\ \A c \in Calls : call[c].kind = "detect" => call[c].photo \in Photos
  BY DEF QueryTypes, QueryTypeOK, CallTypes
<1>1. 0 \in FaceIndexes /\ \A p \in Photos : \A f \in 1..FacesIn[p] : f \in FaceIndexes
  BY DEF FaceIndexes
<1>2. /\ NoResults \in [photo : Photos \cup {Nothing}, face : FaceIndexes]
      /\ Idle \in CallTypes /\ Idle.kind = "none"
  BY <1>1 DEF NoResults, Idle, Question, CallTypes
<1> DEFINE Typed == /\ selectedFile' \in Photos \cup {Nothing} /\ queryFaces' \in Photos \cup {Nothing}
                    /\ selectedFace' \in FaceIndexes
                    /\ results' \in [photo : Photos \cup {Nothing}, face : FaceIndexes]
                    /\ detecting' \in BOOLEAN /\ loading' \in BOOLEAN /\ detectError' \in BOOLEAN
                    /\ overtaken' \in BOOLEAN
                    /\ call' \in [Calls -> CallTypes]
                    /\ \A c \in Calls : call'[c].kind = "detect" => call'[c].photo \in Photos
<1>typed. ASSUME Typed PROVE QueryTypes'
  <2>1. {detecting', loading', detectError', overtaken'} \subseteq BOOLEAN
    BY <1>typed, Zenon
  <2>2. call' \in [Calls -> [kind : {"none", "detect", "search"}, photo : Photos \cup {Nothing},
                             face : FaceIndexes]]
    BY <1>typed DEF CallTypes
  <2>3. FaceIndexes' = FaceIndexes
    BY DEF FaceIndexes
  <2>4. QueryTypeOK'
    BY <1>typed, <2>1, <2>2, <2>3 DEF QueryTypeOK
  <2> QED
    BY <1>typed, <2>4 DEF QueryTypes
<1>over. (Afresh \/ Overtake) => overtaken' \in BOOLEAN
  BY <1>0 DEF Afresh, Overtake, Waiting
<1>made. ASSUME NEW c \in Calls, NEW question \in CallTypes, call' = [call EXCEPT ![c] = question],
                question.kind = "detect" => question.photo \in Photos
         PROVE  /\ call' \in [Calls -> CallTypes]
                /\ \A d \in Calls : call'[d].kind = "detect" => call'[d].photo \in Photos
  BY <1>0, <1>made
<1>a. ASSUME ChooseNoFile PROVE QueryTypes'
  BY <1>0, <1>1, <1>2, <1>typed, <1>over, <1>a DEF ChooseNoFile
<1>b. ASSUME NEW c \in Calls, NEW p \in Photos, ChooseFile(c, p) PROVE QueryTypes'
  <2>1. Question("detect", p, 0) \in CallTypes /\ Question("detect", p, 0).photo = p
    BY <1>1 DEF Question, CallTypes
  <2>2. /\ selectedFile' = p /\ queryFaces' = Nothing /\ selectedFace' = 0 /\ results' = NoResults
        /\ detectError' = FALSE /\ detecting' = TRUE /\ Afresh /\ loading' = loading
        /\ call' = [call EXCEPT ![c] = Question("detect", p, 0)]
    BY <1>b DEF ChooseFile
  <2>3. /\ call' \in [Calls -> CallTypes]
        /\ \A d \in Calls : call'[d].kind = "detect" => call'[d].photo \in Photos
    BY <1>made, <2>1, <2>2
  <2> QED
    BY <1>0, <1>1, <1>2, <1>typed, <1>over, <2>2, <2>3
<1>c. ASSUME NEW f \in FaceIndexes, SelectFace(f) PROVE QueryTypes'
  BY <1>0, <1>2, <1>typed, <1>over, <1>c DEF SelectFace
<1>d. ASSUME NEW c \in Calls, OnSubmit(c) PROVE QueryTypes'
  <2>1. Question("search", selectedFile, selectedFace) \in CallTypes
        /\ Question("search", selectedFile, selectedFace).kind = "search"
    BY <1>0 DEF Question, CallTypes
  <2>2. /\ loading' = TRUE
        /\ call' = [call EXCEPT ![c] = Question("search", selectedFile, selectedFace)]
        /\ UNCHANGED <<selectedFile, queryFaces, selectedFace, results, detecting, detectError, overtaken>>
    BY <1>d DEF OnSubmit
  <2>3. /\ call' \in [Calls -> CallTypes]
        /\ \A d \in Calls : call'[d].kind = "detect" => call'[d].photo \in Photos
    BY <1>made, <2>1, <2>2
  <2> QED
    BY <1>0, <1>typed, <2>2, <2>3
<1>e. ASSUME NEW c \in Calls, FacesArrive(c) PROVE QueryTypes'
  <2>1. call[c].photo \in Photos /\ queryFaces' = call[c].photo
    BY <1>0, <1>e DEF FacesArrive
  <2>2. selectedFace' \in FaceIndexes
    <3>1. FacesIn[call[c].photo] = 1 => 1 \in 1..FacesIn[call[c].photo]
      OBVIOUS
    <3> QED
      BY <1>1, <1>e, <2>1, <3>1 DEF FacesArrive
  <2>3. /\ detecting' = FALSE /\ call' = [call EXCEPT ![c] = Idle]
        /\ UNCHANGED <<selectedFile, results, loading, detectError, overtaken>>
    BY <1>e DEF FacesArrive
  <2>4. /\ call' \in [Calls -> CallTypes]
        /\ \A d \in Calls : call'[d].kind = "detect" => call'[d].photo \in Photos
    BY <1>2, <1>made, <2>3
  <2> QED
    BY <1>0, <1>typed, <2>1, <2>2, <2>3, <2>4
<1>f. ASSUME NEW c \in Calls, FacesFail(c) \/ SearchEnds(c) PROVE QueryTypes'
  <2>1. /\ call' = [call EXCEPT ![c] = Idle]
        /\ UNCHANGED <<selectedFile, queryFaces, selectedFace, overtaken>>
        /\ detectError' \in {TRUE, detectError} /\ detecting' \in {FALSE, detecting}
        /\ loading' \in {FALSE, loading}
        /\ results' \in {results, [photo |-> call[c].photo, face |-> call[c].face]}
    BY <1>f DEF FacesFail, SearchEnds
  <2>2. [photo |-> call[c].photo, face |-> call[c].face] \in [photo : Photos \cup {Nothing}, face : FaceIndexes]
    BY <1>0 DEF CallTypes
  <2>3. /\ call' \in [Calls -> CallTypes]
        /\ \A d \in Calls : call'[d].kind = "detect" => call'[d].photo \in Photos
    BY <1>2, <1>made, <2>1
  <2> QED
    BY <1>0, <1>typed, <2>1, <2>2, <2>3
<1> QED
  BY <1>a, <1>b, <1>c, <1>d, <1>e, <1>f DEF QueryNext

LEMMA QueryTypesStutter == ASSUME QueryTypes, UNCHANGED queryVars PROVE QueryTypes'
BY DEF queryVars, QueryTypes, QueryTypeOK

-----------------------------------------------------------------------------
(* The pages of events.                                                    *)
LoadType(l) ==
  /\ l.offset \in Nat /\ l.replaces \in BOOLEAN
  /\ l.answer.read \in BOOLEAN /\ l.answer.more \in BOOLEAN
  /\ l.answer.events \in Seq(Ranks)

\* The events of s are those of the order from the place after offset.
PartOfOrder(s, offset) ==
  /\ offset + Len(s) <= Len(InOrder(catalogue))
  /\ \A i \in 1..Len(s) : s[i] = InOrder(catalogue)[offset + i]

\* What is asked for starts where the list ends, or replaces it.
LoadFits(l) ==
  /\ l.offset = IF l.replaces THEN 0 ELSE Len(listed)
  /\ l.answer.read =>
       /\ PartOfOrder(l.answer.events, l.offset)
       /\ l.answer.more <=> l.offset + Len(l.answer.events) < Len(InOrder(catalogue))

\* While nothing is created, one page is asked for at a time.
PagesFit ==
  /\ \A l, m \in loads : l = m
  /\ \A l \in loads : LoadFits(l)
  /\ PartOfOrder(listed, 0)
  /\ listed # <<>> => (hasMore <=> Len(listed) < Len(InOrder(catalogue)))

PagesInv ==
  /\ PagesTypeOK
  /\ \A l \in loads : LoadType(l)
  /\ ~shifted => PagesFit

\* The order of the list, as a set of pairs.
Earlier == {p \in Nat \X Nat : p[1] < p[2]}

LEMMA EarlierIsAnOrder ==
  ASSUME NEW S, S \subseteq Nat
  PROVE  StrictTotalOrder(S, Earlier) /\ \A x, y \in S : <<x, y>> \in Earlier <=> x < y
<1>1. \A x, y \in S : <<x, y>> \in Earlier <=> x < y
  BY DEF Earlier
<1>2. \A x, y \in S : x \in Nat /\ y \in Nat
  OBVIOUS
<1> QED
  BY <1>1, <1>2 DEF StrictTotalOrder

\* InOrder lists a set, each element once, in the order of their ranks.
LEMMA InOrderSorts ==
  ASSUME NEW S, IsFiniteSet(S), S \subseteq Nat
  PROVE  /\ Cardinality(S) \in Nat
         /\ InOrder(S) \in Seq(S) /\ Len(InOrder(S)) = Cardinality(S)
         /\ \A e \in S : \E n \in 1..Len(InOrder(S)) : InOrder(S)[n] = e
         /\ \A m, n \in 1..Len(InOrder(S)) : m < n => InOrder(S)[m] < InOrder(S)[n]
<1> DEFINE N == Cardinality(S)
           At(n) == CHOOSE e \in S : Cardinality({d \in S : d < e}) = n - 1
<1>1. N \in Nat
  BY FS_CardinalityType
<1>2. StrictTotalOrder(S, Earlier) /\ \A x, y \in S : <<x, y>> \in Earlier <=> x < y
  BY EarlierIsAnOrder
<1>3. \A e \in S : Below(e, S, Earlier) = {d \in S : d < e}
  BY <1>2 DEF Below
<1>4. \A e \in S : /\ Place(e, S, Earlier) = 1 + Cardinality({d \in S : d < e})
                   /\ Cardinality({d \in S : d < e}) \in Nat
                   /\ Place(e, S, Earlier) \in 1..N
  BY <1>2, <1>3, BelowFinite DEF Place
<1> HIDE DEF At
<1>t. /\ \A n \in 1..N : \E e \in S : Place(e, S, Earlier) = n
      /\ \A d, e \in S : Place(d, S, Earlier) = Place(e, S, Earlier) => d = e
      /\ \A d, e \in S : Place(d, S, Earlier) < Place(e, S, Earlier) => <<d, e>> \in Earlier
  <2>1. StrictTotalOrder(S, Earlier)
    BY <1>2
  <2> QED
    BY <2>1, PlacesTaken
<1>5. ASSUME NEW n \in 1..N
      PROVE  At(n) \in S /\ Cardinality({d \in S : d < At(n)}) = n - 1
  <2>1. PICK e \in S : Place(e, S, Earlier) = n
    BY <1>t
  <2>2. Cardinality({d \in S : d < e}) = n - 1
    BY <1>4, <2>1
  <2> QED
    BY <2>2 DEF At
<1>6. ASSUME NEW n \in 1..N
      PROVE  Place(At(n), S, Earlier) = n
  <2>1. PICK e \in S : e = At(n) /\ Cardinality({d \in S : d < e}) = n - 1
    BY <1>5
  <2> QED
    BY <1>4, <2>1
<1>7. \A n \in 1..N : InOrder(S)[n] = At(n)
  BY DEF InOrder, At
<1>8. InOrder(S) \in [1..N -> S]
  BY <1>5 DEF InOrder, At
<1> HIDE DEF N
<1>9. InOrder(S) \in Seq(S) /\ Len(InOrder(S)) = N
  BY <1>1, <1>8
<1>10. ASSUME NEW e \in S PROVE \E n \in 1..N : InOrder(S)[n] = e
  <2>1. PICK n \in 1..N : n = Place(e, S, Earlier)
    BY <1>4
  <2>2. Place(At(n), S, Earlier) = n /\ At(n) \in S
    BY <1>5, <1>6
  <2> QED
    BY <1>t, <1>7, <2>1, <2>2
<1>11. ASSUME NEW m \in 1..N, NEW n \in 1..N, m < n PROVE InOrder(S)[m] < InOrder(S)[n]
  <2>1. At(m) \in S /\ At(n) \in S /\ Place(At(m), S, Earlier) < Place(At(n), S, Earlier)
    BY <1>5, <1>6, <1>11
  <2> QED
    BY <1>2, <1>t, <1>7, <2>1
<1> QED
  BY <1>1, <1>9, <1>10, <1>11 DEF N

\* The service's list.
LEMMA ServiceList ==
  ASSUME PagesTypeOK
  PROVE  /\ Len(InOrder(catalogue)) \in Nat /\ Len(InOrder(catalogue)) = Cardinality(catalogue)
         /\ InOrder(catalogue) \in Seq(Ranks)
<1>1. catalogue \subseteq Nat /\ IsFiniteSet(catalogue)
  BY PagesAssumption DEF PagesTypeOK
<1>2. InOrder(catalogue) \in Seq(catalogue) /\ Len(InOrder(catalogue)) = Cardinality(catalogue)
      /\ Cardinality(catalogue) \in Nat
  BY <1>1, InOrderSorts
<1>3. \A i \in 1..Len(InOrder(catalogue)) : InOrder(catalogue)[i] \in Ranks
  BY <1>2 DEF PagesTypeOK
<1> QED
  BY <1>2, <1>3

LEMMA PagesStart ==
  ASSUME PagesInit PROVE PagesInv
<1>1. /\ catalogue \subseteq Ranks /\ IsFiniteSet(catalogue) /\ listed = <<>> /\ hasMore = FALSE
      /\ loadingList = TRUE /\ loadingMore = FALSE /\ shifted = FALSE
      /\ loads = {[offset |-> 0, replaces |-> TRUE, answer |-> Unread]}
  BY DEF PagesInit
<1>2. /\ <<>> \in Seq(Ranks) /\ Len(<<>>) = 0
  OBVIOUS
<1>3. ASSUME NEW l \in loads PROVE LoadType(l)
  <2>1. l = [offset |-> 0, replaces |-> TRUE, answer |-> Unread]
    BY <1>1
  <2>2. l.answer = [read |-> FALSE, events |-> <<>>, more |-> FALSE] /\ l.offset = 0 /\ l.replaces = TRUE
    BY <2>1 DEF Unread
  <2>3. l.answer.read = FALSE /\ l.answer.more = FALSE /\ l.answer.events = <<>>
    BY <2>2
  <2>4. l.answer.events \in Seq(Ranks)
    BY <1>2, <2>3
  <2>5. l.answer.read \in BOOLEAN /\ l.answer.more \in BOOLEAN /\ l.replaces \in BOOLEAN
    BY <2>2, <2>3, Zenon
  <2>6. l.offset \in Nat
    BY <2>2
  <2> QED
    BY <2>4, <2>5, <2>6 DEF LoadType
<1>4. PagesTypeOK
  BY <1>1, <1>2, <1>3 DEF PagesTypeOK, LoadType
<1>5. PartOfOrder(listed, 0)
  BY <1>1, <1>2, <1>4, ServiceList DEF PartOfOrder
<1>6. PagesFit
  BY <1>1, <1>5 DEF PagesFit, LoadFits, Unread
<1> QED
  BY <1>3, <1>4, <1>6 DEF PagesInv

\* A page is asked for: the whole list, or what follows it.
LEMMA LoadKeeps ==
  ASSUME PagesInv, NEW offset \in Nat, NEW replaces \in BOOLEAN, Load(offset, replaces),
         offset = IF replaces THEN 0 ELSE Len(listed),
         loadingList' \in BOOLEAN, loadingMore' \in BOOLEAN
  PROVE  PagesInv'
<1> DEFINE new == [offset |-> offset, replaces |-> replaces, answer |-> Unread]
<1>1. /\ loads' = loads \cup {new} /\ shifted' = (shifted \/ loads # {})
      /\ UNCHANGED <<catalogue, listed, hasMore>>
  BY DEF Load
<1>2. <<>> \in Seq(Ranks)
  OBVIOUS
<1>3. /\ new.offset = offset /\ new.replaces = replaces
      /\ new.answer.read = FALSE /\ new.answer.more = FALSE /\ new.answer.events = <<>>
  BY DEF Unread
<1> HIDE DEF new
<1>4. \A l \in loads' : LoadType(l)
  BY <1>1, <1>2, <1>3 DEF PagesInv, LoadType
<1>5. PagesTypeOK'
  BY <1>1, <1>4 DEF PagesInv, PagesTypeOK, LoadType
<1>6. ASSUME ~shifted' PROVE PagesFit'
  <2>1. ~shifted /\ loads = {} /\ loads' = {new}
    BY <1>1, <1>6
  <2>2. LoadFits(new)'
    BY <1>1, <1>3 DEF LoadFits
  <2> QED
    BY <1>1, <2>1, <2>2 DEF PagesInv, PagesFit, PartOfOrder
<1> QED
  BY <1>4, <1>5, <1>6 DEF PagesInv, LoadType

\* What the service reads for a page follows the offset.
LEMMA ReadPage ==
  ASSUME NEW all \in Seq(Ranks), NEW offset \in Nat, offset <= Len(all),
         NEW last \in Nat, offset <= last, last <= Len(all)
  PROVE  /\ SubSeq(all, offset + 1, last) \in Seq(Ranks)
         /\ Len(SubSeq(all, offset + 1, last)) = last - offset
         /\ \A i \in 1..(last - offset) : SubSeq(all, offset + 1, last)[i] = all[offset + i]
<1>1. \A i \in (offset + 1)..last : all[i] \in Ranks
  OBVIOUS
<1> QED
  BY <1>1, SubSeqProperties

LEMMA PageReadKeeps ==
  ASSUME PagesInv, NEW l \in loads, PageRead(l) PROVE PagesInv'
<1> DEFINE all == InOrder(catalogue)
           last == CHOOSE n \in {Len(all), l.offset + PageSize} :
                     n <= Len(all) /\ n <= l.offset + PageSize
<1>0. PICK events, more, new :
        /\ events = SubSeq(all, l.offset + 1, last)
        /\ more = (last < Len(all))
        /\ new = [l EXCEPT !.answer = [read |-> TRUE, events |-> events, more |-> more]]
  OBVIOUS
<1>1. /\ l.offset <= Cardinality(catalogue)
      /\ loads' = (loads \ {l}) \cup {new}
      /\ UNCHANGED <<catalogue, listed, hasMore, loadingList, loadingMore, shifted>>
  BY <1>0 DEF PageRead
<1>2. l.offset \in Nat /\ l.replaces \in BOOLEAN
  BY DEF PagesInv, LoadType
<1>3. all \in Seq(Ranks) /\ Len(all) \in Nat /\ Len(all) = Cardinality(catalogue)
  BY ServiceList DEF PagesInv
<1>4. PageSize \in Nat /\ PageSize >= 1
  BY PagesAssumption
<1> HIDE DEF all
<1>5. last \in Nat /\ l.offset <= last /\ last <= Len(all)
  <2>1. \E n \in {Len(all), l.offset + PageSize} : n <= Len(all) /\ n <= l.offset + PageSize
    BY <1>2, <1>3, <1>4
  <2>2. last \in {Len(all), l.offset + PageSize} /\ last <= Len(all) /\ last <= l.offset + PageSize
    BY <2>1
  <2> HIDE DEF last
  <2> QED
    BY <1>1, <1>2, <1>3, <1>4, <2>2
<1> HIDE DEF last
<1>6. /\ events \in Seq(Ranks) /\ Len(events) = last - l.offset
      /\ \A i \in 1..(last - l.offset) : events[i] = all[l.offset + i]
  BY <1>0, <1>1, <1>2, <1>3, <1>5, ReadPage
<1>7. /\ new.offset = l.offset /\ new.replaces = l.replaces
      /\ new.answer = [read |-> TRUE, events |-> events, more |-> more]
  BY <1>0 DEF PagesInv
<1>8. LoadType(new)
  <2>1. more \in BOOLEAN
    <3>1. (last < Len(all)) \in BOOLEAN
      OBVIOUS
    <3>2. more = (last < Len(all))
      BY <1>0
    <3> QED
      BY <3>1, <3>2
  <2>2. new.answer.read = TRUE /\ new.answer.more = more /\ new.answer.events = events
    BY <1>7
  <2>3. new.answer.read \in BOOLEAN /\ new.answer.more \in BOOLEAN
    BY <2>1, <2>2, Zenon
  <2> QED
    BY <1>2, <1>6, <1>7, <2>2, <2>3 DEF LoadType
<1>9. PagesTypeOK'
  BY <1>1, <1>8 DEF PagesInv, PagesTypeOK, LoadType
<1>10. ASSUME ~shifted' PROVE PagesFit'
  <2>1. ~shifted /\ loads' = {new} /\ LoadFits(l)
    BY <1>1, <1>10 DEF PagesInv, PagesFit
  <2>2. l.offset + Len(events) = last
    BY <1>2, <1>5, <1>6
  <2>3. PartOfOrder(events, l.offset)
    <3>1. Len(InOrder(catalogue)) = Len(all) /\ Len(events) = last - l.offset
      BY <1>6 DEF all
    <3> QED
      BY <1>5, <1>6, <2>2, <3>1 DEF PartOfOrder, all
  <2>4. LoadFits(new)'
    <3>1. l.offset = IF l.replaces THEN 0 ELSE Len(listed)
      BY <2>1 DEF LoadFits
    <3>2. PartOfOrder(events, l.offset)' /\ Len(InOrder(catalogue))' = Len(InOrder(catalogue))
      BY <1>1, <2>3 DEF PartOfOrder
    <3>3. new.answer.events = events /\ (new.answer.more <=> last < Len(InOrder(catalogue)))
      <4>1. new.answer.events = events /\ new.answer.more = more
        BY <1>7
      <4>2. more <=> last < Len(InOrder(catalogue))
        BY <1>0 DEF all
      <4> QED
        BY <4>1, <4>2, Zenon
    <3>4. UNCHANGED listed
      BY <1>1
    <3> QED
      BY <1>7, <2>2, <3>1, <3>2, <3>3, <3>4 DEF LoadFits
  <2> QED
    BY <1>1, <2>1, <2>4 DEF PagesInv, PagesFit, PartOfOrder
<1> QED
  BY <1>1, <1>8, <1>9, <1>10 DEF PagesInv, LoadType

LEMMA PageArrivesKeeps ==
  ASSUME PagesInv, NEW l \in loads, PageArrives(l) PROVE PagesInv'
<1> DEFINE events == l.answer.events
           N == Len(InOrder(catalogue))
<1>1. /\ l.answer.read /\ listed' = (IF l.replaces THEN events ELSE listed \o events)
      /\ hasMore' = l.answer.more /\ loadingList' = FALSE /\ loadingMore' = FALSE
      /\ loads' = loads \ {l} /\ UNCHANGED <<catalogue, shifted>>
  BY DEF PageArrives
<1>2. events \in Seq(Ranks) /\ l.answer.more \in BOOLEAN /\ l.offset \in Nat /\ listed \in Seq(Ranks)
  BY DEF PagesInv, PagesTypeOK, LoadType
<1>3. PagesTypeOK'
  <2>1. listed' \in Seq(Ranks)
    BY <1>1, <1>2
  <2> QED
    BY <1>1, <1>2, <2>1 DEF PagesInv, PagesTypeOK
<1>4. ASSUME ~shifted' PROVE PagesFit'
  <2>1. loads' = {} /\ LoadFits(l) /\ PartOfOrder(listed, 0)
    BY <1>1, <1>4 DEF PagesInv, PagesFit
  <2>2. /\ l.offset = IF l.replaces THEN 0 ELSE Len(listed)
        /\ PartOfOrder(events, l.offset)
        /\ l.answer.more <=> l.offset + Len(events) < N
    BY <1>1, <2>1 DEF LoadFits
  <2> HIDE DEF events
  <2>3. N \in Nat /\ Len(events) \in Nat /\ Len(listed) \in Nat
    BY <1>2, ServiceList DEF PagesInv
  <2>4. Len(listed') = l.offset + Len(events)
    BY <1>1, <1>2, <2>2
  <2>5. \A i \in 1..Len(listed') : listed'[i] = InOrder(catalogue)[i]
    <3>1. CASE l.replaces
      BY <1>1, <1>2, <2>2, <2>3, <3>1 DEF PartOfOrder
    <3>2. CASE ~l.replaces
      <4> TAKE i \in 1..Len(listed')
      <4>1. listed' = listed \o events /\ l.offset = Len(listed)
        BY <1>1, <2>2, <3>2
      <4>2. CASE i <= Len(listed)
        <5>1. i \in 1..Len(listed) /\ listed'[i] = listed[i]
          BY <1>2, <2>3, <2>4, <4>1, <4>2
        <5>2. listed[i] = InOrder(catalogue)[0 + i] /\ 0 + i = i
          BY <2>1, <5>1 DEF PartOfOrder
        <5> QED
          BY <5>1, <5>2
      <4>3. CASE ~(i <= Len(listed))
        <5> DEFINE j == i - Len(listed)
        <5>1. j \in 1..Len(events) /\ listed'[i] = events[j] /\ Len(listed) + j = i
          BY <1>2, <2>3, <2>4, <4>1, <4>3
        <5>2. events[j] = InOrder(catalogue)[l.offset + j]
          BY <2>2, <5>1 DEF PartOfOrder
        <5> QED
          BY <4>1, <5>1, <5>2
      <4> QED
        BY <4>2, <4>3
    <3> QED
      BY <1>2, <3>1, <3>2 DEF PagesInv, LoadType
  <2>6. PartOfOrder(listed, 0)'
    <3>1. Len(listed') <= N
      BY <2>2, <2>4 DEF PartOfOrder
    <3>2. 0 + Len(listed') = Len(listed') /\ \A i \in 1..Len(listed') : 0 + i = i
      BY <1>2, <2>3, <2>4
    <3> QED
      BY <1>1, <2>5, <3>1, <3>2 DEF PartOfOrder
  <2>7. hasMore' <=> Len(listed') < N
    BY <1>1, <2>2, <2>4
  <2> QED
    BY <1>1, <2>1, <2>6, <2>7 DEF PagesFit
<1> QED
  BY <1>1, <1>3, <1>4 DEF PagesInv, LoadType

LEMMA PagesStep ==
  ASSUME PagesInv, PagesNext PROVE PagesInv'
<1>1. CASE Refresh
  <2>1. Load(0, TRUE) /\ loadingList' = TRUE /\ loadingMore' = loadingMore
    BY <1>1 DEF Refresh
  <2> QED
    BY <2>1, LoadKeeps DEF PagesInv, PagesTypeOK
<1>2. CASE LoadMore
  <2>1. Load(Len(listed), FALSE) /\ loadingMore' = TRUE /\ loadingList' = loadingList
    BY <1>2 DEF LoadMore
  <2>2. Len(listed) \in Nat
    BY DEF PagesInv, PagesTypeOK
  <2> QED
    BY <2>1, <2>2, LoadKeeps DEF PagesInv, PagesTypeOK
<1>3. CASE EventCreated
  <2>1. PICK e \in Ranks \ catalogue : catalogue' = catalogue \cup {e}
    BY <1>3 DEF EventCreated
  <2>2. shifted' = TRUE /\ UNCHANGED <<listed, hasMore, loadingList, loadingMore, loads>>
    BY <1>3 DEF EventCreated
  <2>3. IsFiniteSet(catalogue')
    BY <2>1, FS_AddElement DEF PagesInv, PagesTypeOK
  <2> QED
    BY <2>1, <2>2, <2>3 DEF PagesInv, PagesTypeOK, LoadType
<1>4. ASSUME NEW l \in loads, PageFails(l) PROVE PagesInv'
  <2>1. /\ loadingList' = FALSE /\ loadingMore' = FALSE /\ loads' = loads \ {l}
        /\ UNCHANGED <<catalogue, listed, hasMore, shifted>>
    BY <1>4 DEF PageFails
  <2>2. PagesTypeOK'
    BY <2>1 DEF PagesInv, PagesTypeOK
  <2>3. PartOfOrder(listed, 0)' <=> PartOfOrder(listed, 0)
    BY <2>1 DEF PartOfOrder
  <2>4. \A m \in loads : LoadFits(m)' <=> LoadFits(m)
    BY <2>1 DEF LoadFits, PartOfOrder
  <2> QED
    BY <2>1, <2>2, <2>3, <2>4 DEF PagesInv, PagesFit, LoadType
<1> QED
  BY <1>1, <1>2, <1>3, <1>4, PageReadKeeps, PageArrivesKeeps DEF PagesNext

LEMMA PagesStutter == ASSUME PagesInv, UNCHANGED pagesVars PROVE PagesInv'
<1>1. UNCHANGED <<catalogue, listed, hasMore, loadingList, loadingMore, loads, shifted>>
  BY DEF pagesVars
<1>2. PagesTypeOK'
  BY <1>1 DEF PagesInv, PagesTypeOK
<1> QED
  BY <1>1, <1>2 DEF PagesInv, PagesFit, LoadFits, LoadType, PartOfOrder

LEMMA PagesPromises ==
  ASSUME PagesInv PROVE PagesAreContiguous
<1> DEFINE all == InOrder(catalogue)
<1> SUFFICES ASSUME ~shifted PROVE IsPrefix(listed, all) /\ (listed # <<>> => (hasMore <=> Len(listed) < Len(all)))
  BY DEF PagesAreContiguous
<1>1. PagesFit
  BY DEF PagesInv
<1>2. all \in Seq(Ranks) /\ listed \in Seq(Ranks)
  BY ServiceList DEF PagesInv, PagesTypeOK
<1>3. Len(listed) \in Nat /\ Len(all) \in Nat
  BY <1>2
<1>4. Len(listed) <= Len(all) /\ \A i \in 1..Len(listed) : listed[i] = all[i]
  <2>1. 0 + Len(listed) <= Len(all) /\ \A i \in 1..Len(listed) : listed[i] = all[0 + i]
    BY <1>1 DEF PagesFit, PartOfOrder
  <2>2. 0 + Len(listed) = Len(listed) /\ \A i \in 1..Len(listed) : 0 + i = i
    BY <1>3
  <2> QED
    BY <2>1, <2>2
<1> HIDE DEF all
<1>6. SubSeq(listed, 1, Len(listed)) = SubSeq(all, 1, Len(listed))
  <2>1. SubSeq(listed, 1, Len(listed)) = [i \in 1..Len(listed) |-> listed[i]]
    BY <1>2, <1>3
  <2>2. SubSeq(all, 1, Len(listed)) = [i \in 1..Len(listed) |-> all[i]]
    BY <1>2, <1>3, <1>4
  <2> QED
    BY <1>4, <2>1, <2>2
<1> QED
  BY <1>1, <1>4, <1>6 DEF IsPrefix, PagesFit, all

-----------------------------------------------------------------------------
(* The screens together.                                                   *)
FrontEndInv ==
  /\ CameraTypeOK /\ CameraInv
  /\ QueryTypes /\ QueryInv
  /\ PagesInv /\ ImportInv
  /\ page \in Pages

LEMMA ImportStart ==
  ASSUME QueueAssumption, ImportInit PROVE ImportInv
<1>1. items \in Seq(Statuses) /\ Len(items) = 0
  <2>1. <<>> \in Seq(Statuses) /\ Len(<<>>) = 0
    OBVIOUS
  <2> QED
    BY <2>1 DEF ImportInit
<1>2. ImportTypeOK
  <2>1. run \in 0..MaxRuns /\ Len(items) <= MaxPhotos
    BY <1>1 DEF ImportInit, QueueAssumption
  <2>2. requests \in [Request -> {"none", "sent", "indexed", "duplicate", "created"}]
    BY DEF ImportInit
  <2> QED
    BY <1>1, <2>1, <2>2 DEF ImportInit, ImportTypeOK, Statuses
<1>3. QueueIsSequential /\ OutcomesAreTrue
  BY <1>1 DEF ImportInit, QueueIsSequential, OutcomesAreTrue
<1> QED
  BY <1>2, <1>3 DEF ImportInit, ImportInv, AnswersFit

LEMMA CameraStutter == ASSUME CameraInv, UNCHANGED cameraVars PROVE CameraInv'
<1>1. UNCHANGED <<mounted, hidden, running, starting, opening, stream, live, phase, timer, cycle,
                  inFlight, crossed, rewoken>>
  BY DEF cameraVars, camera, loop
<1>2. Busy' = Busy /\ Opening' = Opening
  BY <1>1 DEF Busy, Opening
<1> QED
  BY <1>1, <1>2 DEF CameraInv, OpeningInv, StreamInv, LoopInv, LoopGoesOn

LEMMA QueryStutter == ASSUME QueryInv, UNCHANGED queryVars PROVE QueryInv'
BY DEF queryVars, QueryInv, AskedInv, Pending, Shown

LEMMA ImportStutter == ASSUME ImportInv, UNCHANGED importVars PROVE ImportInv'
BY DEF importVars, ImportInv, ImportTypeOK, QueueIsSequential, OutcomesAreTrue, AnswersFit

\* Every screen keeps its invariant, and leaves the others'.
LEMMA FrontEndInvariant == FairSpec => []FrontEndInv
<1>1. Init => FrontEndInv
  BY CameraTypesStart, CameraStart, QueryTypesStart, QueryStart, PagesStart, ImportStart,
     QueueAssumption DEF Init, FrontEndInv
<1>2. FrontEndInv /\ [Next]_vars => FrontEndInv'
  <2> SUFFICES ASSUME FrontEndInv, [Next]_vars PROVE FrontEndInv'
    OBVIOUS
  <2>1. CameraTypeOK' /\ CameraInv'
    <3>1. CameraNext \/ UNCHANGED cameraVars
      BY DEF Next, vars
    <3> QED
      BY <3>1, CameraTypesStep, CameraTypesStutter, CameraStep, CameraStutter DEF FrontEndInv
  <2>2. QueryTypes' /\ QueryInv'
    <3>1. QueryNext \/ UNCHANGED queryVars
      BY DEF Next, vars
    <3> QED
      BY <3>1, QueryTypesStep, QueryTypesStutter, QueryStep, QueryStutter DEF FrontEndInv
  <2>3. ImportInv'
    <3>1. ImportNext \/ UNCHANGED importVars
      BY DEF Next, vars
    <3> QED
      BY <3>1, ImportStep, ImportStutter, QueueAssumption DEF FrontEndInv
  <2>4. PagesInv'
    <3>1. PagesNext \/ UNCHANGED pagesVars
      BY DEF Next, vars
    <3> QED
      BY <3>1, PagesStep, PagesStutter DEF FrontEndInv
  <2>5. page' \in Pages
    BY DEF Next, vars, FrontEndInv
  <2> QED
    BY <2>1, <2>2, <2>3, <2>4, <2>5 DEF FrontEndInv, Pages
<1> QED
  BY <1>1, <1>2, PTL DEF FairSpec

(* The screens keep their types; a cycle that can be cancelled is one that *)
(* waits for an answer, and a page's answer holds events.                  *)
THEOREM ScreenTypes == FairSpec => []TypeOK
<1>1. FrontEndInv => TypeOK
  BY DEF FrontEndInv, QueryTypes, PagesInv, ImportInv, TypeOK
<1> QED
  BY <1>1, FrontEndInvariant, PTL

(* The photos of an import go one by one, in their order, whatever was     *)
(* cancelled or left before (import.ts, processNext and its callers).      *)
THEOREM OnePhotoAtATime == FairSpec => []QueueIsSequential
<1>1. FrontEndInv => QueueIsSequential
  BY DEF FrontEndInv, ImportInv
<1> QED
  BY <1>1, FrontEndInvariant, PTL

(* No answer of an earlier run is shown for a photo of this one            *)
(* (import.ts, the subscriptions dropped by cancelRun and ngOnDestroy).    *)
THEOREM HonestOutcomes == FairSpec => []OutcomesAreTrue
<1>1. FrontEndInv => OutcomesAreTrue
  BY DEF FrontEndInv, ImportInv
<1> QED
  BY <1>1, FrontEndInvariant, PTL

(* The camera's cycles follow one another (camera-search.ts, runCycle and  *)
(* scheduleNext), but for what crosses an opening or a return of the tab.  *)
THEOREM OneCycleAtATime == FairSpec => []LoopIsSequential
<1>1. FrontEndInv => LoopIsSequential
  BY CameraPromises DEF FrontEndInv
<1> QED
  BY <1>1, FrontEndInvariant, PTL

(* A screen that runs never loses its loop, whatever crosses what          *)
(* (camera-search.ts, every end of a cycle sets the next one).             *)
THEOREM LoopNeverLost == FairSpec => []LoopGoesOn
<1>1. FrontEndInv => LoopGoesOn
  BY CameraPromises DEF FrontEndInv
<1> QED
  BY <1>1, FrontEndInvariant, PTL

(* A camera stays on after its screen stops only when its opening crossed  *)
(* something else (camera-search.ts, openStream and releaseStream).        *)
THEOREM LeaksAreCrossings == FairSpec => []OnlyCrossedOpeningsLeak
<1>1. FrontEndInv => OnlyCrossedOpeningsLeak
  BY CameraPromises DEF FrontEndInv
<1> QED
  BY <1>1, FrontEndInvariant, PTL

(* What is framed and found belongs to what is chosen (search.ts), as long *)
(* as nothing is chosen over a pending call.                               *)
THEOREM NoForeignResults == FairSpec => []ShownBelongs
<1>1. FrontEndInv => ShownBelongs
  BY QueryPromises DEF FrontEndInv
<1> QED
  BY <1>1, FrontEndInvariant, PTL
(* The list of events has no hole and no repetition (events.ts, load: the  *)
(* offset of each page is the length of the list), as long as no event is  *)
(* created meanwhile and no page is asked for before another came.         *)
THEOREM ListIsContiguous == FairSpec => []PagesAreContiguous
<1>1. FrontEndInv => PagesAreContiguous
  BY PagesPromises DEF FrontEndInv
<1> QED
  BY <1>1, FrontEndInvariant, PTL
=============================================================================
