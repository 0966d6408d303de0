---------------------------- MODULE ImportQueue -----------------------------
(***************************************************************************)
(* The screen that imports photos one request at a time.  The service      *)
(* handles a request whether or not the screen still listens to it.        *)
(* The choice of the photos and the display are left out.                  *)
(***************************************************************************)
EXTENDS Naturals, FiniteSets, Sequences

CONSTANTS
  MaxPhotos,  \* photos of a run (bound of the model)
  MaxRuns     \* runs, over all visits of the screen (bound of the model)

ASSUME QueueAssumption == {MaxPhotos, MaxRuns} \subseteq Nat \ {0}

VARIABLES
  run,         \* number of runs so far
  importing,   \* this.running
  cancelling,
  items,       \* status of each photo of the last run
  requests,    \* what the service was sent; item 0 is the creation of an event
  subscribed,  \* the requests whose answers are listened to
  awaited      \* this.inFlight: the one that the screen would unsubscribe

importVars == <<run, importing, cancelling, items, requests, subscribed, awaited>>

Terminal == {"indexed", "duplicate", "error", "cancelled"}
Active == {"uploading", "indexing"}
Request == [run : 1..MaxRuns, item : 0..MaxPhotos]

ImportTypeOK ==
  /\ run \in 0..MaxRuns /\ {importing, cancelling} \subseteq BOOLEAN
  /\ items \in Seq(Terminal \cup Active \cup {"pending"}) /\ Len(items) <= MaxPhotos
  /\ requests \in [Request -> {"none", "sent", "indexed", "duplicate", "created"}]
  /\ {subscribed, awaited} \subseteq SUBSET Request

ImportInit ==
  /\ run = 0 /\ importing = FALSE /\ cancelling = FALSE /\ items = <<>>
  /\ requests = [r \in Request |-> "none"]
  /\ subscribed = {} /\ awaited = {}

-----------------------------------------------------------------------------
Send(r, others) ==
  /\ requests' = [requests EXCEPT ![r] = "sent"]
  /\ subscribed' = others \cup {r} /\ awaited' = {r}

\* finishRun
Finish(statuses, others) ==
  /\ importing' = FALSE /\ items' = statuses
  /\ subscribed' = others /\ awaited' = {}
  /\ UNCHANGED requests

\* Sends the photo at index, unless the run is over.
ProcessNext(index, statuses, others) ==
  IF cancelling' \/ index > Len(statuses)
  THEN Finish(statuses, others)
  ELSE /\ items' = [statuses EXCEPT ![index] = "uploading"]
       /\ Send([run |-> run', item |-> index], others)
       /\ importing' = TRUE

\* In an event of the list, or in a new one that is created first.
OnSubmitPhotos(n) ==
  /\ ~importing /\ run < MaxRuns
  /\ run' = run + 1 /\ cancelling' = FALSE
  /\ LET waiting == [i \in 1..n |-> "pending"] IN
       \/ ProcessNext(1, waiting, subscribed)
       \/ /\ items' = waiting /\ importing' = TRUE
          /\ Send([run |-> run + 1, item |-> 0], subscribed)

Cancelled == [i \in 1..Len(items) |-> IF items[i] \in Terminal THEN items[i] ELSE "cancelled"]

\* Mutation: the request in flight is still listened to.
MarkCancelled ==
  /\ importing
  /\ cancelling' = TRUE
  /\ Finish(Cancelled, subscribed)
  /\ UNCHANGED run

CancelRun ==
  /\ importing
  /\ cancelling' = TRUE
  /\ Finish(Cancelled, subscribed \ awaited)
  /\ UNCHANGED run

\* ngOnDestroy, and the screen that a later visit makes.
LeaveImport ==
  /\ run > 0
  /\ cancelling' = FALSE
  /\ Finish(<<>>, subscribed \ awaited)
  /\ UNCHANGED run

-----------------------------------------------------------------------------
\* The service creates the event, or imports the photo (EventImport).
ServiceHandles(r) ==
  /\ requests[r] = "sent"
  /\ \E outcome \in IF r.item = 0 THEN {"created"} ELSE {"indexed", "duplicate"} :
       requests' = [requests EXCEPT ![r] = outcome]
  /\ UNCHANGED <<run, importing, cancelling, items, subscribed, awaited>>

EventCreatedAnswer(r) ==
  /\ r \in subscribed /\ requests[r] = "created"
  /\ UNCHANGED <<run, cancelling>>
  /\ ProcessNext(1, items, subscribed \ {r})

CreationFails(r) ==
  /\ r \in subscribed /\ r.item = 0
  /\ UNCHANGED <<run, cancelling>>
  /\ Finish(<<>>, subscribed \ {r})

\* patchItem: an index beyond the list changes nothing.
Patch(index, status) == [i \in 1..Len(items) |-> IF i = index THEN status ELSE items[i]]

UploadProgress(r) ==
  /\ r \in subscribed /\ r.item # 0
  /\ Patch(r.item, "indexing") # items
  /\ items' = Patch(r.item, "indexing")
  /\ UNCHANGED <<run, importing, cancelling, requests, subscribed, awaited>>

\* The answer, and the end of the flow in the same task.
UploadAnswered(r) ==
  /\ r \in subscribed /\ requests[r] \in {"indexed", "duplicate"}
  /\ UNCHANGED <<run, cancelling>>
  /\ ProcessNext(r.item + 1, Patch(r.item, requests[r]), subscribed \ {r})

\* Mutation: a photo that fails ends the queue.
UploadEnds(r) ==
  /\ r \in subscribed /\ r.item # 0
  /\ items' = Patch(r.item, "error")
  /\ subscribed' = subscribed \ {r}
  /\ UNCHANGED <<run, importing, cancelling, requests, awaited>>

\* Mutation: a photo whose answer is lost counts as imported.
UploadAssumed(r) ==
  /\ r \in subscribed /\ r.item # 0
  /\ UNCHANGED <<run, cancelling>>
  /\ ProcessNext(r.item + 1, Patch(r.item, "indexed"), subscribed \ {r})

\* An error of the service, or an answer that is lost: the queue goes on.
UploadFails(r) ==
  /\ r \in subscribed /\ r.item # 0
  /\ UNCHANGED <<run, cancelling>>
  /\ ProcessNext(r.item + 1, Patch(r.item, "error"), subscribed \ {r})

ImportAnswers ==
  \E r \in Request : EventCreatedAnswer(r) \/ CreationFails(r) \/ UploadAnswered(r) \/ UploadFails(r)

ImportNext ==
  \/ \E n \in 1..MaxPhotos : OnSubmitPhotos(n)
  \/ CancelRun \/ LeaveImport
  \/ \E r \in Request : ServiceHandles(r) \/ UploadProgress(r)
  \/ ImportAnswers

-----------------------------------------------------------------------------
(* "Traite les images une par une, séquentiellement": whatever was         *)
(* cancelled or left before, one request of the run shown is listened to   *)
(* while it goes on, the photos before it have their outcome and those     *)
(* after it wait; once it is over, nothing is listened to and every photo  *)
(* has its outcome.                                                        *)
QueueIsSequential ==
  IF importing
  THEN \E at \in 0..Len(items) :
         /\ subscribed = {[run |-> run, item |-> at]}
         /\ \A i \in 1..Len(items) :
              /\ i < at => items[i] \in Terminal
              /\ i = at => items[i] \in Active
              /\ i > at => items[i] = "pending"
  ELSE subscribed = {} /\ \A i \in 1..Len(items) : items[i] \in Terminal

(* A photo shown as imported or as a duplicate was so answered by the      *)
(* service, for this photo of this run: a late answer of a cancelled run   *)
(* says nothing of the next one.                                           *)
OutcomesAreTrue ==
  \A i \in 1..Len(items) :
    items[i] \in {"indexed", "duplicate"} => requests[[run |-> run, item |-> i]] = items[i]
=============================================================================
