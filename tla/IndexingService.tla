-------------------------- MODULE IndexingService --------------------------
(***************************************************************************)
(* What the indexing promises, without streams, workers or retries: an     *)
(* image submitted for indexing is indexed, at least once, or abandoned to *)
(* the dead-letter queue, and its request is closed only after one of the  *)
(* two.  Submissions are numbered in order.                                *)
(***************************************************************************)
EXTENDS Naturals, Sequences

CONSTANTS Images, MaxMessages

VARIABLES
  requests,   \* images submitted, in order
  served,     \* requests whose image has been indexed for them
  abandoned,  \* requests written to the dead-letter queue
  closed,     \* requests that nobody will handle again on their own
  indexed     \* images shown as indexed

serviceVars == <<requests, served, abandoned, closed, indexed>>

Init ==
  /\ requests = <<>>
  /\ served = {} /\ abandoned = {} /\ closed = {}
  /\ indexed = {}

Submit(i) ==
  /\ Len(requests) < MaxMessages
  /\ requests' = Append(requests, i)
  /\ UNCHANGED <<served, abandoned, closed, indexed>>

\* At least once: a request may be served again, even after it was closed.
Serve(r) ==
  /\ served' = served \cup {r}
  /\ indexed' = indexed \cup {requests[r]}
  /\ UNCHANGED <<requests, abandoned, closed>>

Abandon(r) ==
  /\ abandoned' = abandoned \cup {r}
  /\ UNCHANGED <<requests, served, closed, indexed>>

Close(r) ==
  /\ r \in served \cup abandoned
  /\ closed' = closed \cup {r}
  /\ UNCHANGED <<requests, served, abandoned, indexed>>

Next ==
  \/ \E i \in Images : Submit(i)
  \/ \E r \in 1..Len(requests) : Serve(r) \/ Abandon(r) \/ Close(r)

Spec == Init /\ [][Next]_serviceVars

\* Every request is eventually closed.
EveryRequestClosed == \A r \in 1..MaxMessages :
  r \in 1..Len(requests) ~> r \in closed
=============================================================================
