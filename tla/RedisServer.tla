---------------------------- MODULE RedisServer -----------------------------
(***************************************************************************)
(* The two uses of the Redis server: the queue of the indexing and the     *)
(* counter of an actor's searches.  They share no key and no process waits *)
(* for both, so that a behaviour follows one of them while the other is    *)
(* left alone.                                                             *)
(***************************************************************************)
EXTENDS IndexingPipeline, SearchQuota

VARIABLE followed  \* the use followed

serverVars == <<vars, quotaVars, followed>>

ServerInit ==
  /\ Init /\ QuotaInit
  /\ followed \in {"queue", "counter"}

OfQueue(A)   == followed = "queue" /\ A /\ UNCHANGED <<quotaVars, followed>>
OfCounter(A) == followed = "counter" /\ A /\ UNCHANGED <<vars, followed>>

ServerNext == OfQueue(Next) \/ OfCounter(QuotaNext)

\* FairSpec of the pipeline and QuotaFairSpec, for the one that is followed.
ServerSpec ==
  /\ ServerInit /\ [][ServerNext]_serverVars
  /\ \A w \in Workers : WF_serverVars(OfQueue(WorkerStep(w)))
  /\ WF_serverVars(OfQueue(TimePasses))
  /\ WF_serverVars(OfCounter(QuotaTick))
  /\ \A r \in Requests : WF_serverVars(OfCounter(Expire(r)))
=============================================================================
