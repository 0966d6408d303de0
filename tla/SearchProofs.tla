---------------------------- MODULE SearchProofs ----------------------------
(***************************************************************************)
(* Proofs about Search: what is journaled is what was answered, no search  *)
(* of the index escapes the quota, and what is shown is the best of what   *)
(* was found, for any number of requests, any content of the tables and    *)
(* any failures.                                                           *)
(***************************************************************************)
EXTENDS Search, Orders, SequenceTheorems

\* The requests that the quota let through are counted in finite sets.
LEMMA GrantedFinite ==
  ASSUME NEW a \in Actors
  PROVE  IsFiniteSet(Granted(a)) /\ Cardinality(Granted(a)) \in Nat
<1>1. Granted(a) \subseteq Requests
  BY DEF Granted
<1> QED
  BY <1>1, SearchAssumption, FS_Subset, FS_CardinalityType

\* A step after which fewer requests are let through keeps the count.
LEMMA FewerGranted ==
  ASSUME CountInv, consumed \in [Actors -> Nat], UNCHANGED consumed,
         \A a \in Actors : Granted(a)' \subseteq Granted(a)
  PROVE  CountInv'
<1> SUFFICES ASSUME NEW a \in Actors
             PROVE  /\ Cardinality(Granted(a)') <= consumed[a]
                    /\ Cardinality(Granted(a)') <= Quota
  BY DEF CountInv
<1>1. IsFiniteSet(Granted(a)) /\ Granted(a)' \subseteq Granted(a)
  BY GrantedFinite
<1>2. Cardinality(Granted(a)') <= Cardinality(Granted(a))
  BY <1>1, FS_Subset
<1>3. Cardinality(Granted(a)) \in Nat /\ Cardinality(Granted(a)') \in Nat
  BY <1>1, GrantedFinite, FS_Subset, FS_CardinalityType
<1>4. /\ Cardinality(Granted(a)) <= consumed[a] /\ Cardinality(Granted(a)) <= Quota
      /\ consumed[a] \in Nat /\ Quota \in Nat
  BY SearchAssumption DEF CountInv
<1> QED
  BY <1>2, <1>3, <1>4

\* An initial state has no request.
LEMMA InitSearchInv == Init => SearchInv
<1> SUFFICES ASSUME Init PROVE SearchInv
  OBVIOUS
<1>1. RequestTypes
  <2>1. (CHOOSE q \in Queries : TRUE) \in Queries
    BY SearchAssumption
  <2> QED
    BY <2>1 DEF Init, RequestTypes, Ended
<1>2. LookedInv /\ JournalInv
  BY DEF Init, LookedInv, JournalInv
<1>3. CountInv
  <2> SUFFICES ASSUME NEW a \in Actors
               PROVE  Cardinality(Granted(a)) <= consumed[a] /\ Cardinality(Granted(a)) <= Quota
    BY DEF CountInv
  <2>1. Granted(a) = {}
    BY DEF Init, Granted
  <2>2. consumed[a] = 0 /\ Quota \in Nat
    BY SearchAssumption DEF Init
  <2> QED
    BY <2>1, <2>2, FS_EmptySet
<1> QED
  BY <1>1, <1>2, <1>3 DEF SearchInv

\* What one request does, the journal and its own result apart, disturbs no
\* other one: enough to look at the request that moves.
LEMMA MoveInv ==
  ASSUME RequestTypes, LookedInv, JournalInv,
         NEW r \in Requests, NEW label \in Running \cup Ended,
         pc' = [pc EXCEPT ![r] = label],
         UNCHANGED <<looked, matches, audit, commitFirst>>,
         \/ UNCHANGED pending
         \/ pending' = [pending EXCEPT ![r] = {}] /\ label \notin {"sign", "commit", "answer"},
         label \in {"load", "sign", "commit", "answer", "answered", "unconfirmed"} => r \in looked,
         r \in looked =>
           label \in {"load", "sign", "commit", "answer", "answered", "failed", "unconfirmed"},
         label \in {"sign", "commit"} \/ (label = "answer" /\ ~commitFirst) => pending[r] = {Row(r)},
         commitFirst /\ label \in {"answer", "answered"} => Row(r) \in audit,
         commitFirst => label # "unconfirmed",
         Row(r) \in audit => label \in {"answered", "failed", "unconfirmed"} \/ (label = "answer" /\ commitFirst)
  PROVE  /\ pc' \in [Requests -> Running \cup Ended]
         /\ pending' = [q \in Requests |-> pending'[q]]
         /\ LookedInv' /\ JournalInv'
<1>1. \A q \in Requests : Row(q)' = Row(q)
  BY DEF Row
<1>2. pc' \in [Requests -> Running \cup Ended] /\ pending' = [q \in Requests |-> pending'[q]]
  BY DEF RequestTypes
<1>3. /\ pc'[r] = label /\ \A q \in Requests \ {r} : pc'[q] = pc[q] /\ pending'[q] = pending[q]
      /\ pending'[r] \in {pending[r], {}}
      /\ label \in {"sign", "commit", "answer"} => pending'[r] = pending[r]
  BY DEF RequestTypes
<1>4. LookedInv'
  BY <1>3 DEF LookedInv
<1>5. ASSUME NEW row \in audit'
      PROVE  /\ row.request \in Requests /\ row = Row(row.request)'
             /\ pc'[row.request] \in {"answered", "failed", "unconfirmed"} \/ (pc'[row.request] = "answer" /\ commitFirst')
             /\ row.request \in looked'
  <2>1. /\ row.request \in Requests /\ row = Row(row.request)
        /\ pc[row.request] \in {"answered", "failed", "unconfirmed"} \/ (pc[row.request] = "answer" /\ commitFirst)
        /\ row.request \in looked
    BY <1>5 DEF JournalInv
  <2> QED
    BY <1>1, <1>3, <1>5, <2>1
<1>6. ASSUME NEW q \in Requests
      PROVE  /\ pc'[q] \in {"sign", "commit"} \/ (pc'[q] = "answer" /\ ~commitFirst')
                  => pending'[q] = {Row(q)'}
             /\ commitFirst' /\ pc'[q] \in {"answer", "answered"} => Row(q)' \in audit'
             /\ commitFirst' => pc'[q] # "unconfirmed"
  BY <1>1, <1>3 DEF JournalInv
<1>7. JournalInv'
  BY <1>5, <1>6 DEF JournalInv
<1> QED
  BY <1>2, <1>4, <1>7

\* A request that is received has its question from then on.
LEMMA ReceiveInv ==
  ASSUME SearchInv, NEW r \in Requests, NEW q \in Queries,
         Receive(r, q) \/ DetectQueryFaces(r, q)
  PROVE  SearchInv'
<1>1. PICK label \in {"401", "413", "consume", "faces", "failed"} :
        pc[r] = "new" /\ pc' = [pc EXCEPT ![r] = label]
  BY DEF Receive, DetectQueryFaces, Admit, GoTo
<1>2. /\ ask' = [ask EXCEPT ![r] = q]
      /\ UNCHANGED <<looked, matches, pending, audit, commitFirst, consumed>>
  BY DEF Receive, DetectQueryFaces, result, frame
<1>3. r \notin looked /\ Row(r) \notin audit
  BY <1>1 DEF SearchInv, LookedInv, JournalInv, Row
<1>4. label \in Running \cup Ended
  BY <1>1 DEF Running, Ended, Refused
<1>5. LookedInv' /\ JournalInv' /\ pc' \in [Requests -> Running \cup Ended]
  BY <1>1, <1>2, <1>3, <1>4, MoveInv DEF SearchInv
<1>6. RequestTypes'
  BY <1>2, <1>5 DEF SearchInv, RequestTypes
<1>7. \A a \in Actors : Granted(a)' \subseteq Granted(a)
  BY <1>1, <1>2, <1>3 DEF SearchInv, RequestTypes, Granted
<1> QED
  BY <1>2, <1>5, <1>6, <1>7, FewerGranted DEF SearchInv, RequestTypes

\* The quota: a request that is let through is one more of those counted.
LEMMA ConsumeInv ==
  ASSUME SearchInv, NEW r \in Requests, Consume(r)
  PROVE  SearchInv'
<1> DEFINE b == ask[r].actor
<1>1. PICK label \in {"select", "429"} :
        /\ pc[r] = "consume" /\ pc' = [pc EXCEPT ![r] = label]
        /\ label = "select" => consumed[b] < Quota
  BY DEF Consume, GoTo
<1>2. /\ consumed' = [consumed EXCEPT ![b] = @ + 1]
      /\ UNCHANGED <<ask, looked, matches, pending, audit, commitFirst>>
  BY DEF Consume, result, frame
<1>3. b \in Actors /\ consumed \in [Actors -> Nat] /\ pc \in [Requests -> Running \cup Ended]
  BY DEF SearchInv, RequestTypes, Actors
<1>4. r \notin looked /\ Row(r) \notin audit
  BY <1>1 DEF SearchInv, LookedInv, JournalInv, Row
<1>5. label \in Running \cup Ended
  BY <1>1 DEF Running, Ended, Refused
<1>6. LookedInv' /\ JournalInv' /\ pc' \in [Requests -> Running \cup Ended]
  BY <1>1, <1>2, <1>4, <1>5, MoveInv DEF SearchInv
<1>7. RequestTypes'
  BY <1>2, <1>3, <1>6 DEF SearchInv, RequestTypes
<1>8. CountInv'
  <2> SUFFICES ASSUME NEW a \in Actors
               PROVE  /\ Cardinality(Granted(a)') <= consumed'[a]
                      /\ Cardinality(Granted(a)') <= Quota
    BY DEF CountInv
  <2>1. /\ Cardinality(Granted(a)) <= consumed[a] /\ Cardinality(Granted(a)) <= Quota
        /\ IsFiniteSet(Granted(a)) /\ Cardinality(Granted(a)) \in Nat
        /\ consumed[a] \in Nat /\ Quota \in Nat
    BY <1>3, GrantedFinite, SearchAssumption DEF SearchInv, CountInv
  <2>2. CASE a = b /\ label = "select"
    <3>1. Granted(a)' = Granted(a) \cup {r}
      BY <1>1, <1>2, <1>3, <2>2 DEF Granted
    <3>2. Cardinality(Granted(a)') <= Cardinality(Granted(a)) + 1 /\ Cardinality(Granted(a)') \in Nat
      <4>1. Cardinality(Granted(a) \cup {r})
              = IF r \in Granted(a) THEN Cardinality(Granted(a)) ELSE Cardinality(Granted(a)) + 1
        BY <2>1, FS_AddElement
      <4> QED
        BY <2>1, <3>1, <4>1
    <3>3. consumed'[a] = consumed[a] + 1 /\ consumed[a] < Quota
      BY <1>1, <1>2, <1>3, <2>2
    <3> QED
      BY <2>1, <3>2, <3>3
  <2>3. CASE ~(a = b /\ label = "select")
    <3>1. Granted(a)' \subseteq Granted(a)
      BY <1>1, <1>2, <1>3, <2>3 DEF Granted
    <3>2. Cardinality(Granted(a)') <= Cardinality(Granted(a)) /\ Cardinality(Granted(a)') \in Nat
      BY <2>1, <3>1, FS_Subset, FS_CardinalityType
    <3>3. consumed'[a] >= consumed[a] /\ consumed'[a] \in Nat
      BY <1>2, <1>3, <2>1
    <3> QED
      BY <2>1, <3>2, <3>3
  <2> QED
    BY <2>2, <2>3
<1> QED
  BY <1>6, <1>7, <1>8 DEF SearchInv

\* The steps of a request between the quota and its end, the search of the index,
\* the result and the commit apart.
LEMMA MovedInv ==
  ASSUME SearchInv, NEW r \in Requests, NEW label,
         pc' = [pc EXCEPT ![r] = label],
         UNCHANGED <<ask, consumed, looked, matches, audit, commitFirst>>,
         \/ UNCHANGED pending /\ pc[r] = "select" /\ label \in {"failed", "409", "422", "look"}
         \/ UNCHANGED pending /\ pc[r] = "sign" /\ label = IF commitFirst THEN "commit" ELSE "answer"
         \/ UNCHANGED pending /\ pc[r] = "answer" /\ label = IF commitFirst THEN "answered" ELSE "commit"
         \/ /\ pc[r] \in Running /\ pending' = [pending EXCEPT ![r] = {}]
            /\ label = IF pc[r] = "commit" /\ ~commitFirst THEN "unconfirmed" ELSE "failed"
  PROVE  SearchInv'
<1>1. /\ r \in looked => pc[r] \in {"load", "sign", "commit", "answer", "answered", "failed", "unconfirmed"}
      /\ pc[r] \in {"load", "sign", "commit", "answer", "answered", "unconfirmed"} => r \in looked
      /\ commitFirst \in BOOLEAN
  BY DEF SearchInv, LookedInv, RequestTypes
<1>2. /\ pc[r] \in {"sign", "commit"} \/ (pc[r] = "answer" /\ ~commitFirst) => pending[r] = {Row(r)}
      /\ commitFirst /\ pc[r] \in {"answer", "answered"} => Row(r) \in audit
      /\ Row(r) \in audit => pc[r] \in {"answered", "failed", "unconfirmed"} \/ (pc[r] = "answer" /\ commitFirst)
  BY DEF SearchInv, JournalInv, Row
<1>3. label \in Running \cup Ended
  BY <1>1 DEF Running, Ended, Refused
<1>4. LookedInv' /\ JournalInv' /\ pc' \in [Requests -> Running \cup Ended]
                 /\ pending' = [q \in Requests |-> pending'[q]]
  <2>1. label \in {"load", "sign", "commit", "answer", "answered", "unconfirmed"} => r \in looked
    BY <1>1 DEF Running
  <2>2. r \in looked =>
          label \in {"load", "sign", "commit", "answer", "answered", "failed", "unconfirmed"}
    BY <1>1
  <2>3. label \in {"sign", "commit"} \/ (label = "answer" /\ ~commitFirst) => pending[r] = {Row(r)}
    BY <1>1, <1>2
  <2>4. commitFirst /\ label \in {"answer", "answered"} => Row(r) \in audit
    BY <1>1, <1>2
  <2>5. commitFirst => label # "unconfirmed"
    BY <1>1
  <2>6. Row(r) \in audit => label \in {"answered", "failed", "unconfirmed"} \/ (label = "answer" /\ commitFirst)
    BY <1>1, <1>2 DEF Running
  <2>7. \/ UNCHANGED pending
        \/ pending' = [pending EXCEPT ![r] = {}] /\ label \notin {"sign", "commit", "answer"}
    BY <1>1
  <2> QED
    BY <1>3, <2>1, <2>2, <2>3, <2>4, <2>5, <2>6, <2>7, MoveInv DEF SearchInv
<1>5. RequestTypes'
  BY <1>4 DEF SearchInv, RequestTypes
<1>6. \A a \in Actors : Granted(a)' \subseteq Granted(a)
  BY <1>1 DEF SearchInv, RequestTypes, Granted
<1> QED
  BY <1>4, <1>5, <1>6, FewerGranted DEF SearchInv, RequestTypes

\* The search of the index: a request that the quota let through.
LEMMA LookInv ==
  ASSUME SearchInv, NEW r \in Requests, Look(r)
  PROVE  SearchInv'
<1>1. /\ pc[r] = "look" /\ pc' = [pc EXCEPT ![r] = "load"]
      /\ looked' = looked \cup {r}
      /\ UNCHANGED <<ask, consumed, matches, pending, audit, commitFirst>>
  BY DEF Look, GoTo, frame
<1>2. pc \in [Requests -> Running \cup Ended] /\ "load" \in Running
  BY DEF SearchInv, RequestTypes, Running
<1>3. \A q \in Requests : Row(q)' = Row(q)
  BY <1>1 DEF Row
<1>4. RequestTypes'
  BY <1>1, <1>2 DEF SearchInv, RequestTypes
<1>5. LookedInv'
  BY <1>1, <1>2 DEF SearchInv, LookedInv
<1>6. JournalInv'
  <2>1. ASSUME NEW row \in audit'
        PROVE  /\ row.request \in Requests /\ row = Row(row.request)'
               /\ pc'[row.request] \in {"answered", "failed", "unconfirmed"} \/ (pc'[row.request] = "answer" /\ commitFirst')
               /\ row.request \in looked'
    <3>1. /\ row.request \in Requests /\ row = Row(row.request)
          /\ pc[row.request] \in {"answered", "failed", "unconfirmed"} \/ (pc[row.request] = "answer" /\ commitFirst)
          /\ row.request \in looked
      BY <1>1, <2>1 DEF SearchInv, JournalInv
    <3> QED
      BY <1>1, <1>2, <1>3, <3>1
  <2> QED
    BY <1>1, <1>2, <1>3, <2>1 DEF SearchInv, JournalInv
<1>7. \A a \in Actors : Granted(a)' \subseteq Granted(a)
  BY <1>1, <1>2 DEF Granted
<1> QED
  BY <1>1, <1>4, <1>5, <1>6, <1>7, FewerGranted DEF SearchInv, RequestTypes

\* The result and its row: no row of this request is in the journal yet.
LEMMA LoadInv ==
  ASSUME SearchInv, NEW r \in Requests, Load(r)
  PROVE  SearchInv'
<1> DEFINE m == Ranked(ask[r], Candidates(ask[r], hits[r], events))
<1>1. /\ pc[r] = "load" /\ pc' = [pc EXCEPT ![r] = "sign"]
      /\ matches' = [matches EXCEPT ![r] = m]
      /\ pending' = [pending EXCEPT ![r] =
           {[request |-> r, count |-> Len(m), top |-> IF m = <<>> THEN None ELSE m[1].confidence]}]
      /\ UNCHANGED <<ask, consumed, looked, audit, commitFirst>>
  BY DEF Load, RecordSearch, GoTo, frame
<1> HIDE DEF m
<1>2. /\ pc \in [Requests -> Running \cup Ended] /\ "sign" \in Running
      /\ matches = [q \in Requests |-> matches[q]] /\ pending = [q \in Requests |-> pending[q]]
  BY DEF SearchInv, RequestTypes, Running
<1>3. \A q \in Requests \ {r} : Row(q)' = Row(q) /\ pending'[q] = pending[q]
  BY <1>1, <1>2 DEF Row
<1>4. pending'[r] = {Row(r)'}
  <2>1. matches'[r] = m
    BY <1>1, <1>2
  <2> QED
    BY <1>1, <1>2, <2>1 DEF Row
<1>5. RequestTypes'
  <2>1. matches' = [q \in Requests |-> matches'[q]] /\ pending' = [q \in Requests |-> pending'[q]]
    BY <1>1, <1>2
  <2> QED
    BY <1>1, <1>2, <2>1 DEF SearchInv, RequestTypes
<1>6. LookedInv'
  BY <1>1, <1>2 DEF SearchInv, LookedInv
<1>7. JournalInv'
  <2>1. ASSUME NEW row \in audit'
        PROVE  /\ row.request \in Requests /\ row = Row(row.request)'
               /\ pc'[row.request] \in {"answered", "failed", "unconfirmed"} \/ (pc'[row.request] = "answer" /\ commitFirst')
               /\ row.request \in looked'
    <3>1. /\ row.request \in Requests /\ row = Row(row.request)
          /\ pc[row.request] \in {"answered", "failed", "unconfirmed"} \/ (pc[row.request] = "answer" /\ commitFirst)
          /\ row.request \in looked
      BY <1>1, <2>1 DEF SearchInv, JournalInv
    <3>2. row.request # r
      BY <1>1, <3>1
    <3> QED
      BY <1>1, <1>2, <1>3, <3>1, <3>2
  <2>2. ASSUME NEW q \in Requests
        PROVE  /\ pc'[q] \in {"sign", "commit"} \/ (pc'[q] = "answer" /\ ~commitFirst')
                    => pending'[q] = {Row(q)'}
               /\ commitFirst' /\ pc'[q] \in {"answer", "answered"} => Row(q)' \in audit'
               /\ commitFirst' => pc'[q] # "unconfirmed"
    <3>1. CASE q = r
      BY <1>1, <1>2, <1>4, <3>1
    <3>2. CASE q # r
      BY <1>1, <1>2, <1>3, <3>2 DEF SearchInv, JournalInv
    <3> QED
      BY <3>1, <3>2
  <2> QED
    BY <2>1, <2>2 DEF JournalInv
<1>8. \A a \in Actors : Granted(a)' \subseteq Granted(a)
  BY <1>1, <1>2 DEF Granted
<1> QED
  BY <1>1, <1>5, <1>6, <1>7, <1>8, FewerGranted DEF SearchInv, RequestTypes

\* The commit, whose answer may be lost: the row of the request joins the journal.
LEMMA CommitInv ==
  ASSUME SearchInv, NEW r \in Requests, NEW label,
         pc[r] = "commit", pc' = [pc EXCEPT ![r] = label],
         label \in IF commitFirst THEN {"answer", "failed"} ELSE {"answered", "unconfirmed"},
         audit' = audit \cup pending[r],
         pending' = [pending EXCEPT ![r] = {}],
         UNCHANGED <<ask, consumed, looked, matches, commitFirst>>
  PROVE  SearchInv'
<1>1. /\ label \in {"answer", "failed", "answered", "unconfirmed"}
      /\ commitFirst => label \in {"answer", "failed"}
      /\ ~commitFirst => label \in {"answered", "unconfirmed"}
  OBVIOUS
<1>2. /\ pc \in [Requests -> Running \cup Ended] /\ label \in Running \cup Ended
      /\ pending = [q \in Requests |-> pending[q]] /\ commitFirst \in BOOLEAN
  BY DEF SearchInv, RequestTypes, Running, Ended
<1>3. \A q \in Requests : Row(q)' = Row(q)
  BY <1>1 DEF Row
<1>4. pending[r] = {Row(r)} /\ r \in looked
  BY <1>1 DEF SearchInv, JournalInv, LookedInv
<1>5. RequestTypes'
  BY <1>1, <1>2 DEF SearchInv, RequestTypes
<1>6. LookedInv'
  BY <1>1, <1>2, <1>4 DEF SearchInv, LookedInv
<1>7. JournalInv'
  <2>1. ASSUME NEW row \in audit'
        PROVE  /\ row.request \in Requests /\ row = Row(row.request)'
               /\ pc'[row.request] \in {"answered", "failed", "unconfirmed"} \/ (pc'[row.request] = "answer" /\ commitFirst')
               /\ row.request \in looked'
    <3>1. CASE row = Row(r)
      <4>1. row.request = r
        BY <3>1 DEF Row
      <4> QED
        BY <1>1, <1>2, <1>3, <1>4, <3>1, <4>1
    <3>2. CASE row \in audit
      <4>1. /\ row.request \in Requests /\ row = Row(row.request)
            /\ pc[row.request] \in {"answered", "failed", "unconfirmed"} \/ (pc[row.request] = "answer" /\ commitFirst)
            /\ row.request \in looked
        BY <3>2 DEF SearchInv, JournalInv
      <4>2. row.request # r
        BY <1>1, <4>1
      <4> QED
        BY <1>1, <1>2, <1>3, <4>1, <4>2
    <3> QED
      BY <1>1, <1>4, <2>1, <3>1, <3>2
  <2>2. ASSUME NEW q \in Requests
        PROVE  /\ pc'[q] \in {"sign", "commit"} \/ (pc'[q] = "answer" /\ ~commitFirst')
                    => pending'[q] = {Row(q)'}
               /\ commitFirst' /\ pc'[q] \in {"answer", "answered"} => Row(q)' \in audit'
               /\ commitFirst' => pc'[q] # "unconfirmed"
    <3>1. CASE q = r
      BY <1>1, <1>2, <1>3, <1>4, <3>1
    <3>2. CASE q # r
      BY <1>1, <1>2, <1>3, <3>2 DEF SearchInv, JournalInv
    <3> QED
      BY <3>1, <3>2
  <2> QED
    BY <2>1, <2>2 DEF JournalInv
<1>8. \A a \in Actors : Granted(a)' \subseteq Granted(a)
  BY <1>1, <1>2 DEF Granted
<1> QED
  BY <1>1, <1>5, <1>6, <1>7, <1>8, FewerGranted DEF SearchInv, RequestTypes

\* A step that touches no request keeps the invariant.
LEMMA StutterInv ==
  ASSUME SearchInv, UNCHANGED <<pc, ask, consumed, looked, matches, pending, audit, commitFirst>>
  PROVE  SearchInv'
<1>1. \A q \in Requests : Row(q)' = Row(q)
  BY DEF Row
<1>2. RequestTypes' /\ LookedInv'
  BY DEF SearchInv, RequestTypes, LookedInv
<1>3. JournalInv'
  <2>1. ASSUME NEW row \in audit'
        PROVE  /\ row.request \in Requests /\ row = Row(row.request)'
               /\ pc'[row.request] \in {"answered", "failed", "unconfirmed"} \/ (pc'[row.request] = "answer" /\ commitFirst')
               /\ row.request \in looked'
    BY <1>1, <2>1 DEF SearchInv, JournalInv
  <2> QED
    BY <1>1, <2>1 DEF SearchInv, JournalInv
<1>4. \A a \in Actors : Granted(a)' \subseteq Granted(a)
  BY DEF Granted
<1> QED
  BY <1>2, <1>3, <1>4, FewerGranted DEF SearchInv, RequestTypes

\* Every step preserves the invariant: one case per action.
LEMMA NextSearchInv == SearchInv /\ [Next]_vars => SearchInv'
<1> SUFFICES ASSUME SearchInv, [Next]_vars PROVE SearchInv'
  OBVIOUS
<1>1. CASE \E r \in Requests, q \in Queries : Receive(r, q) \/ DetectQueryFaces(r, q)
  BY <1>1, ReceiveInv
<1>2. CASE \E r \in Requests : Consume(r)
  BY <1>2, ConsumeInv
<1>3. ASSUME NEW r \in Requests, Select(r) PROVE SearchInv'
  <2>1. Resolution(ask[r]) \in {"failed", "409", "422", "look"}
    BY DEF Resolution
  <2> QED
    BY <1>3, <2>1, MovedInv DEF Select, GoTo, database, result, frame
<1>4. CASE \E r \in Requests : Look(r)
  BY <1>4, LookInv
<1>5. CASE \E r \in Requests : Load(r)
  BY <1>5, LoadInv
<1>6. ASSUME NEW r \in Requests, Sign(r) \/ Answer(r) PROVE SearchInv'
  BY <1>6, MovedInv DEF Sign, Answer, GoTo, result, frame
<1>7. CASE \E r \in Requests : Commit(r)
  BY <1>7, CommitInv DEF Commit, GoTo, frame
<1>8. ASSUME NEW r \in Requests, Fails(r) PROVE SearchInv'
  <2>1. CASE UNCHANGED audit
    BY <1>8, <2>1, MovedInv DEF Fails, GoTo
  <2>2. CASE pc[r] = "commit" /\ audit' = audit \cup pending[r]
    BY <1>8, <2>2, CommitInv DEF Fails, GoTo
  <2> QED
    BY <1>8, <2>1, <2>2 DEF Fails
<1>9. CASE (\E f \in Faces : Index(f)) \/ (\E e \in Events : DeleteEvent(e)) \/ UNCHANGED vars
  BY <1>9, StutterInv DEF Index, DeleteEvent, vars, result, frame
<1> QED
  BY <1>1, <1>2, <1>3, <1>4, <1>5, <1>6, <1>7, <1>8, <1>9 DEF Next

-----------------------------------------------------------------------------
\* No answer without its row when the session ends first, no row that is not
\* that of a search of the index and of its result (AnswersAreJournaled).
THEOREM JournalIsFaithful == Spec => []AnswersAreJournaled
<1>1. SearchInv => AnswersAreJournaled
  <2> SUFFICES ASSUME SearchInv PROVE AnswersAreJournaled
    OBVIOUS
  <2>1. ASSUME commitFirst, NEW r \in Requests, Told(r)
        PROVE  \E row \in audit : row.request = r
    <3>1. Row(r) \in audit
      BY <2>1 DEF SearchInv, JournalInv, Told
    <3> QED
      BY <3>1 DEF Row
  <2>2. ASSUME NEW row \in audit
        PROVE  LET m == matches[row.request] IN
               /\ row.request \in looked
               /\ row.count = Len(m)
               /\ row.top = IF m = <<>> THEN None ELSE m[1].confidence
    BY <2>2 DEF SearchInv, JournalInv, Row
  <2> QED
    BY <2>1, <2>2 DEF AnswersAreJournaled
<1> QED
  BY <1>1, InitSearchInv, NextSearchInv, PTL DEF Spec

\* No search of the index escapes the quota, whatever fails afterwards
\* (LooksAreCounted).
THEOREM NoFreeLook == Spec => []LooksAreCounted
<1>1. SearchInv => LooksAreCounted
  <2> SUFFICES ASSUME SearchInv, NEW a \in Actors
               PROVE  LET looks == Cardinality({r \in Requests : ask[r].actor = a /\ r \in looked})
                      IN looks <= Quota /\ looks <= consumed[a]
    BY DEF LooksAreCounted
  <2> DEFINE L == {r \in Requests : ask[r].actor = a /\ r \in looked}
  <2>1. L \subseteq Granted(a)
    BY DEF Granted
  <2>2. Cardinality(L) <= Cardinality(Granted(a)) /\ Cardinality(L) \in Nat
    BY <2>1, GrantedFinite, FS_Subset, FS_CardinalityType
  <2>3. /\ Cardinality(Granted(a)) <= consumed[a] /\ Cardinality(Granted(a)) <= Quota
        /\ Cardinality(Granted(a)) \in Nat /\ consumed[a] \in Nat /\ Quota \in Nat
    BY GrantedFinite, SearchAssumption DEF SearchInv, CountInv, RequestTypes
  <2> QED
    BY <2>2, <2>3
<1> QED
  BY <1>1, InitSearchInv, NextSearchInv, PTL DEF Spec
-----------------------------------------------------------------------------
(* The grouping of the faces found by event.                               *)

\* Hits of a search whose photo showed a face to search for.
WellFound(q, found) ==
  /\ QueryFace(q) \in QueryFaces
  /\ DOMAIN found \subseteq 1..TopK
  /\ \A i \in DOMAIN found : found[i] \in Faces

\* Likenesses are numbers.
LEMMA LikenessType ==
  ASSUME NEW q, NEW found, WellFound(q, found), NEW i \in DOMAIN found
  PROVE  Likeness(q, found[i]) \in Int /\ EventOf[found[i]] \in Events /\ i \in 1..TopK
BY SearchAssumption DEF WellFound, Likeness

\* The faces of an event that was found, the first of them and the best one.
LEMMA GroupProperties ==
  ASSUME NEW q, NEW found, WellFound(q, found), NEW e \in EventsOf(found)
  PROVE  /\ Of(e, found) \subseteq DOMAIN found
         /\ Cardinality(Of(e, found)) \in 1..TopK
         /\ FirstOf(e, found) \in Of(e, found)
         /\ BestOf(q, Of(e, found), found) \in Of(e, found)
         /\ \A j \in Of(e, found) :
              Likeness(q, found[j]) <= Likeness(q, found[BestOf(q, Of(e, found), found)])
<1> DEFINE G == Of(e, found)
<1>1. G \subseteq DOMAIN found /\ G # {} /\ G \subseteq 1..TopK
  BY DEF Of, EventsOf, WellFound
<1>2. TopK \in Nat /\ \A i \in G : i \in Int /\ Likeness(q, found[i]) \in Int
  BY <1>1, LikenessType, SearchAssumption
<1> HIDE DEF G
<1>3. IsFiniteSet(G) /\ Cardinality(G) \in 1..TopK
  <2>1. IsFiniteSet(1..TopK) /\ Cardinality(1..TopK) = IF 1 > TopK THEN 0 ELSE TopK - 1 + 1
    BY <1>2, FS_Interval
  <2>2. IsFiniteSet(G) /\ Cardinality(G) <= Cardinality(1..TopK)
    BY <1>1, <2>1, FS_Subset
  <2>3. Cardinality(G) \in Nat /\ Cardinality(G) # 0
    BY <1>1, <2>2, FS_CardinalityType, FS_EmptySet
  <2> QED
    BY <1>2, <2>1, <2>2, <2>3
<1>4. \E i \in G : \A j \in G : i <= j
  <2> DEFINE R == {p \in G \X G : p[1] < p[2]}
  <2>1. \A i, j \in G : <<i, j>> \in R <=> i < j
    OBVIOUS
  <2>2. StrictTotalOrder(G, R)
    <3> HIDE DEF R
    <3> QED
      BY <1>2, <2>1 DEF StrictTotalOrder
  <2> HIDE DEF R
  <2>3. \E i \in G : \A j \in G : i = j \/ <<i, j>> \in R
    BY <1>1, <1>3, <2>2, LeastElement
  <2>4. ASSUME NEW i \in G, \A j \in G : i = j \/ <<i, j>> \in R
        PROVE  \A j \in G : i <= j
    <3>1. TAKE j \in G
    <3>2. i \in Int /\ j \in Int /\ (i = j \/ i < j)
      BY <1>2, <2>1, <2>4
    <3> QED
      BY <3>2
  <2> QED
    BY <2>3, <2>4
<1> DEFINE Better(i, j) ==
      \/ Likeness(q, found[i]) > Likeness(q, found[j])
      \/ Likeness(q, found[i]) = Likeness(q, found[j]) /\ i <= j
<1>5. \E i \in G : \A j \in G : Better(i, j)
  <2> DEFINE R == {p \in G \X G : Better(p[1], p[2]) /\ p[1] # p[2]}
  <2>1. \A i, j \in G : <<i, j>> \in R <=> Better(i, j) /\ i # j
    OBVIOUS
  <2>2. StrictTotalOrder(G, R)
    <3>1. \A x, y, z \in G : Better(x, y) /\ Better(y, z) => Better(x, z)
      <4> DEFINE l(i) == Likeness(q, found[i])
      <4>1. TAKE x, y, z \in G
      <4>2. l(x) \in Int /\ l(y) \in Int /\ l(z) \in Int /\ x \in Int /\ y \in Int /\ z \in Int
        BY <1>2
      <4> HIDE DEF l
      <4>3. (l(x) > l(y) \/ (l(x) = l(y) /\ x <= y)) /\ (l(y) > l(z) \/ (l(y) = l(z) /\ y <= z))
              => l(x) > l(z) \/ (l(x) = l(z) /\ x <= z)
        BY <4>2
      <4> QED
        BY <4>3 DEF l
    <3>2. \A x, y \in G : Better(x, y) \/ Better(y, x)
      BY <1>2
    <3>3. \A x, y \in G : Better(x, y) /\ Better(y, x) => x = y
      BY <1>2
    <3> HIDE DEF R, Better
    <3>4. \A x \in G : <<x, x>> \notin R
      BY <2>1
    <3>5. \A x, y, z \in G : <<x, y>> \in R /\ <<y, z>> \in R => <<x, z>> \in R
      <4>1. TAKE x, y, z \in G
      <4>2. HAVE <<x, y>> \in R /\ <<y, z>> \in R
      <4>3. Better(x, y) /\ Better(y, z) /\ x # y
        BY <2>1, <4>2
      <4>4. Better(x, z) /\ x # z
        BY <3>1, <3>3, <4>3
      <4> QED
        BY <2>1, <4>4
    <3>6. \A x, y \in G : x = y \/ <<x, y>> \in R \/ <<y, x>> \in R
      BY <2>1, <3>2
    <3> QED
      BY <3>4, <3>5, <3>6 DEF StrictTotalOrder
  <2> HIDE DEF R
  <2>3. \E i \in G : \A j \in G : i = j \/ <<i, j>> \in R
    BY <1>1, <1>3, <2>2, LeastElement
  <2>4. ASSUME NEW i \in G, \A j \in G : i = j \/ <<i, j>> \in R
        PROVE  \A j \in G : Better(i, j)
    <3>1. TAKE j \in G
    <3>2. i = j \/ Better(i, j)
      BY <2>1, <2>4
    <3>3. Better(i, i)
      BY <1>2
    <3> QED
      BY <3>2, <3>3
  <2> QED
    BY <2>3, <2>4
<1>6. FirstOf(e, found) \in G
  BY <1>4 DEF FirstOf, G
<1>7. BestOf(q, G, found) \in G /\ \A j \in G : Better(BestOf(q, G, found), j)
  BY <1>5 DEF BestOf
<1>8. \A j \in G : Likeness(q, found[j]) <= Likeness(q, found[BestOf(q, G, found)])
  <2>1. TAKE j \in G
  <2>2. Better(BestOf(q, G, found), j)
    BY <1>7
  <2>3. Likeness(q, found[j]) \in Int /\ Likeness(q, found[BestOf(q, G, found)]) \in Int
    BY <1>2, <1>7
  <2> QED
    BY <2>2, <2>3
<1> QED
  BY <1>1, <1>3, <1>6, <1>7, <1>8 DEF G

\* The match of an event that was found is a match.
LEMMA MatchType ==
  ASSUME NEW q, NEW found, WellFound(q, found), NEW e \in EventsOf(found)
  PROVE  /\ e \in Events
         /\ MatchOf(q, e, found) \in Matches
         /\ MatchOf(q, e, found).event = e
         /\ MatchOf(q, e, found).count = Cardinality(Of(e, found))
         /\ MatchOf(q, e, found).evidence = found[BestOf(q, Of(e, found), found)]
         /\ MatchOf(q, e, found).confidence
              = Likeness(q, found[BestOf(q, Of(e, found), found)]) + Bonus[Cardinality(Of(e, found))]
<1>1. PICK G : G = Of(e, found)
  OBVIOUS
<1>2. PICK b : b = BestOf(q, G, found)
  OBVIOUS
<1>3. PICK n : n = Cardinality(G)
  OBVIOUS
<1>4. b \in DOMAIN found /\ n \in 1..TopK
  BY <1>1, <1>2, <1>3, GroupProperties
<1>5. e \in Events
  BY LikenessType DEF EventsOf
<1>6. Likeness(q, found[b]) \in Int /\ found[b] \in Faces
  BY <1>4, LikenessType DEF WellFound
<1>7. Bonus[n] \in Int /\ n \in Nat \ {0}
  BY <1>4, SearchAssumption
<1>8. PICK c : c = Likeness(q, found[b]) + Bonus[n]
  OBVIOUS
<1>9. c \in Int
  BY <1>6, <1>7, <1>8
<1>10. MatchOf(q, e, found) = [event |-> e, count |-> n, evidence |-> found[b], confidence |-> c]
  BY <1>1, <1>2, <1>3, <1>8 DEF MatchOf
<1>11. MatchOf(q, e, found) \in Matches
  BY <1>5, <1>6, <1>7, <1>9, <1>10 DEF Matches
<1> QED
  BY <1>1, <1>2, <1>3, <1>5, <1>8, <1>10, <1>11

\* The events found, as the sort orders them.
RankOrder(q, found) ==
  {p \in EventsOf(found) \X EventsOf(found) : Outranks(q, p[1], p[2], found)}

LEMMA RankOrderTotal ==
  ASSUME NEW q, NEW found, WellFound(q, found)
  PROVE  /\ IsFiniteSet(EventsOf(found))
         /\ Cardinality(EventsOf(found)) \in Nat
         /\ StrictTotalOrder(EventsOf(found), RankOrder(q, found))
         /\ \A e \in EventsOf(found) : Rank(q, e, found) = Place(e, EventsOf(found), RankOrder(q, found))
<1> DEFINE S == EventsOf(found)
           R == RankOrder(q, found)
           c(e) == MatchOf(q, e, found).confidence
           i(e) == FirstOf(e, found)
<1>1. \A e \in S : i(e) \in Of(e, found) /\ i(e) \in 1..TopK /\ EventOf[found[i(e)]] = e
  <2>1. TAKE e \in S
  <2>2. i(e) \in Of(e, found)
    BY GroupProperties
  <2>3. i(e) \in DOMAIN found /\ EventOf[found[i(e)]] = e
    BY <2>2 DEF Of
  <2> QED
    BY <2>2, <2>3 DEF WellFound
<1>2. \A e \in S : c(e) \in Int /\ i(e) \in Int
  BY <1>1, MatchType, SearchAssumption DEF Matches
<1>3. \A d, e \in S : i(d) = i(e) => d = e
  BY <1>1
<1>4. \A d, e \in S : <<d, e>> \in R <=> c(d) > c(e) \/ (c(d) = c(e) /\ i(d) < i(e))
  BY DEF RankOrder, Outranks
<1>5. IsFiniteSet(S) /\ Cardinality(S) \in Nat
  <2>1. [e \in S |-> i(e)] \in Injection(S, 1..TopK)
    <3> HIDE DEF S, i
    <3> QED
      BY <1>1, <1>3 DEF Injection, IsInjective
  <2>2. IsFiniteSet(1..TopK)
    BY FS_Interval, SearchAssumption
  <2>3. IsFiniteSet(S)
    BY <2>1, <2>2, FS_Injection
  <2> QED
    BY <2>3, FS_CardinalityType
<1>6. StrictTotalOrder(S, R)
  <2> HIDE DEF S, R, c, i
  <2>1. \A e \in S : <<e, e>> \notin R
    BY <1>2, <1>4
  <2>2. \A x, y, z \in S : <<x, y>> \in R /\ <<y, z>> \in R => <<x, z>> \in R
    <3>1. TAKE x, y, z \in S
    <3>2. /\ c(x) \in Int /\ c(y) \in Int /\ c(z) \in Int
          /\ i(x) \in Int /\ i(y) \in Int /\ i(z) \in Int
      BY <1>2
    <3>3. (c(x) > c(y) \/ (c(x) = c(y) /\ i(x) < i(y))) /\ (c(y) > c(z) \/ (c(y) = c(z) /\ i(y) < i(z)))
            => c(x) > c(z) \/ (c(x) = c(z) /\ i(x) < i(z))
      BY <3>2
    <3> QED
      BY <1>4, <3>3
  <2>3. \A x, y \in S : x = y \/ <<x, y>> \in R \/ <<y, x>> \in R
    <3>1. TAKE x, y \in S
    <3>2. c(x) \in Int /\ c(y) \in Int /\ i(x) \in Int /\ i(y) \in Int
      BY <1>2
    <3>3. \/ c(x) > c(y) \/ (c(x) = c(y) /\ i(x) < i(y))
          \/ c(y) > c(x) \/ (c(y) = c(x) /\ i(y) < i(x))
          \/ i(x) = i(y)
      BY <3>2
    <3> QED
      BY <1>3, <1>4, <3>3
  <2> QED
    BY <2>1, <2>2, <2>3 DEF StrictTotalOrder
<1>7. \A e \in S : Rank(q, e, found) = Place(e, S, R)
  <2>1. TAKE e \in S
  <2>2. {d \in S : Outranks(q, d, e, found)} = Below(e, S, R)
    BY DEF Below, RankOrder
  <2> QED
    BY <2>2 DEF Rank, Place
<1> QED
  BY <1>5, <1>6, <1>7

\* Every rank is that of one event found, and the ranks follow the order.
LEMMA RankProperties ==
  ASSUME NEW q, NEW found, WellFound(q, found)
  PROVE  /\ \A e \in EventsOf(found) :
              /\ Rank(q, e, found) \in 1..Cardinality(EventsOf(found))
              /\ EventAt(q, Rank(q, e, found), found) = e
         /\ \A n \in 1..Cardinality(EventsOf(found)) :
              EventAt(q, n, found) \in EventsOf(found) /\ Rank(q, EventAt(q, n, found), found) = n
         /\ \A d, e \in EventsOf(found) :
              Rank(q, d, found) < Rank(q, e, found) => Outranks(q, d, e, found)
<1>1. PICK S : S = EventsOf(found)
  OBVIOUS
<1>2. PICK R : R = RankOrder(q, found)
  OBVIOUS
<1>3. IsFiniteSet(S) /\ StrictTotalOrder(S, R) /\ \A e \in S : Rank(q, e, found) = Place(e, S, R)
  BY <1>1, <1>2, RankOrderTotal
<1>4. \A e \in S : Rank(q, e, found) \in 1..Cardinality(S)
  BY <1>3, BelowFinite
<1>5. /\ \A n \in 1..Cardinality(S) : \E e \in S : Rank(q, e, found) = n
      /\ \A d, e \in S : Rank(q, d, found) = Rank(q, e, found) => d = e
      /\ \A d, e \in S : Rank(q, d, found) < Rank(q, e, found) => <<d, e>> \in R
  BY <1>3, PlacesTaken
<1>6. \A n \in 1..Cardinality(S) : EventAt(q, n, found) \in S /\ Rank(q, EventAt(q, n, found), found) = n
  BY <1>1, <1>5 DEF EventAt
<1>7. \A e \in S : EventAt(q, Rank(q, e, found), found) = e
  BY <1>4, <1>5, <1>6
<1>8. \A d, e \in S : Rank(q, d, found) < Rank(q, e, found) => Outranks(q, d, e, found)
  BY <1>1, <1>2, <1>5 DEF RankOrder
<1> QED
  BY <1>1, <1>4, <1>6, <1>7, <1>8

\* The result: the matches of the events in the order of their ranks, as far as
\* the slice goes.
LEMMA RankedProperties ==
  ASSUME NEW q \in Queries, NEW found, WellFound(q, found)
  PROVE  /\ Ranked(q, found) \in Seq(Matches)
         /\ Len(Ranked(q, found)) \in 0..Cardinality(EventsOf(found))
         /\ \A n \in 1..Len(Ranked(q, found)) :
              Ranked(q, found)[n] = MatchOf(q, EventAt(q, n, found), found)
         /\ q.limit >= 0 /\ Len(Ranked(q, found)) < Cardinality(EventsOf(found))
              => Len(Ranked(q, found)) = Limit(q)
<1>1. PICK N : N = Cardinality(EventsOf(found))
  OBVIOUS
<1>2. PICK s : s = Aggregate(q, found)
  OBVIOUS
<1>3. N \in Nat
  BY <1>1, RankOrderTotal
<1>4. s = [n \in 1..N |-> MatchOf(q, EventAt(q, n, found), found)]
  BY <1>1, <1>2 DEF Aggregate
<1>5. \A n \in 1..N : s[n] \in Matches
  BY <1>1, <1>4, RankProperties, MatchType
<1>6. s \in Seq(Matches) /\ Len(s) = N
  <2>1. s \in [1..N -> Matches]
    BY <1>4, <1>5
  <2> QED
    BY <1>3, <2>1, SeqDef, LenProperties
<1>7. Limit(q) \in Int /\ (q.limit >= 0 => Limit(q) >= 0)
  BY SearchAssumption DEF Limit
<1> DEFINE end == IF Limit(q) >= 0 THEN Limit(q) ELSE N + Limit(q)
           cut == IF end < N THEN end ELSE N
<1>8. Ranked(q, found) = SubSeq(s, 1, cut)
  BY <1>2, <1>6 DEF Ranked, Slice
<1>9. cut \in Int /\ cut <= N /\ (q.limit >= 0 /\ cut < N => cut = Limit(q))
                  /\ (q.limit >= 0 => cut >= 0)
  BY <1>3, <1>7
<1>10. PICK L : L = IF 1 <= cut THEN cut - 1 + 1 ELSE 0
  OBVIOUS
<1> HIDE DEF cut, end
<1>11. L \in Nat /\ L <= N /\ (1 <= cut => L = cut) /\ (cut < 1 => L = 0)
  BY <1>3, <1>9, <1>10
<1>12. /\ SubSeq(s, 1, cut) \in Seq(Matches)
       /\ Len(SubSeq(s, 1, cut)) = L
       /\ \A i \in 1..cut : SubSeq(s, 1, cut)[i] = s[i]
  <2>1. \A i \in 1..cut : s[i] \in Matches
    BY <1>3, <1>5, <1>9
  <2>2. /\ SubSeq(s, 1, cut) \in Seq(Matches)
        /\ Len(SubSeq(s, 1, cut)) = IF 1 <= cut THEN cut - 1 + 1 ELSE 0
        /\ \A i \in 1..(cut - 1 + 1) : SubSeq(s, 1, cut)[i] = s[1 + i - 1]
    BY <1>9, <2>1, SubSeqProperties
  <2>3. \A i \in 1..cut : i \in 1..(cut - 1 + 1) /\ 1 + i - 1 = i
    BY <1>9
  <2> QED
    BY <1>10, <2>2, <2>3
<1>13. \A i \in 1..L : i \in 1..cut /\ i \in 1..N
  BY <1>3, <1>9, <1>11
<1>14. q.limit >= 0 /\ L < N => L = Limit(q)
  BY <1>3, <1>9, <1>11, SearchAssumption
<1> QED
  BY <1>1, <1>3, <1>4, <1>8, <1>11, <1>12, <1>13, <1>14

-----------------------------------------------------------------------------
(* What the results hold: the types and the invariant about the results.   *)

\* A search that looks has chosen one of the faces of its photo.
LEMMA FaceChosen ==
  ASSUME NEW q \in Queries, Resolution(q) = "look"
  PROVE  QueryFace(q) \in QueryFaces
<1>1. /\ q.faces \in Seq(QueryFaces) /\ Len(q.faces) \in Nat
      /\ q.index \in Int \cup {None} /\ None \notin Int
  BY SearchAssumption
<1>2. q.readable /\ q.faces # <<>>
  BY DEF Resolution
<1>3. Len(q.faces) # 0
  BY <1>1, <1>2, EmptySeq
<1>4. CASE q.index = None
  <2>1. Selected(q) \in 1..Len(q.faces)
    BY <1>1, <1>3, <1>4 DEF Selected
  <2> QED
    BY <1>1, <2>1, ElementOfSeq DEF QueryFace
<1>5. CASE q.index # None
  <2>1. q.index \in 0..(Len(q.faces) - 1)
    BY <1>1, <1>2, <1>5 DEF Resolution
  <2>2. Selected(q) \in 1..Len(q.faces)
    BY <1>1, <1>5, <2>1 DEF Selected
  <2> QED
    BY <1>1, <2>2, ElementOfSeq DEF QueryFace
<1> QED
  BY <1>4, <1>5

\* What the filter keeps of the hits of a search.
LEMMA CandidatesFound ==
  ASSUME NEW q \in Queries, Resolution(q) = "look",
         NEW hit \in Seq(Faces), Len(hit) <= TopK, NEW present
  PROVE  LET found == Candidates(q, hit, present) IN
         /\ WellFound(q, found)
         /\ \A k \in DOMAIN found :
              /\ k \in DOMAIN hit /\ found[k] = hit[k]
              /\ Likeness(q, found[k]) >= Threshold(q) /\ EventOf[found[k]] \in present
<1>1. PICK found : found = Candidates(q, hit, present)
  OBVIOUS
<1>2. \A k \in DOMAIN found :
        /\ k \in DOMAIN hit /\ found[k] = hit[k]
        /\ Likeness(q, found[k]) >= Threshold(q) /\ EventOf[found[k]] \in present
  BY <1>1 DEF Candidates
<1>3. Len(hit) \in Nat /\ DOMAIN hit = 1..Len(hit) /\ \A k \in DOMAIN hit : hit[k] \in Faces
  BY LenProperties, ElementOfSeq
<1>4. TopK \in Nat
  BY SearchAssumption
<1>5. DOMAIN found \subseteq 1..TopK
  BY <1>2, <1>3, <1>4
<1>6. WellFound(q, found)
  BY <1>2, <1>3, <1>5, FaceChosen DEF WellFound
<1> QED
  BY <1>1, <1>2, <1>6

\* The hits are few rows of face_embeddings that the WHERE lets through.
LEMMA RankingsFound ==
  ASSUME TypeOK, IsFiniteSet(stored), NEW q \in Queries, NEW s \in Rankings(q)
  PROVE  /\ s \in Seq(Faces) /\ Len(s) <= TopK
         /\ \A i \in DOMAIN s : VersionOf[s[i]] = Version /\ InDates(q, EventOf[s[i]])
<1>1. PICK S \in SUBSET Eligible(q) : Cardinality(S) <= TopK /\ s \in [1..Cardinality(S) -> S]
  BY DEF Rankings
<1>2. PICK n : n = Cardinality(S)
  OBVIOUS
<1>3. S \subseteq stored /\ S \subseteq Faces
  BY DEF Eligible, TypeOK
<1>4. n \in Nat
  BY <1>2, <1>3, FS_Subset, FS_CardinalityType
<1>5. s \in [1..n -> Faces] /\ n <= TopK
  BY <1>1, <1>2, <1>3
<1>6. s \in Seq(Faces)
  BY <1>4, <1>5, SeqDef
<1>7. Len(s) = n
  BY <1>4, <1>5, <1>6, LenProperties
<1>8. \A i \in DOMAIN s : s[i] \in Eligible(q)
  BY <1>1
<1> QED
  BY <1>5, <1>6, <1>7, <1>8 DEF Eligible

\* A request that a step leaves alone, or only moves to a later label, stays coherent.
LEMMA StillCoherent ==
  ASSUME NEW r \in Requests, Coherent(r),
         UNCHANGED <<hits[r], known[r], matches[r]>>,
         \/ UNCHANGED <<pc[r], ask[r]>>
         \/ UNCHANGED ask[r]
            /\ pc'[r] \notin {"new", "consume", "select", "look", "load"}
         \/ pc[r] \in {"new", "consume"} /\ pc'[r] \notin {"look", "load"}
         \/ UNCHANGED ask[r] /\ pc[r] = "select" /\ pc'[r] = "look" /\ Resolution(ask[r]) = "look"
  PROVE  Coherent(r)'
<1>1. CASE UNCHANGED ask[r]
  BY <1>1 DEF Coherent, HitsInv, Loaded, Kept
<1>2. CASE pc[r] \in {"new", "consume"} /\ pc'[r] \notin {"look", "load"}
  <2>1. hits'[r] = <<>> /\ known'[r] = {} /\ matches'[r] = <<>>
    BY <1>2 DEF Coherent
  <2>2. HitsInv(r)'
    BY <2>1, SearchAssumption DEF HitsInv
  <2> QED
    BY <1>2, <2>1, <2>2 DEF Coherent
<1> QED
  BY <1>1, <1>2

\* An initial state has no result.
LEMMA InitResultInv == Init => TypeOK /\ ResultInv
<1> SUFFICES ASSUME Init PROVE TypeOK /\ ResultInv
  OBVIOUS
<1>1. TypeOK
  <2>1. (CHOOSE q \in Queries : TRUE) \in Queries
    BY SearchAssumption
  <2>2. <<>> \in Seq(Faces) /\ <<>> \in Seq(Matches) /\ 0 \in 0..MaxFailures
    BY EmptySeq, SearchAssumption
  <2> QED
    BY <2>1, <2>2 DEF Init, TypeOK, Ended
<1>2. ASSUME NEW r \in Requests PROVE Coherent(r)
  <2>1. hits[r] = <<>> /\ known[r] = {} /\ matches[r] = <<>> /\ pc[r] = "new"
    BY DEF Init
  <2>2. HitsInv(r)
    BY <2>1, SearchAssumption DEF HitsInv
  <2> QED
    BY <2>1, <2>2 DEF Coherent
<1>3. IsFiniteSet(stored)
  BY FS_EmptySet DEF Init
<1> QED
  BY <1>1, <1>2, <1>3 DEF ResultInv

\* The steps that compute nothing: they move a request, and journal or drop what is pending.
LEMMA PlainStep ==
  ASSUME TypeOK, ResultInv, NEW r \in Requests, NEW label \in Running \cup Ended,
         pc' = [pc EXCEPT ![r] = label],
         UNCHANGED <<database, hits, looked, known, matches, commitFirst>>,
         ask' \in [Requests -> Queries], \A o \in Requests \ {r} : ask'[o] = ask[o],
         consumed' \in [Actors -> Nat], audit' \subseteq AuditRows,
         pending' \in [Requests -> SUBSET AuditRows], failures' \in 0..MaxFailures,
         \/ UNCHANGED ask /\ label \notin {"new", "consume", "select", "look", "load"}
         \/ pc[r] \in {"new", "consume"} /\ label \notin {"look", "load"}
         \/ UNCHANGED ask /\ pc[r] = "select" /\ label = "look" /\ Resolution(ask[r]) = "look"
  PROVE  TypeOK' /\ ResultInv'
<1>1. TypeOK'
  BY DEF TypeOK, database
<1>2. ASSUME NEW o \in Requests PROVE Coherent(o)'
  <2>1. pc'[o] = (IF o = r THEN label ELSE pc[o]) /\ Coherent(o)
    BY DEF TypeOK, ResultInv
  <2> QED
    BY <2>1, StillCoherent
<1> QED
  BY <1>1, <1>2 DEF ResultInv, database

\* The search of the index.
LEMMA LookResult ==
  ASSUME TypeOK, ResultInv, NEW r \in Requests, Look(r)
  PROVE  TypeOK' /\ ResultInv'
<1>1. PICK s \in Rankings(ask[r]) : hits' = [hits EXCEPT ![r] = s]
  BY DEF Look
<1>2. /\ pc[r] = "look" /\ pc' = [pc EXCEPT ![r] = "load"]
      /\ looked' = looked \cup {r}
      /\ UNCHANGED <<events, stored, consumed, audit, ask, known, matches, pending, failures, commitFirst>>
  BY DEF Look, GoTo, database, frame
<1>3. ask[r] \in Queries
  BY DEF TypeOK
<1>4. /\ s \in Seq(Faces) /\ Len(s) <= TopK
      /\ \A i \in DOMAIN s : VersionOf[s[i]] = Version /\ InDates(ask[r], EventOf[s[i]])
  BY <1>3, RankingsFound DEF ResultInv
<1>5. TypeOK'
  BY <1>1, <1>2, <1>4 DEF TypeOK, Running
<1>6. ASSUME NEW o \in Requests PROVE Coherent(o)'
  <2>1. CASE o = r
    <3>1. hits'[r] = s /\ pc'[r] = "load"
      BY <1>1, <1>2 DEF TypeOK
    <3>2. HitsInv(r)'
      BY <1>2, <1>4, <3>1 DEF HitsInv
    <3>3. known[r] = {} /\ matches[r] = <<>> /\ Resolution(ask[r]) = "look"
      BY <1>2 DEF ResultInv, Coherent
    <3> QED
      BY <1>2, <2>1, <3>1, <3>2, <3>3 DEF Coherent
  <2>2. CASE o # r
    <3>1. hits'[o] = hits[o] /\ pc'[o] = pc[o] /\ Coherent(o)
      BY <1>1, <1>2, <2>2 DEF TypeOK, ResultInv
    <3> QED
      BY <1>2, <3>1, StillCoherent
  <2> QED
    BY <2>1, <2>2
<1> QED
  BY <1>2, <1>5, <1>6 DEF ResultInv

\* The result is that of the hits and of the events that exist at that instant.
LEMMA LoadResult ==
  ASSUME TypeOK, ResultInv, NEW r \in Requests, Load(r)
  PROVE  TypeOK' /\ ResultInv'
<1>1. PICK found : found = Candidates(ask[r], hits[r], events)
  OBVIOUS
<1>2. PICK m : m = Ranked(ask[r], found)
  OBVIOUS
<1>3. PICK row : row = [request |-> r, count |-> Len(m),
                        top |-> IF m = <<>> THEN None ELSE m[1].confidence]
  OBVIOUS
<1>4. /\ pc[r] = "load" /\ pc' = [pc EXCEPT ![r] = "sign"]
      /\ known' = [known EXCEPT ![r] = events]
      /\ matches' = [matches EXCEPT ![r] = m]
      /\ pending' = [pending EXCEPT ![r] = {row}]
      /\ UNCHANGED <<events, stored, consumed, audit, ask, hits, looked, failures, commitFirst>>
  BY <1>1, <1>2, <1>3 DEF Load, RecordSearch, GoTo, database, frame
<1>5. ask[r] \in Queries /\ hits[r] \in Seq(Faces) /\ Len(hits[r]) <= TopK /\ Resolution(ask[r]) = "look"
  BY <1>4 DEF TypeOK, ResultInv, Coherent, HitsInv
<1>6. WellFound(ask[r], found)
  BY <1>1, <1>5, CandidatesFound
<1>7. m \in Seq(Matches)
  BY <1>2, <1>5, <1>6, RankedProperties
<1>8. row \in AuditRows
  <2>1. Len(m) \in Nat
    BY <1>7, LenProperties
  <2>2. m # <<>> => m[1].confidence \in Int
    <3>1. HAVE m # <<>>
    <3>2. 1 \in 1..Len(m)
      BY <1>7, <2>1, <3>1, EmptySeq
    <3>3. m[1] \in Matches
      BY <1>7, <3>2, ElementOfSeq
    <3> QED
      BY <3>3 DEF Matches
  <2> QED
    BY <1>3, <2>1, <2>2 DEF AuditRows
<1>9. TypeOK'
  BY <1>4, <1>7, <1>8 DEF TypeOK, Running
<1>10. ASSUME NEW o \in Requests PROVE Coherent(o)'
  <2>1. CASE o = r
    <3>1. known'[r] = events /\ matches'[r] = m /\ pc'[r] = "sign" /\ hits'[r] = hits[r] /\ ask'[r] = ask[r]
      BY <1>4 DEF TypeOK
    <3>2. Loaded(r)'
      BY <1>1, <1>2, <1>5, <3>1 DEF Loaded, Kept
    <3>3. HitsInv(r)'
      BY <3>1 DEF HitsInv, ResultInv, Coherent
    <3> QED
      BY <2>1, <3>1, <3>2, <3>3 DEF Coherent
  <2>2. CASE o # r
    <3>1. known'[o] = known[o] /\ matches'[o] = matches[o] /\ pc'[o] = pc[o] /\ Coherent(o)
      BY <1>4, <2>2 DEF TypeOK, ResultInv
    <3> QED
      BY <1>4, <3>1, StillCoherent
  <2> QED
    BY <2>1, <2>2
<1> QED
  BY <1>4, <1>9, <1>10 DEF ResultInv

\* The steps of the others: no result changes when the tables do.
LEMMA TablesResult ==
  ASSUME TypeOK, ResultInv,
         UNCHANGED <<consumed, audit, pc, ask, result, frame>>,
         \/ \E f \in Faces : EventOf[f] \in events /\ stored' = stored \cup {f} /\ UNCHANGED events
         \/ \E e \in Events : events' = events \ {e} /\ stored' = {f \in stored : EventOf[f] # e}
         \/ UNCHANGED database
  PROVE  TypeOK' /\ ResultInv'
<1>1. /\ events' \subseteq Events /\ stored' \subseteq {f \in Faces : EventOf[f] \in events'}
  BY DEF TypeOK, database
<1>2. TypeOK'
  BY <1>1 DEF TypeOK, result, frame
<1>3. IsFiniteSet(stored')
  <2>1. IsFiniteSet(stored)
    BY DEF ResultInv
  <2>2. \A f : IsFiniteSet(stored \cup {f})
    BY <2>1, FS_AddElement
  <2>3. \A T : T \subseteq stored => IsFiniteSet(T)
    BY <2>1, FS_Subset
  <2> QED
    BY <2>2, <2>3 DEF database
<1>4. \A o \in Requests : Coherent(o)'
  BY StillCoherent DEF ResultInv, result
<1> QED
  BY <1>2, <1>3, <1>4 DEF ResultInv

\* Every step preserves the types and the invariant about the results.
LEMMA NextResultInv == TypeOK /\ ResultInv /\ [Next]_vars => TypeOK' /\ ResultInv'
<1> SUFFICES ASSUME TypeOK, ResultInv, [Next]_vars PROVE TypeOK' /\ ResultInv'
  OBVIOUS
<1>1. ASSUME NEW r \in Requests, NEW q \in Queries, Receive(r, q) \/ DetectQueryFaces(r, q)
      PROVE  TypeOK' /\ ResultInv'
  <2>1. PICK label \in {"401", "413", "consume", "faces", "failed"} :
          /\ pc[r] = "new" /\ pc' = [pc EXCEPT ![r] = label]
          /\ ask' = [ask EXCEPT ![r] = q]
    BY <1>1 DEF Receive, DetectQueryFaces, Admit, GoTo
  <2>2. UNCHANGED <<database, consumed, audit, hits, looked, known, matches, pending, failures, commitFirst>>
    BY <1>1 DEF Receive, DetectQueryFaces, result, frame
  <2>3. label \in Running \cup Ended
    BY <2>1 DEF Running, Ended, Refused
  <2>4. /\ ask' \in [Requests -> Queries] /\ \A o \in Requests \ {r} : ask'[o] = ask[o]
        /\ consumed' \in [Actors -> Nat] /\ audit' \subseteq AuditRows
        /\ pending' \in [Requests -> SUBSET AuditRows] /\ failures' \in 0..MaxFailures
    BY <2>1, <2>2 DEF TypeOK
  <2> QED
    BY <2>1, <2>2, <2>3, <2>4, PlainStep
<1>2. ASSUME NEW r \in Requests, Consume(r)
      PROVE  TypeOK' /\ ResultInv'
  <2>1. PICK label \in {"select", "429"} : pc[r] = "consume" /\ pc' = [pc EXCEPT ![r] = label]
    BY <1>2 DEF Consume, GoTo
  <2>2. /\ consumed' = [consumed EXCEPT ![ask[r].actor] = @ + 1]
        /\ UNCHANGED <<database, audit, ask, hits, looked, known, matches, pending, failures, commitFirst>>
    BY <1>2 DEF Consume, result, frame
  <2>3. label \in Running \cup Ended
    BY <2>1 DEF Running, Ended, Refused
  <2>4. /\ ask' \in [Requests -> Queries] /\ \A o \in Requests \ {r} : ask'[o] = ask[o]
        /\ audit' \subseteq AuditRows /\ pending' \in [Requests -> SUBSET AuditRows]
        /\ failures' \in 0..MaxFailures
    BY <2>2 DEF TypeOK
  <2>5. consumed' \in [Actors -> Nat]
    <3>1. consumed \in [Actors -> Nat]
      BY DEF TypeOK
    <3>2. \A a : consumed[a] \in Nat => consumed[a] + 1 \in Nat
      OBVIOUS
    <3> QED
      BY <2>2, <3>1, <3>2
  <2> QED
    BY <2>1, <2>2, <2>3, <2>4, <2>5, PlainStep
<1>3. ASSUME NEW r \in Requests, NEW label \in Running \cup Ended,
             pc' = [pc EXCEPT ![r] = label],
             UNCHANGED <<database, consumed, ask, hits, looked, known, matches, commitFirst>>,
             UNCHANGED audit \/ audit' = audit \cup pending[r],
             UNCHANGED pending \/ pending' = [pending EXCEPT ![r] = {}],
             UNCHANGED failures \/ (failures < MaxFailures /\ failures' = failures + 1),
             \/ label \notin {"new", "consume", "select", "look", "load"}
             \/ pc[r] = "select" /\ label = "look" /\ Resolution(ask[r]) = "look"
      PROVE  TypeOK' /\ ResultInv'
  <2>1. /\ ask' \in [Requests -> Queries] /\ \A o \in Requests \ {r} : ask'[o] = ask[o]
        /\ consumed' \in [Actors -> Nat]
    BY <1>3 DEF TypeOK
  <2>2. audit' \subseteq AuditRows /\ pending' \in [Requests -> SUBSET AuditRows]
    BY <1>3 DEF TypeOK
  <2>3. failures' \in 0..MaxFailures
    BY <1>3, SearchAssumption DEF TypeOK
  <2> QED
    BY <1>3, <2>1, <2>2, <2>3, PlainStep
<1>4. ASSUME NEW r \in Requests, Select(r) PROVE TypeOK' /\ ResultInv'
  <2>1. PICK label : label = Resolution(ask[r])
    OBVIOUS
  <2>2. label \in {"failed", "409", "422", "look"}
    BY <2>1 DEF Resolution
  <2>3. label \in Running \cup Ended
    BY <2>2 DEF Running, Ended, Refused
  <2>4. \/ label \notin {"new", "consume", "select", "look", "load"}
        \/ pc[r] = "select" /\ label = "look" /\ Resolution(ask[r]) = "look"
    BY <1>4, <2>1, <2>2 DEF Select
  <2> QED
    BY <1>3, <1>4, <2>1, <2>3, <2>4 DEF Select, GoTo, result, frame
<1>5. ASSUME NEW r \in Requests, Sign(r) \/ Answer(r) \/ Commit(r) PROVE TypeOK' /\ ResultInv'
  <2>1. PICK label \in {"commit", "answer", "answered"} : pc' = [pc EXCEPT ![r] = label]
    BY <1>5 DEF Sign, Answer, Commit, GoTo
  <2>2. label \in Running \cup Ended
    BY <2>1 DEF Running, Ended
  <2> QED
    BY <1>3, <1>5, <2>1, <2>2 DEF Sign, Answer, Commit, result, frame
<1>6. ASSUME NEW r \in Requests, Fails(r) PROVE TypeOK' /\ ResultInv'
  <2>1. PICK label \in {"unconfirmed", "failed"} : pc' = [pc EXCEPT ![r] = label]
    BY <1>6 DEF Fails, GoTo
  <2>2. label \in Running \cup Ended
    BY <2>1 DEF Ended
  <2> QED
    BY <1>3, <1>6, <2>1, <2>2 DEF Fails
<1>7. ASSUME (\E f \in Faces : Index(f)) \/ (\E e \in Events : DeleteEvent(e)) \/ UNCHANGED vars
      PROVE  TypeOK' /\ ResultInv'
  BY <1>7, TablesResult DEF Index, DeleteEvent, vars
<1> QED
  BY <1>1, <1>2, <1>4, <1>5, <1>6, <1>7, LookResult, LoadResult DEF Next

\* What is shown is a result that was computed: the matches are those of the events at
\* their ranks.
LEMMA MatchesShown ==
  ASSUME TypeOK, ResultInv, NEW r \in Requests, matches[r] # <<>>
  PROVE  /\ ask[r] \in Queries /\ WellFound(ask[r], Kept(r))
         /\ matches[r] = Ranked(ask[r], Kept(r))
         /\ DOMAIN matches[r] = 1..Len(matches[r])
         /\ \A i \in DOMAIN matches[r] :
              /\ i \in 1..Cardinality(EventsOf(Kept(r)))
              /\ EventAt(ask[r], i, Kept(r)) \in EventsOf(Kept(r))
              /\ matches[r][i] = MatchOf(ask[r], EventAt(ask[r], i, Kept(r)), Kept(r))
<1>1. /\ ask[r] \in Queries /\ hits[r] \in Seq(Faces) /\ Len(hits[r]) <= TopK
      /\ Resolution(ask[r]) = "look" /\ matches[r] = Ranked(ask[r], Kept(r))
  BY DEF TypeOK, ResultInv, Coherent, HitsInv, Loaded
<1>2. WellFound(ask[r], Kept(r))
  BY <1>1, CandidatesFound DEF Kept
<1>3. PICK N : N = Cardinality(EventsOf(Kept(r)))
  OBVIOUS
<1>4. N \in Nat
  BY <1>2, <1>3, RankOrderTotal
<1>5. matches[r] \in Seq(Matches) /\ Len(matches[r]) \in 0..N
  BY <1>1, <1>2, <1>3, RankedProperties
<1>6. DOMAIN matches[r] = 1..Len(matches[r])
  BY <1>5, LenProperties
<1>7. \A i \in DOMAIN matches[r] : i \in 1..N
  BY <1>4, <1>5, <1>6
<1>8. \A i \in DOMAIN matches[r] : EventAt(ask[r], i, Kept(r)) \in EventsOf(Kept(r))
  BY <1>2, <1>3, <1>7, RankProperties
<1>9. \A i \in DOMAIN matches[r] :
        matches[r][i] = MatchOf(ask[r], EventAt(ask[r], i, Kept(r)), Kept(r))
  BY <1>1, <1>2, <1>6, RankedProperties
<1> QED
  BY <1>1, <1>2, <1>3, <1>6, <1>7, <1>8, <1>9

\* What Kept holds: hits, above the threshold, of events that were still there.
LEMMA KeptFound ==
  ASSUME TypeOK, ResultInv, NEW r \in Requests, Resolution(ask[r]) = "look", NEW k \in DOMAIN Kept(r)
  PROVE  /\ VersionOf[Kept(r)[k]] = Version /\ InDates(ask[r], EventOf[Kept(r)[k]])
         /\ Likeness(ask[r], Kept(r)[k]) >= Threshold(ask[r])
         /\ EventOf[Kept(r)[k]] \in known[r]
<1>1. ask[r] \in Queries /\ hits[r] \in Seq(Faces) /\ Len(hits[r]) <= TopK
  BY DEF TypeOK, ResultInv, Coherent, HitsInv
<1>2. /\ k \in DOMAIN hits[r] /\ Kept(r)[k] = hits[r][k]
      /\ Likeness(ask[r], Kept(r)[k]) >= Threshold(ask[r]) /\ EventOf[Kept(r)[k]] \in known[r]
  BY <1>1, CandidatesFound DEF Kept
<1>3. VersionOf[hits[r][k]] = Version /\ InDates(ask[r], EventOf[hits[r][k]])
  BY <1>2 DEF ResultInv, Coherent, HitsInv
<1> QED
  BY <1>2, <1>3

\* The evidence of a match: the best of the faces of its event that were found.
LEMMA EvidenceOf ==
  ASSUME TypeOK, ResultInv, NEW r \in Requests, NEW i \in DOMAIN matches[r]
  PROVE  /\ matches[r] # <<>> /\ Resolution(ask[r]) = "look"
         /\ \E k \in Of(matches[r][i].event, Kept(r)) :
              /\ Kept(r)[k] = matches[r][i].evidence
              /\ \A j \in Of(matches[r][i].event, Kept(r)) :
                   Likeness(ask[r], Kept(r)[j]) <= Likeness(ask[r], Kept(r)[k])
         /\ matches[r][i].event = EventAt(ask[r], i, Kept(r))
         /\ matches[r][i].count = Cardinality(Of(matches[r][i].event, Kept(r)))
<1>1. matches[r] # <<>>
  OBVIOUS
<1>2. PICK e : e = EventAt(ask[r], i, Kept(r))
  OBVIOUS
<1>3. /\ WellFound(ask[r], Kept(r)) /\ e \in EventsOf(Kept(r))
      /\ matches[r][i] = MatchOf(ask[r], e, Kept(r))
  BY <1>1, <1>2, MatchesShown
<1>4. PICK G : G = Of(e, Kept(r))
  OBVIOUS
<1>5. PICK b : b = BestOf(ask[r], G, Kept(r))
  OBVIOUS
<1>6. /\ b \in G
      /\ \A j \in G : Likeness(ask[r], Kept(r)[j]) <= Likeness(ask[r], Kept(r)[b])
  BY <1>3, <1>4, <1>5, GroupProperties
<1>7. /\ matches[r][i].event = e /\ matches[r][i].count = Cardinality(G)
      /\ matches[r][i].evidence = Kept(r)[b]
  BY <1>3, <1>4, <1>5, MatchType
<1>8. Resolution(ask[r]) = "look"
  BY <1>1 DEF ResultInv, Coherent, Loaded
<1> QED
  BY <1>1, <1>2, <1>4, <1>6, <1>7, <1>8

\* The types hold: the matches, their scores and the journal's rows included (TypeOK).
THEOREM SearchTypes == Spec => []TypeOK
BY InitResultInv, NextResultInv, PTL DEF Spec

\* Whatever is indexed or deleted since, a match is proved by a face of its event, of
\* the API's model version, in the dates and above the threshold (EvidenceQualifies).
THEOREM EvidenceIsQualified == Spec => []EvidenceQualifies
<1>1. TypeOK /\ ResultInv => EvidenceQualifies
  <2> SUFFICES ASSUME TypeOK, ResultInv, NEW r \in Requests, NEW i \in DOMAIN matches[r]
               PROVE  LET m == matches[r][i]  q == ask[r] IN
                      /\ EventOf[m.evidence] = m.event
                      /\ VersionOf[m.evidence] = Version
                      /\ Likeness(q, m.evidence) >= Threshold(q)
                      /\ q.from # None => EventDate[m.event] >= q.from
                      /\ q.to # None => EventDate[m.event] <= q.to
    BY DEF EvidenceQualifies
  <2>1. PICK k \in Of(matches[r][i].event, Kept(r)) : Kept(r)[k] = matches[r][i].evidence
    BY EvidenceOf
  <2>2. k \in DOMAIN Kept(r) /\ EventOf[matches[r][i].evidence] = matches[r][i].event
    BY <2>1 DEF Of
  <2>3. /\ VersionOf[Kept(r)[k]] = Version /\ InDates(ask[r], EventOf[Kept(r)[k]])
        /\ Likeness(ask[r], Kept(r)[k]) >= Threshold(ask[r])
    BY <2>2, EvidenceOf, KeptFound
  <2> QED
    BY <2>1, <2>2, <2>3 DEF InDates
<1> QED
  BY <1>1, InitResultInv, NextResultInv, PTL DEF Spec

\* An event is shown once, with its most similar face and the number of its faces
\* (BestEvidence).
THEOREM EvidenceIsBest == Spec => []BestEvidence
<1>1. TypeOK /\ ResultInv => BestEvidence
  <2> SUFFICES ASSUME TypeOK, ResultInv, NEW r \in Requests, NEW i \in DOMAIN matches[r]
               PROVE  LET m == matches[r][i]
                          own == {k \in DOMAIN Kept(r) : EventOf[Kept(r)[k]] = m.event}
                      IN /\ \A j \in DOMAIN matches[r] : matches[r][j].event = m.event => j = i
                         /\ m.count = Cardinality(own)
                         /\ \E k \in own : Kept(r)[k] = m.evidence
                         /\ \A k \in own : Likeness(ask[r], Kept(r)[k]) <= Likeness(ask[r], m.evidence)
    BY DEF BestEvidence
  <2>1. Of(matches[r][i].event, Kept(r)) = {k \in DOMAIN Kept(r) : EventOf[Kept(r)[k]] = matches[r][i].event}
    BY DEF Of
  <2>2. \A j \in DOMAIN matches[r] : matches[r][j].event = matches[r][i].event => j = i
    <3>1. TAKE j \in DOMAIN matches[r]
    <3>2. HAVE matches[r][j].event = matches[r][i].event
    <3>3. EventAt(ask[r], j, Kept(r)) = EventAt(ask[r], i, Kept(r))
      BY <3>2, EvidenceOf
    <3>4. /\ WellFound(ask[r], Kept(r))
          /\ i \in 1..Cardinality(EventsOf(Kept(r))) /\ j \in 1..Cardinality(EventsOf(Kept(r)))
      BY EvidenceOf, MatchesShown
    <3>5. /\ Rank(ask[r], EventAt(ask[r], i, Kept(r)), Kept(r)) = i
          /\ Rank(ask[r], EventAt(ask[r], j, Kept(r)), Kept(r)) = j
      BY <3>4, RankProperties
    <3> QED
      BY <3>3, <3>5
  <2>3. PICK k \in Of(matches[r][i].event, Kept(r)) :
          /\ Kept(r)[k] = matches[r][i].evidence
          /\ \A j \in Of(matches[r][i].event, Kept(r)) :
               Likeness(ask[r], Kept(r)[j]) <= Likeness(ask[r], Kept(r)[k])
    BY EvidenceOf
  <2>4. matches[r][i].count = Cardinality(Of(matches[r][i].event, Kept(r)))
    BY EvidenceOf
  <2> QED
    BY <2>1, <2>2, <2>3, <2>4
<1> QED
  BY <1>1, InitResultInv, NextResultInv, PTL DEF Spec

\* No event is shown that the second statement of the search did not find
\* (GoneEventsOmitted).
THEOREM GoneEventsAreOmitted == Spec => []GoneEventsOmitted
<1>1. TypeOK /\ ResultInv => GoneEventsOmitted
  <2> SUFFICES ASSUME TypeOK, ResultInv, NEW r \in Requests, NEW i \in DOMAIN matches[r]
               PROVE  matches[r][i].event \in known[r]
    BY DEF GoneEventsOmitted, Shown
  <2>1. PICK k \in Of(matches[r][i].event, Kept(r)) : Kept(r)[k] = matches[r][i].evidence
    BY EvidenceOf
  <2>2. k \in DOMAIN Kept(r) /\ EventOf[Kept(r)[k]] = matches[r][i].event
    BY DEF Of
  <2>3. EventOf[Kept(r)[k]] \in known[r]
    BY <2>2, EvidenceOf, KeptFound
  <2> QED
    BY <2>2, <2>3
<1> QED
  BY <1>1, InitResultInv, NextResultInv, PTL DEF Spec

\* When a limit that is not negative cuts the list, it keeps the best events
\* (LimitKeepsTheBest).
THEOREM LimitKeepsBest == Spec => []LimitKeepsTheBest
<1>1. TypeOK /\ ResultInv => LimitKeepsTheBest
  <2> SUFFICES ASSUME TypeOK, ResultInv, NEW r \in Requests, NEW k \in DOMAIN Kept(r),
                      ask[r].limit >= 0, EventOf[Kept(r)[k]] \notin Shown(r)
               PROVE  LET f == Kept(r)[k]
                          own == {j \in DOMAIN Kept(r) : EventOf[Kept(r)[j]] = EventOf[f]}
                      IN /\ Len(matches[r]) = Limit(ask[r])
                         /\ \A i \in DOMAIN matches[r] :
                              matches[r][i].confidence >= Likeness(ask[r], f) + Bonus[Cardinality(own)]
    BY DEF LimitKeepsTheBest
  <2>1. PICK q : q = ask[r]
    OBVIOUS
  <2>2. PICK found : found = Kept(r)
    OBVIOUS
  <2>3. PICK e : e = EventOf[found[k]]
    OBVIOUS
  <2>4. Loaded(r) /\ q \in Queries /\ hits[r] \in Seq(Faces) /\ Len(hits[r]) <= TopK
    <3>1. CASE Loaded(r)
      BY <2>1, <3>1 DEF TypeOK, ResultInv, Coherent, HitsInv
    <3>2. CASE known[r] = {}
      <4>1. \A i \in DOMAIN Kept(r) : EventOf[hits[r][i]] \in known[r]
        BY DEF Kept, Candidates
      <4> QED
        BY <3>2, <4>1
    <3> QED
      BY <3>1, <3>2 DEF ResultInv, Coherent
  <2>5. WellFound(q, found) /\ matches[r] = Ranked(q, found)
    BY <2>1, <2>2, <2>4, CandidatesFound DEF Loaded, Kept
  <2>6. PICK N : N = Cardinality(EventsOf(found))
    OBVIOUS
  <2>7. PICK L : L = Len(matches[r])
    OBVIOUS
  <2>8. /\ matches[r] \in Seq(Matches) /\ L \in 0..N /\ N \in Nat
        /\ \A n \in 1..L : matches[r][n] = MatchOf(q, EventAt(q, n, found), found)
        /\ L < N => L = Limit(q)
    BY <2>1, <2>4, <2>5, <2>6, <2>7, RankedProperties, RankOrderTotal
  <2>9. DOMAIN matches[r] = 1..L
    BY <2>7, <2>8, LenProperties
  <2>10. e \in EventsOf(found)
    BY <2>2, <2>3 DEF EventsOf
  <2>11. PICK n : n = Rank(q, e, found)
    OBVIOUS
  <2>12. n \in 1..N /\ EventAt(q, n, found) = e
    BY <2>5, <2>6, <2>10, <2>11, RankProperties
  <2>13. n \notin 1..L
    <3>1. SUFFICES ASSUME n \in 1..L PROVE FALSE
      OBVIOUS
    <3>2. matches[r][n].event = e
      BY <2>5, <2>8, <2>10, <2>12, <3>1, MatchType
    <3>3. e \in Shown(r)
      BY <2>9, <3>1, <3>2 DEF Shown
    <3> QED
      BY <2>2, <2>3, <3>3
  <2>14. L < n /\ L < N
    BY <2>8, <2>12, <2>13
  <2>15. Likeness(q, found[k]) + Bonus[Cardinality(Of(e, found))] <= MatchOf(q, e, found).confidence
    <3>1. PICK G : G = Of(e, found)
      OBVIOUS
    <3>2. PICK b : b = BestOf(q, G, found)
      OBVIOUS
    <3>3. k \in G /\ Cardinality(G) \in 1..TopK /\ G \subseteq DOMAIN found /\ b \in G
          /\ Likeness(q, found[k]) <= Likeness(q, found[b])
      <4>1. k \in G
        BY <2>2, <2>3, <3>1 DEF Of
      <4> QED
        BY <2>5, <2>10, <3>1, <3>2, <4>1, GroupProperties
    <3>4. /\ Likeness(q, found[k]) \in Int /\ Likeness(q, found[b]) \in Int
          /\ Bonus[Cardinality(G)] \in Int
      BY <2>2, <2>5, <3>3, LikenessType, SearchAssumption
    <3>5. MatchOf(q, e, found).confidence = Likeness(q, found[b]) + Bonus[Cardinality(G)]
      BY <2>5, <2>10, <3>1, <3>2, MatchType
    <3>6. Likeness(q, found[k]) + Bonus[Cardinality(G)] <= Likeness(q, found[b]) + Bonus[Cardinality(G)]
      BY <3>3, <3>4
    <3> QED
      BY <3>1, <3>5, <3>6
  <2>16. ASSUME NEW i \in DOMAIN matches[r]
         PROVE  matches[r][i].confidence >= Likeness(q, found[k]) + Bonus[Cardinality(Of(e, found))]
    <3>1. PICK d : d = EventAt(q, i, found)
      OBVIOUS
    <3>2. i \in 1..L /\ i \in 1..N /\ i < n
      BY <2>8, <2>9, <2>12, <2>14
    <3>3. d \in EventsOf(found) /\ Rank(q, d, found) = i
      BY <2>5, <2>6, <3>1, <3>2, RankProperties
    <3>4. Outranks(q, d, e, found)
      BY <2>5, <2>10, <2>11, <3>2, <3>3, RankProperties
    <3>5. MatchOf(q, d, found).confidence \in Int /\ MatchOf(q, e, found).confidence \in Int
      BY <2>5, <2>10, <3>3, MatchType DEF Matches
    <3>6. MatchOf(q, d, found).confidence >= MatchOf(q, e, found).confidence
      BY <3>4, <3>5 DEF Outranks
    <3>7. matches[r][i] = MatchOf(q, d, found)
      BY <2>8, <3>1, <3>2
    <3>8. Likeness(q, found[k]) + Bonus[Cardinality(Of(e, found))] \in Int
      <4>1. Cardinality(Of(e, found)) \in 1..TopK
        BY <2>5, <2>10, GroupProperties
      <4> QED
        BY <2>2, <2>5, <4>1, LikenessType, SearchAssumption
    <3> QED
      BY <2>15, <3>5, <3>6, <3>7, <3>8
  <2>17. Of(e, found) = {j \in DOMAIN Kept(r) : EventOf[Kept(r)[j]] = EventOf[Kept(r)[k]]}
    BY <2>2, <2>3 DEF Of
  <2> QED
    BY <2>1, <2>2, <2>7, <2>8, <2>14, <2>16, <2>17
<1> QED
  BY <1>1, InitResultInv, NextResultInv, PTL DEF Spec
=============================================================================
