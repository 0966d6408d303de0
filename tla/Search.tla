------------------------------- MODULE Search -------------------------------
(***************************************************************************)
(* Searching by face: the route /by-face with its authentication, the use  *)
(* case SearchByFaceUseCase, the vector search, the ranking, the journal   *)
(* of searches and the session that commits it.                            *)
(*                                                                         *)
(* Requests run concurrently in the replicas of the API.  Each statement   *)
(* is a step that reads what is committed at its instant (READ COMMITTED)  *)
(* while workers index, and while the system that owns the events deletes  *)
(* some.  Detection and embedding are functions of the photo, so that a    *)
(* photo is the sequence of its faces; similarities are in thousandths.    *)
(* The quota is a counter of one window: SearchQuota has its steps.        *)
(***************************************************************************)
EXTENDS Integers, Sequences, FiniteSets

CONSTANTS
  None,         \* a parameter that is not given
  Requests,     \* requests of one quota window
  Events,       \* ids of events
  Faces,        \* rows that face_embeddings may hold
  EventOf,      \* event of each face
  VersionOf,    \* model version of each face
  EventDate,    \* date of each event
  QueryFaces,   \* faces that the photos submitted may show
  Similarity,   \* of a stored face to a query face
  Bonus,        \* lambda * log(1 + n) for n faces of one event
  Queries,      \* what may be asked
  Version,      \* model version of the API
  Quota,        \* searches per actor and window
  TopK,         \* settings.ann_top_k
  MaxResults,   \* MAX_RESULTS_LIMIT
  DefaultThreshold,
  MaxFailures   \* bound of the model: calls that fail, replicas that die

Actors == {q.actor : q \in Queries}

ASSUME SearchAssumption ==
  /\ None \notin Int
  /\ IsFiniteSet(Requests) /\ Queries # {}
  /\ EventOf \in [Faces -> Events]
  /\ VersionOf \in [Faces -> STRING]
  /\ EventDate \in [Events -> Int]
  /\ Similarity \in [Faces -> [QueryFaces -> Int]]
  /\ TopK \in Nat /\ MaxResults \in Nat /\ Quota \in Nat /\ MaxFailures \in Nat
  /\ Bonus \in [1..TopK -> Nat]
  /\ \A q \in Queries :
       /\ q.authorized \in BOOLEAN /\ q.oversized \in BOOLEAN /\ q.readable \in BOOLEAN
       /\ q.faces \in Seq(QueryFaces)
       /\ q.index \in Int \cup {None} /\ q.threshold \in Int \cup {None}
       /\ q.from \in Int \cup {None} /\ q.to \in Int \cup {None}
       /\ q.limit \in Int

VARIABLES
  events,    \* rows of events
  stored,    \* rows of face_embeddings; those of a deleted event go with it
  consumed,  \* the actors' counters
  audit,     \* rows of search_audit_log
  pc,        \* next step of each request, or how it ended
  ask,       \* what it asks
  hits,      \* what the vector search returned
  known,     \* events that get_events_by_ids returned
  matches,   \* the result
  pending,   \* audit rows added to its session, not committed
  looked,    \* history: requests whose search of the index took place
  failures,  \* history: number of failures
  commitFirst  \* the framework ends the session before it sends the answer

database == <<events, stored>>
result   == <<hits, looked, known, matches, pending>>
frame    == <<failures, commitFirst>>
vars == <<database, consumed, audit, pc, ask, result, frame>>

Refused == {"401", "413", "429", "409", "422"}
Running == {"consume", "select", "look", "load", "sign", "commit", "answer"}
Ended   == {"new", "answered", "faces", "failed", "unconfirmed"} \cup Refused

AuditRows == [request : Requests, count : Nat, top : Int \cup {None}]
Matches   == [event : Events, confidence : Int, count : Nat \ {0}, evidence : Faces]

TypeOK ==
  /\ events \subseteq Events
  /\ stored \subseteq {f \in Faces : EventOf[f] \in events}
  /\ consumed \in [Actors -> Nat]
  /\ audit \subseteq AuditRows
  /\ pc \in [Requests -> Running \cup Ended]
  /\ ask \in [Requests -> Queries]
  /\ hits \in [Requests -> Seq(Faces)]
  /\ looked \subseteq Requests
  /\ known \in [Requests -> SUBSET Events]
  /\ matches \in [Requests -> Seq(Matches)]
  /\ pending \in [Requests -> SUBSET AuditRows]
  /\ failures \in 0..MaxFailures
  /\ commitFirst \in BOOLEAN

Init ==
  /\ events = Events
  /\ stored = {}
  /\ consumed = [a \in Actors |-> 0]
  /\ audit = {}
  /\ pc = [r \in Requests |-> "new"]
  /\ ask = [r \in Requests |-> CHOOSE q \in Queries : TRUE]
  /\ hits = [r \in Requests |-> <<>>]
  /\ looked = {}
  /\ known = [r \in Requests |-> {}]
  /\ matches = [r \in Requests |-> <<>>]
  /\ pending = [r \in Requests |-> {}]
  /\ failures = 0
  /\ commitFirst \in BOOLEAN

GoTo(r, label) == pc' = [pc EXCEPT ![r] = label]

-----------------------------------------------------------------------------
(* The data of the pipeline.                                               *)

\* _resolve_face_index, and what ends a search before it looks.
Selected(q) == IF q.index = None THEN 1 ELSE q.index + 1
Resolution(q) ==
  CASE ~q.readable                                   -> "failed"
    [] q.readable /\ q.faces = <<>>                  -> "409"
    [] q.readable /\ q.index = None /\ Len(q.faces) > 1 -> "409"
    [] q.readable /\ q.faces # <<>> /\ q.index # None
         /\ q.index \notin 0..(Len(q.faces) - 1)     -> "422"
    [] OTHER                                         -> "look"

QueryFace(q) == q.faces[Selected(q)]
Threshold(q) == IF q.threshold = None THEN DefaultThreshold ELSE q.threshold
Likeness(q, f) == Similarity[f][QueryFace(q)]

InDates(q, e) == /\ q.from = None \/ EventDate[e] >= q.from
                 /\ q.to = None \/ EventDate[e] <= q.to

\* Mutation: the faces of every model version are compared.
EligibleAnyVersion(q) == {f \in stored : InDates(q, EventOf[f])}

\* The WHERE of the vector search.  Its filter on the quality holds of every
\* face that the indexing stores: the score is the one that it tests.
Eligible(q) == {f \in stored : VersionOf[f] = Version /\ InDates(q, EventOf[f])}

\* ORDER BY distance LIMIT top_k through an approximate index (HNSW), which
\* may miss rows: any TopK of them, by decreasing likeness.
Rankings(q) ==
  UNION {{s \in [1..Cardinality(S) -> S] :
            \A i, j \in DOMAIN s :
              i < j => s[i] # s[j] /\ Likeness(q, s[i]) >= Likeness(q, s[j])} :
         S \in {T \in SUBSET Eligible(q) : Cardinality(T) <= TopK}}

\* The hits above the threshold, of events that still exist.  A hit keeps its
\* position: what follows compares the positions and never counts on them.
Candidates(q, hit, present) ==
  LET kept == {i \in DOMAIN hit : /\ Likeness(q, hit[i]) >= Threshold(q)
                                 /\ EventOf[hit[i]] \in present}
  IN [i \in kept |-> hit[i]]

\* aggregate_matches_by_event.  max keeps the first best face of the group.
Of(e, found) == {i \in DOMAIN found : EventOf[found[i]] = e}
BestOf(q, G, found) ==
  CHOOSE i \in G : \A j \in G :
    \/ Likeness(q, found[i]) > Likeness(q, found[j])
    \/ Likeness(q, found[i]) = Likeness(q, found[j]) /\ i <= j

\* Mutation: the evidence is the last face of the group, not the best one.
LastMatchOf(q, e, found) ==
  LET G == Of(e, found)
      last == CHOOSE i \in G : \A j \in G : j <= i
  IN [event |-> e, count |-> Cardinality(G), evidence |-> found[last],
      confidence |-> Likeness(q, found[last]) + Bonus[Cardinality(G)]]

MatchOf(q, e, found) ==
  LET G == Of(e, found)
      best == BestOf(q, G, found)
  IN [event |-> e, count |-> Cardinality(G), evidence |-> found[best],
      confidence |-> Likeness(q, found[best]) + Bonus[Cardinality(G)]]

\* Sorted by decreasing confidence; equal ones in the order of their first face.
EventsOf(found) == {EventOf[found[i]] : i \in DOMAIN found}
FirstOf(e, found) == CHOOSE i \in Of(e, found) : \A j \in Of(e, found) : i <= j
Outranks(q, d, e, found) ==
  LET md == MatchOf(q, d, found)
      me == MatchOf(q, e, found)
  IN \/ md.confidence > me.confidence
     \/ md.confidence = me.confidence /\ FirstOf(d, found) < FirstOf(e, found)
Rank(q, e, found) == 1 + Cardinality({d \in EventsOf(found) : Outranks(q, d, e, found)})
EventAt(q, n, found) == CHOOSE e \in EventsOf(found) : Rank(q, e, found) = n

Aggregate(q, found) ==
  [n \in 1..Cardinality(EventsOf(found)) |-> MatchOf(q, EventAt(q, n, found), found)]

\* s[:n] in Python: a negative n drops the last -n.
Slice(s, n) ==
  LET end == IF n >= 0 THEN n ELSE Len(s) + n
  IN SubSeq(s, 1, IF end < Len(s) THEN end ELSE Len(s))

Limit(q) == IF q.limit < MaxResults THEN q.limit ELSE MaxResults

\* Mutation: the slice is taken before the sort, in the order of the hits.
SliceThenSort(q, found) ==
  LET first == {i \in DOMAIN found : Cardinality({j \in DOMAIN found : j <= i}) <= Limit(q)}
      kept == {i \in DOMAIN found : \E j \in first : EventOf[found[i]] = EventOf[found[j]]}
  IN Aggregate(q, [i \in kept |-> found[i]])

Ranked(q, found) == Slice(Aggregate(q, found), Limit(q))

-----------------------------------------------------------------------------
(* The route and the use case.                                             *)

\* The session and the bearer are looked at first, then the size of the photo.
Admit(q, next) == IF ~q.authorized THEN "401" ELSE IF q.oversized THEN "413" ELSE next

Receive(r, q) ==
  /\ pc[r] = "new"
  /\ ask' = [ask EXCEPT ![r] = q]
  /\ GoTo(r, Admit(q, "consume"))
  /\ UNCHANGED <<database, consumed, audit, result, frame>>

\* /faces: the faces of a photo, without quota or journal.
DetectQueryFaces(r, q) ==
  /\ pc[r] = "new"
  /\ ask' = [ask EXCEPT ![r] = q]
  /\ GoTo(r, Admit(q, IF q.readable THEN "faces" ELSE "failed"))
  /\ UNCHANGED <<database, consumed, audit, result, frame>>

\* check_and_consume counts the search whether or not it lets it through.
Consume(r) ==
  LET a == ask[r].actor IN
  /\ pc[r] = "consume"
  /\ consumed' = [consumed EXCEPT ![a] = @ + 1]
  /\ GoTo(r, IF consumed[a] < Quota THEN "select" ELSE "429")
  /\ UNCHANGED <<database, audit, ask, result, frame>>

\* Detection, the face to use, its embedding; an unreadable photo raises.
Select(r) ==
  /\ pc[r] = "select"
  /\ GoTo(r, Resolution(ask[r]))
  /\ UNCHANGED <<database, consumed, audit, ask, result, frame>>

Look(r) ==
  /\ pc[r] = "look"
  /\ \E s \in Rankings(ask[r]) : hits' = [hits EXCEPT ![r] = s]
  /\ looked' = looked \cup {r}
  /\ GoTo(r, "load")
  /\ UNCHANGED <<database, consumed, audit, ask, known, matches, pending, frame>>

\* Mutation: the journal gets the number of faces found, before the grouping.
RecordFaces(r, m) ==
  pending' = [pending EXCEPT ![r] =
    {[request |-> r, count |-> Len(hits[r]),
      top |-> IF m = <<>> THEN None ELSE m[1].confidence]}]

\* record_search adds a row to the session.
RecordSearch(r, m) ==
  pending' = [pending EXCEPT ![r] =
    {[request |-> r, count |-> Len(m),
      top |-> IF m = <<>> THEN None ELSE m[1].confidence]}]

\* Mutation: events_by_id is trusted to hold the event of every hit.
LoadAll(r) ==
  LET m == Ranked(ask[r], Candidates(ask[r], hits[r], Events)) IN
  /\ pc[r] = "load"
  /\ known' = [known EXCEPT ![r] = events]
  /\ matches' = [matches EXCEPT ![r] = m]
  /\ RecordSearch(r, m)
  /\ GoTo(r, "sign")
  /\ UNCHANGED <<database, consumed, audit, ask, hits, looked, frame>>

\* The events of the hits, the matches, the journal.
Load(r) ==
  LET m == Ranked(ask[r], Candidates(ask[r], hits[r], events)) IN
  /\ pc[r] = "load"
  /\ known' = [known EXCEPT ![r] = events]
  /\ matches' = [matches EXCEPT ![r] = m]
  /\ RecordSearch(r, m)
  /\ GoTo(r, "sign")
  /\ UNCHANGED <<database, consumed, audit, ask, hits, looked, frame>>

\* The URLs of the evidence are signed; the session ends before or after the answer.
Sign(r) ==
  /\ pc[r] = "sign"
  /\ GoTo(r, IF commitFirst THEN "commit" ELSE "answer")
  /\ UNCHANGED <<database, consumed, audit, ask, result, frame>>

Commit(r) ==
  /\ pc[r] = "commit"
  /\ audit' = audit \cup pending[r]
  /\ pending' = [pending EXCEPT ![r] = {}]
  /\ GoTo(r, IF commitFirst THEN "answer" ELSE "answered")
  /\ UNCHANGED <<database, consumed, ask, hits, looked, known, matches, frame>>

Answer(r) ==
  /\ pc[r] = "answer"
  /\ GoTo(r, IF commitFirst THEN "answered" ELSE "commit")
  /\ UNCHANGED <<database, consumed, audit, ask, result, frame>>

\* Mutation: a search that fails gives its unit of quota back.
FailsAndRefunds(r) ==
  /\ pc[r] \in {"look", "load", "sign"}
  /\ failures < MaxFailures
  /\ failures' = failures + 1
  /\ pending' = [pending EXCEPT ![r] = {}]
  /\ consumed' = [consumed EXCEPT ![ask[r].actor] = @ - 1]
  /\ GoTo(r, "failed")
  /\ UNCHANGED <<database, audit, ask, hits, looked, known, matches, commitFirst>>

\* A call fails or the replica dies: session_scope rolls back, or nothing does.
\* A commit that fails may have been done: its answer was lost.  After the
\* answer to the client, the client does not notice.
Fails(r) ==
  /\ pc[r] \in Running
  /\ failures < MaxFailures
  /\ failures' = failures + 1
  /\ \/ UNCHANGED audit
     \/ pc[r] = "commit" /\ audit' = audit \cup pending[r]
  /\ pending' = [pending EXCEPT ![r] = {}]
  /\ GoTo(r, IF pc[r] = "commit" /\ ~commitFirst THEN "unconfirmed" ELSE "failed")
  /\ UNCHANGED <<database, consumed, ask, hits, looked, known, matches, commitFirst>>

-----------------------------------------------------------------------------
(* What happens meanwhile.                                                 *)

\* A worker's transaction stores a face.
Index(f) ==
  /\ EventOf[f] \in events
  /\ stored' = stored \cup {f}
  /\ UNCHANGED <<events, consumed, audit, pc, ask, result, frame>>

\* Mutation: the deletion of an event leaves the faces of its images.
DeleteEventOnly(e) ==
  /\ e \in events
  /\ events' = events \ {e}
  /\ UNCHANGED <<stored, consumed, audit, pc, ask, result, frame>>

\* The system that owns the events deletes one (ON DELETE CASCADE).
DeleteEvent(e) ==
  /\ e \in events
  /\ events' = events \ {e}
  /\ stored' = {f \in stored : EventOf[f] # e}
  /\ UNCHANGED <<consumed, audit, pc, ask, result, frame>>

Next ==
  \/ \E r \in Requests :
       \/ \E q \in Queries : Receive(r, q) \/ DetectQueryFaces(r, q)
       \/ Consume(r) \/ Select(r) \/ Look(r) \/ Load(r)
       \/ Sign(r) \/ Commit(r) \/ Answer(r) \/ Fails(r)
  \/ \E f \in Faces : Index(f)
  \/ \E e \in Events : DeleteEvent(e)

Spec == Init /\ [][Next]_vars

-----------------------------------------------------------------------------
Kept(r) == Candidates(ask[r], hits[r], known[r])
Shown(r) == {matches[r][i].event : i \in DOMAIN matches[r]}

\* The client has its result.
Told(r) == \/ pc[r] \in {"answered", "unconfirmed"}
           \/ pc[r] = "commit" /\ ~commitFirst

(* When the session ends first, no result reaches a client without its row *)
(* in the journal; in both orders a row is that of a search of the index,  *)
(* with the count and the best score of its result.                        *)
AnswersAreJournaled ==
  /\ commitFirst =>
       \A r \in Requests : Told(r) => \E row \in audit : row.request = r
  /\ \A row \in audit :
       LET m == matches[row.request] IN
       /\ row.request \in looked
       /\ row.count = Len(m)
       /\ row.top = IF m = <<>> THEN None ELSE m[1].confidence

(* Every search of the index, those that fail afterwards included, was     *)
(* counted, and an actor gets no more than the quota in a window.          *)
LooksAreCounted ==
  \A a \in Actors :
    LET looks == Cardinality({r \in Requests : ask[r].actor = a /\ r \in looked})
    IN looks <= Quota /\ looks <= consumed[a]

(* A match is proved by a face of that event, of the API's model version,  *)
(* in the dates asked and above the threshold, whatever was indexed since. *)
EvidenceQualifies ==
  \A r \in Requests : \A i \in DOMAIN matches[r] :
    LET m == matches[r][i]  q == ask[r] IN
    /\ EventOf[m.evidence] = m.event
    /\ VersionOf[m.evidence] = Version
    /\ Likeness(q, m.evidence) >= Threshold(q)
    /\ q.from # None => EventDate[m.event] >= q.from
    /\ q.to # None => EventDate[m.event] <= q.to

(* An event appears once, with its most similar face as evidence and the   *)
(* number of its faces; no face returned by the search is more convincing. *)
BestEvidence ==
  \A r \in Requests : \A i \in DOMAIN matches[r] :
    LET m == matches[r][i]
        own == {k \in DOMAIN Kept(r) : EventOf[Kept(r)[k]] = m.event}
    IN /\ \A j \in DOMAIN matches[r] : matches[r][j].event = m.event => j = i
       /\ m.count = Cardinality(own)
       /\ \E k \in own : Kept(r)[k] = m.evidence
       /\ \A k \in own : Likeness(ask[r], Kept(r)[k]) <= Likeness(ask[r], m.evidence)

(* When the limit cuts the list, what it leaves out is not better than     *)
(* what it shows.  (A negative limit, which the route accepts, cuts the    *)
(* end of the list instead: it is left out here.)                          *)
LimitKeepsTheBest ==
  \A r \in Requests : \A k \in DOMAIN Kept(r) :
    LET f == Kept(r)[k]
        own == {j \in DOMAIN Kept(r) : EventOf[Kept(r)[j]] = EventOf[f]}
    IN ask[r].limit >= 0 /\ EventOf[f] \notin Shown(r) =>
         /\ Len(matches[r]) = Limit(ask[r])
         /\ \A i \in DOMAIN matches[r] :
              matches[r][i].confidence >= Likeness(ask[r], f) + Bonus[Cardinality(own)]

(* An event deleted between the two statements of a search is not shown.   *)
GoneEventsOmitted == \A r \in Requests : Shown(r) \subseteq known[r]

-----------------------------------------------------------------------------
(* The invariant of the proofs: where a request stands tells what it has   *)
(* consumed, looked at and journaled.                                      *)
Row(r) == [request |-> r, count |-> Len(matches[r]),
           top |-> IF matches[r] = <<>> THEN None ELSE matches[r][1].confidence]
Granted(a) == {r \in Requests : ask[r].actor = a /\ (pc[r] \in {"select", "look"} \/ r \in looked)}

RequestTypes ==
  /\ pc \in [Requests -> Running \cup Ended]
  /\ ask \in [Requests -> Queries]
  /\ consumed \in [Actors -> Nat]
  /\ looked \subseteq Requests
  /\ matches = [r \in Requests |-> matches[r]]
  /\ pending = [r \in Requests |-> pending[r]]
  /\ commitFirst \in BOOLEAN

LookedInv == \A r \in Requests :
  /\ r \in looked =>
       pc[r] \in {"load", "sign", "commit", "answer", "answered", "failed", "unconfirmed"}
  /\ pc[r] \in {"load", "sign", "commit", "answer", "answered", "unconfirmed"} => r \in looked

JournalInv ==
  /\ \A row \in audit :
       /\ row.request \in Requests /\ row = Row(row.request)
       /\ \/ pc[row.request] \in {"answered", "failed", "unconfirmed"}
          \/ pc[row.request] = "answer" /\ commitFirst
       /\ row.request \in looked
  /\ \A r \in Requests :
       /\ pc[r] \in {"sign", "commit"} \/ (pc[r] = "answer" /\ ~commitFirst) => pending[r] = {Row(r)}
       /\ commitFirst /\ pc[r] \in {"answer", "answered"} => Row(r) \in audit
       /\ commitFirst => pc[r] # "unconfirmed"

CountInv == \A a \in Actors :
  Cardinality(Granted(a)) <= consumed[a] /\ Cardinality(Granted(a)) <= Quota

SearchInv == RequestTypes /\ LookedInv /\ JournalInv /\ CountInv

(* The invariant about the results: a result is computed once, by Load, from *)
(* the hits of one search of the index, whatever is indexed or deleted since. *)
HitsInv(r) ==
  /\ Len(hits[r]) <= TopK
  /\ \A i \in DOMAIN hits[r] :
       VersionOf[hits[r][i]] = Version /\ InDates(ask[r], EventOf[hits[r][i]])

Loaded(r) == Resolution(ask[r]) = "look" /\ matches[r] = Ranked(ask[r], Kept(r))

Coherent(r) ==
  /\ pc[r] \in {"new", "consume", "select", "look"} => hits[r] = <<>>
  /\ pc[r] \in {"new", "consume", "select", "look", "load"} => known[r] = {} /\ matches[r] = <<>>
  /\ pc[r] \in {"look", "load"} => Resolution(ask[r]) = "look"
  /\ HitsInv(r)
  /\ (known[r] = {} /\ matches[r] = <<>>) \/ Loaded(r)

ResultInv == IsFiniteSet(stored) /\ \A r \in Requests : Coherent(r)
=============================================================================
