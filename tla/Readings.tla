------------------------------ MODULE Readings ------------------------------
(***************************************************************************)
(* The screens that read the database: the dashboard's statistics, the     *)
(* list of events and the detail of one.                                   *)
(*                                                                         *)
(* A reading is a sequence of statements; each is a step, that sees what   *)
(* is committed at its instant (READ COMMITTED), while images are imported *)
(* and indexed, searches are journaled and events deleted.  Readings       *)
(* change nothing, so that one per behaviour is enough.                    *)
(***************************************************************************)
EXTENDS Naturals, Sequences, FiniteSets

CONSTANTS
  Events,      \* ids of events; their order is that of the dates and ids
  Images,      \* ids of event_images
  ImageEvent,  \* event of each image
  Kept,        \* face indexes of each image that the quality filter keeps
  Dropped,     \* those that it rejects
  Versions,    \* model versions of the workers
  Current,     \* model version of the API
  PageSizes,   \* values of limit
  MaxSearches  \* bound of the model: rows of search_audit_log

ASSUME ReadingsAssumption ==
  /\ Events \subseteq Nat /\ IsFiniteSet(Events) /\ IsFiniteSet(Images)
  /\ \A i \in Images : IsFiniteSet(Kept[i])
  /\ IsFiniteSet(UNION {{i} \X Dropped[i] : i \in Images})
  /\ ImageEvent \in [Images -> Events]
  /\ Kept \in [Images -> SUBSET Nat] /\ Dropped \in [Images -> SUBSET Nat]
  /\ Current \in Versions
  /\ PageSizes \subseteq Nat \ {0}
  /\ MaxSearches \in Nat

VARIABLES
  events,      \* rows of events
  images,      \* rows of event_images
  done,        \* those whose index_status is "done", the others are "pending"
  embeddings,  \* keys <<image, version, face>> of face_embeddings
  rejections,  \* rows <<image, face, n>> of rejected_faces, n the attempt
  searches,    \* rows of search_audit_log: do they have results
  kind,        \* what is read
  arg,         \* [offset, limit] or the event's id
  got,         \* results of the statements so far
  raced        \* history: the database changed since the first statement

database == <<events, images, done, embeddings, rejections, searches>>
reading  == <<kind, arg, got>>
readingsVars == <<database, reading, raced>>

Attempts == 1..2

\* The statements of each reading, in their order.
Statements(k) ==
  CASE k = "none"       -> <<>>
    [] k = "statistics" -> <<"events", "images", "indexed", "pending", "faces", "rejected",
                             "searches", "empty", "reasons", "versions">>
    [] k = "list"       -> <<"page", "events">>
    [] k = "detail"     -> <<"event", "embeddings", "discarded", "rows">>
Kinds == {"none", "statistics", "list", "detail"}

ReadingsTypeOK ==
  /\ events \subseteq Events
  /\ images \subseteq {i \in Images : ImageEvent[i] \in events}
  /\ done \subseteq images
  /\ embeddings \subseteq {x \in images \X Versions \X Nat : x[3] \in Kept[x[1]]}
  /\ rejections \subseteq {x \in images \X Nat \X Attempts : x[2] \in Dropped[x[1]]}
  /\ searches \in Seq(BOOLEAN) /\ Len(searches) <= MaxSearches
  /\ kind \in Kinds
  /\ Len(got) <= Len(Statements(kind))
  /\ raced \in BOOLEAN

ReadingsInit ==
  /\ events = Events
  /\ images = {} /\ done = {} /\ embeddings = {} /\ rejections = {} /\ searches = <<>>
  /\ kind = "none" /\ arg = 0 /\ got = <<>>
  /\ raced = FALSE

-----------------------------------------------------------------------------
(* What changes the database: an import, a worker's transaction (again for *)
(* an image that is selected again), a search, the events' owner.          *)

Change == UNCHANGED reading /\ raced' = (raced \/ got # <<>>)

ImportImage(i) ==
  /\ i \notin images /\ ImageEvent[i] \in events
  /\ images' = images \cup {i}
  /\ Change
  /\ UNCHANGED <<events, done, embeddings, rejections, searches>>

\* Mutation: the embeddings are committed before the status is set.
IndexInTwo(i, v) ==
  /\ i \in images
  /\ embeddings' = embeddings \cup {<<i, v, f>> : f \in Kept[i]}
  /\ done' = IF \E f \in Kept[i] : <<i, v, f>> \notin embeddings THEN done ELSE done \cup {i}
  /\ UNCHANGED rejections
  /\ Change
  /\ UNCHANGED <<events, images, searches>>

IndexImage(i, v) ==
  /\ i \in images
  /\ embeddings' = embeddings \cup {<<i, v, f>> : f \in Kept[i]}
  /\ rejections' = rejections \cup
       {r \in {<<i, f, n>> : f \in Dropped[i], n \in Attempts} :
          \A n \in 1..(r[3] - 1) : <<i, r[2], n>> \in rejections}
  /\ done' = done \cup {i}
  /\ Change
  /\ UNCHANGED <<events, images, searches>>

RecordSearch(found) ==
  /\ Len(searches) < MaxSearches
  /\ searches' = Append(searches, found)
  /\ Change
  /\ UNCHANGED <<events, images, done, embeddings, rejections>>

\* Mutation: the deletion of an event leaves the faces of its images.
DeleteImagesOnly(e) ==
  /\ e \in events
  /\ events' = events \ {e}
  /\ images' = {i \in images : ImageEvent[i] # e}
  /\ done' = done \cap images'
  /\ Change
  /\ UNCHANGED <<embeddings, rejections, searches>>

\* ON DELETE CASCADE, from the event to the faces of its images.
DeleteEvent(e) ==
  /\ e \in events
  /\ LET left == {i \in images : ImageEvent[i] # e} IN
       /\ events' = events \ {e}
       /\ images' = left
       /\ done' = done \cap left
       /\ embeddings' = {x \in embeddings : x[1] \in left}
       /\ rejections' = {x \in rejections : x[1] \in left}
  /\ Change
  /\ UNCHANGED searches

-----------------------------------------------------------------------------
(* The statements.                                                         *)
ImagesOf(e) == {i \in images : ImageEvent[i] = e}

\* Mutation: the rows of rejected_faces are counted, replays included.
RawDiscarded(S) == {x \in rejections : x[1] \in S}

\* DISTINCT (image_id, face_index).
DiscardedFaces(S) == {<<x[1], x[2]>> : x \in {y \in rejections : y[1] \in S}}

\* A row of the list: three correlated subqueries of one statement.
Row(e) ==
  LET own == ImagesOf(e) IN
  [event     |-> e,
   images    |-> Cardinality(own),
   indexed   |-> Cardinality(own \cap done),
   pending   |-> Cardinality(own \ done),
   faces     |-> Cardinality({x \in embeddings : x[1] \in own /\ x[2] = Current}),
   discarded |-> Cardinality(DiscardedFaces(own))]

\* A share without a whole is zero; EventSummary and SystemStatistics derive
\* theirs from the same counters.
Rate(part, whole) == IF whole = 0 THEN <<0, 1>> ELSE <<part, whole>>
IndexingCompletion(counts) == Rate(counts.indexed, counts.images)
QualityRejection(counts) == Rate(counts.discarded, counts.faces + counts.discarded)
IsSearchable(counts) == counts.faces > 0

\* ORDER BY event_date DESC, id DESC: e's position, from 0.
Position(e) == Cardinality({d \in events : d > e})

Page(offset, limit) ==
  LET taken == {e \in events : Position(e) \in offset..(offset + limit - 1)}
  IN [n \in 1..Cardinality(taken) |-> Row(CHOOSE e \in taken : Position(e) = offset + n - 1)]

\* Mutation: the detail shows the faces of every model version.
FacesOfAnyVersion(e) == {<<x[1], x[3]>> : x \in {y \in embeddings : y[1] \in ImagesOf(e)}}

FacesOf(e) ==
  {<<x[1], x[3]>> : x \in {y \in embeddings : y[1] \in ImagesOf(e) /\ y[2] = Current}}

\* Mutation: an image counts once per model version that indexed it.
IndexedByVersion == {<<x[1], x[2]>> : x \in embeddings}

IndexedImages == done

Result(statement) ==
  CASE statement = "events"     -> Cardinality(events)
    [] statement = "images"     -> Cardinality(images)
    [] statement = "indexed"    -> Cardinality(IndexedImages)
    [] statement = "pending"    -> Cardinality(images \ done)
    [] statement = "faces"      -> Cardinality(embeddings)
    [] statement = "rejected"   -> Cardinality(DiscardedFaces(images))
    [] statement = "searches"   -> Len(searches)
    [] statement = "empty"      -> Cardinality({n \in DOMAIN searches : ~searches[n]})
    [] statement = "reasons"    -> DiscardedFaces(images)
    [] statement = "versions"   -> {x[2] : x \in embeddings}
    [] statement = "page"       -> Page(arg.offset, arg.limit)
    [] statement = "event"      -> arg \in events
    [] statement = "embeddings" -> FacesOf(arg)
    [] statement = "discarded"  -> DiscardedFaces(ImagesOf(arg))
    [] statement = "rows"       -> [all |-> ImagesOf(arg), done |-> ImagesOf(arg) \cap done]

\* A request of the dashboard, of the list or of the detail.
StartReading(k, a) ==
  /\ kind = "none"
  /\ kind' = k /\ arg' = a
  /\ UNCHANGED <<database, got, raced>>

Missing == kind = "detail" /\ got # <<>> /\ ~got[1]

\* The next statement; an event that does not exist ends the reading (404).
Read ==
  /\ Len(got) < Len(Statements(kind))
  /\ ~Missing
  /\ got' = Append(got, Result(Statements(kind)[Len(got) + 1]))
  /\ UNCHANGED <<database, kind, arg, raced>>

ReadingsNext ==
  \/ \E i \in Images : ImportImage(i) \/ \E v \in Versions : IndexImage(i, v)
  \/ \E found \in BOOLEAN : RecordSearch(found)
  \/ \E e \in Events : DeleteEvent(e)
  \/ StartReading("statistics", 0)
  \/ \E o \in 0..(Cardinality(Events) + 1), n \in PageSizes :
       StartReading("list", [offset |-> o, limit |-> n])
  \/ \E e \in Events : StartReading("detail", e)
  \/ Read

-----------------------------------------------------------------------------
(* What is shown.                                                          *)
Shown(k) == kind = k /\ Len(got) = Len(Statements(k))
At(statement) == got[CHOOSE n \in DOMAIN got : Statements(kind)[n] = statement]

\* The dashboard's counters, and the share of searches without a result.
Statistics ==
  [images |-> At("images"), indexed |-> At("indexed"), pending |-> At("pending"),
   faces |-> At("faces"), discarded |-> At("rejected")]
EmptySearches == Rate(At("empty"), At("searches"))

\* SystemStatistics.__post_init__ and EventCatalogPage.__post_init__ raise.
StatisticsRaise == At("indexed") > At("images") \/ At("empty") > At("searches")
PageRaises == arg.offset + Len(At("page")) > At("events")

\* Mutation: the page's length alone is compared with the total.
MoreThanPage == Len(At("page")) < At("events")

HasMore == arg.offset + Len(At("page")) < At("events")

\* EventDetail: the images, each with the faces read for it.
FacesShown == {x \in At("embeddings") : x[1] \in At("rows").all}
Detail ==
  [event     |-> arg,
   images    |-> Cardinality(At("rows").all),
   indexed   |-> Cardinality(At("rows").done),
   pending   |-> Cardinality(At("rows").all \ At("rows").done),
   faces     |-> Cardinality(FacesShown),
   discarded |-> Cardinality({x \in At("discarded") : x[1] \in At("rows").all})]

-----------------------------------------------------------------------------
(* Replays insert the rejected faces of an image again, without uniqueness;*)
(* no screen ever shows more faces discarded than the filter discarded.    *)
DiscardedOnce ==
  LET DroppedOf(S) == Cardinality(UNION {{<<i, f>> : f \in Dropped[i]} : i \in S}) IN
  /\ Shown("statistics") => Statistics.discarded <= DroppedOf(Images)
  /\ Shown("detail") => Detail.discarded <= DroppedOf({i \in Images : ImageEvent[i] = arg})
  /\ Shown("list") =>
       \A n \in DOMAIN At("page") :
         At("page")[n].discarded
           <= DroppedOf({i \in Images : ImageEvent[i] = At("page")[n].event})

(* The guards of the read models raise only for a race with a writer, or   *)
(* for an offset beyond the end (which the route accepts): at rest the     *)
(* queries count subsets within their sets, and no share exceeds one.      *)
OnlyARaceRaises ==
  ~raced =>
    /\ Shown("statistics") =>
         /\ ~StatisticsRaise
         /\ \A share \in {EmptySearches, IndexingCompletion(Statistics), QualityRejection(Statistics)} :
              share[1] <= share[2]
    /\ Shown("list") /\ PageRaises => arg.offset > Cardinality(events)

(* "Is there more" is right at rest: yes exactly when an event follows the *)
(* last one of the page.                                                   *)
MoreIsTold ==
  Shown("list") /\ ~raced /\ ~PageRaises =>
    (HasMore <=> \E e \in events : Position(e) >= arg.offset + Len(At("page")))

(* An indexed face is never shown beside an image that is not indexed yet: *)
(* the list is one statement, the detail reads the faces before the images.*)
FacesOfIndexedImages ==
  /\ Shown("list") =>
       \A n \in DOMAIN At("page") :
         LET row == At("page")[n] IN
         /\ IsSearchable(row) => row.indexed > 0
         /\ row.indexed + row.pending = row.images
  /\ Shown("detail") => \A x \in FacesShown : x[1] \in At("rows").done

\* The sum of the numbers f[e]: a pair <<e, n>> for each unit.
Total(f) == Cardinality(UNION {{e} \X (1..f[e]) : e \in DOMAIN f})

(* At rest the screens agree: the detail's counters are those of the list, *)
(* and the dashboard's are the sums of the events', images, statuses,      *)
(* rejected faces, and the faces too when one model version is in use.     *)
ScreensAgree ==
  ~raced =>
    /\ Shown("detail") => Detail = Row(arg)
    /\ Shown("statistics") =>
         /\ At("rejected") = Cardinality(At("reasons"))
         /\ \A counter \in {"images", "indexed", "pending", "discarded", "faces"} :
              (counter = "faces" => At("versions") \subseteq {Current})
              => Statistics[counter] = Total([e \in events |-> Row(e)[counter]])

-----------------------------------------------------------------------------
(* The invariant of the proofs: at rest, what was read is what is there.   *)
RestInv ==
  /\ IsFiniteSet(embeddings)
  /\ kind = "list" => arg.offset \in Nat /\ arg.limit \in Nat
  /\ kind = "detail" => arg \in Events
  /\ ~raced => \A n \in 1..Len(got) : got[n] = Result(Statements(kind)[n])
=============================================================================
