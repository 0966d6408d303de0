----------------------------- MODULE EventImport -----------------------------
(***************************************************************************)
(* Importing photos into an event: event_import, used by the API's route   *)
(* and by the command import_folder.                                       *)
(*                                                                         *)
(* An importer is a process: the route does not yield while it imports, so *)
(* that a process imports one photo at a time, but there are replicas and  *)
(* commands.  A photo takes three steps on the outside: the object store,  *)
(* the transaction that inserts the row and the one that indexes it.       *)
(* Requests that are refused at once (404, 413, 422) change nothing and    *)
(* are left out; there is one model version.                               *)
(***************************************************************************)
EXTENDS Naturals, Sequences, FiniteSets

CONSTANTS
  Importers,    \* processes that import
  Events,       \* ids that events may get
  Photos,       \* contents, told apart by their SHA-256
  Suffixes,     \* of file names
  Unreadable,   \* contents that the detector cannot decode
  Batches,      \* sequences of files that a request or a folder may hold
  MaxRequests,  \* bound of the model: requests received
  MaxFailures   \* bound of the model: calls that fail, processes that die

Files == [photo : Photos, suffix : Suffixes]

ASSUME ImportAssumption ==
  /\ IsFiniteSet(Importers)
  /\ Events # {}
  /\ Unreadable \subseteq Photos
  /\ Batches \subseteq Seq(Files) \ {<<>>}
  /\ MaxRequests \in Nat
  /\ MaxFailures \in Nat

\* An object's key is made of the event, the hash and the suffix, and so is the
\* storage_uri of a row: a row and its object have the same description.
Entries == [event : Events, file : Files]

VARIABLES
  events,     \* rows of events
  rows,       \* rows of event_images; an image's id is its position
  done,       \* ids of the images whose index_status is "done"
  objects,    \* objects in the store
  pc,         \* next step of each importer
  target,     \* event of its request
  batch,      \* files of its request
  results,    \* results so far, one per file handled
  image,      \* image_id of the row just inserted
  requests,   \* number of requests received
  failures,   \* history: number of failed calls and deaths
  conflicts   \* history: number of uniqueness errors

storeVars    == <<events, rows, done, objects>>
requestVars  == <<target, batch, requests>>
historyVars  == <<failures, conflicts>>
vars == <<storeVars, pc, results, image, requestVars, historyVars>>

Resting == {"idle", "answered", "failed"}
Working == {"check", "put", "insert", "index"}

Results == [image : Nat, duplicate : BOOLEAN]

TypeOK ==
  /\ events \subseteq Events
  /\ rows \in Seq(Entries)
  /\ done \subseteq DOMAIN rows
  /\ objects \subseteq Entries
  /\ pc \in [Importers -> Resting \cup Working]
  /\ target \in [Importers -> Events]
  /\ batch \in [Importers -> Seq(Files)]
  /\ results \in [Importers -> Seq(Results)]
  /\ image \in [Importers -> Nat]
  /\ requests \in 0..MaxRequests
  /\ failures \in 0..MaxFailures
  /\ conflicts \in Nat

Init ==
  /\ events = {} /\ rows = <<>> /\ done = {} /\ objects = {}
  /\ pc = [p \in Importers |-> "idle"]
  /\ target = [p \in Importers |-> CHOOSE e \in Events : TRUE]
  /\ batch = [p \in Importers |-> <<>>]
  /\ results = [p \in Importers |-> <<>>]
  /\ image = [p \in Importers |-> 0]
  /\ requests = 0 /\ failures = 0 /\ conflicts = 0

RowsOf(photo) == {i \in DOMAIN rows : rows[i].file.photo = photo}

Current(p) == batch[p][Len(results[p]) + 1]
CurrentEntry(p) == [event |-> target[p], file |-> Current(p)]

GoTo(p, label) == pc' = [pc EXCEPT ![p] = label]

\* The file's result; then the next file, or the answer.
Report(p, i, dup) ==
  /\ results' = [results EXCEPT ![p] =
        Append(@, [image |-> i, duplicate |-> dup])]
  /\ GoTo(p, IF Len(results[p]) + 1 = Len(batch[p]) THEN "answered" ELSE "check")

-----------------------------------------------------------------------------
(* create_event, by the route or the command.  Nothing is looked for.      *)
CreateEvent(e) ==
  /\ e \notin events
  /\ events' = events \cup {e}
  /\ UNCHANGED <<rows, done, objects, pc, results, image, requestVars, historyVars>>

\* A request, or a folder, for an event that exists (get_event).
Receive(p, e, b) ==
  /\ pc[p] \in Resting
  /\ e \in events
  /\ requests < MaxRequests
  /\ requests' = requests + 1
  /\ target' = [target EXCEPT ![p] = e]
  /\ batch' = [batch EXCEPT ![p] = b]
  /\ results' = [results EXCEPT ![p] = <<>>]
  /\ GoTo(p, "check")
  /\ UNCHANGED <<storeVars, image, historyVars>>

-----------------------------------------------------------------------------
(* import_and_index_image.                                                 *)

\* The SELECT by content_hash finds nothing.
CheckNew(p) ==
  /\ pc[p] = "check"
  /\ RowsOf(Current(p).photo) = {}
  /\ GoTo(p, "put")
  /\ UNCHANGED <<storeVars, results, image, requestVars, historyVars>>

\* Mutation: the object is stored before the SELECT.
StoreThenReport(p) ==
  /\ pc[p] = "check"
  /\ \E i \in RowsOf(Current(p).photo) : Report(p, i, TRUE)
  /\ objects' = objects \cup {CurrentEntry(p)}
  /\ UNCHANGED <<events, rows, done, image, requestVars, historyVars>>

\* It finds a row, of any event and any status.
CheckDuplicate(p) ==
  /\ pc[p] = "check"
  /\ \E i \in RowsOf(Current(p).photo) : Report(p, i, TRUE)
  /\ UNCHANGED <<storeVars, image, requestVars, historyVars>>

Store(p) == objects' = objects \cup {CurrentEntry(p)}

\* Mutation: a failure of put_object is swallowed.
PutMaybe(p) ==
  /\ pc[p] = "put"
  /\ Store(p) \/ UNCHANGED objects
  /\ GoTo(p, "insert")
  /\ UNCHANGED <<events, rows, done, results, image, requestVars, historyVars>>

Put(p) ==
  /\ pc[p] = "put"
  /\ Store(p)
  /\ GoTo(p, "insert")
  /\ UNCHANGED <<events, rows, done, results, image, requestVars, historyVars>>

\* Mutation: content_hash is not unique.
NotUnique(photo) == TRUE
Unique(photo) == RowsOf(photo) = {}

\* The INSERT and its commit.  A second INSERT of the same hash waits for the
\* first transaction: the two are one step.
InsertRow(p) ==
  /\ Unique(Current(p).photo)
  /\ rows' = Append(rows, CurrentEntry(p))

\* Mutation: the row is reported at once, its indexing is left to the trigger.
InsertAndReport(p) ==
  /\ pc[p] = "insert"
  /\ InsertRow(p)
  /\ Report(p, Len(rows) + 1, FALSE)
  /\ UNCHANGED <<events, done, objects, image, requestVars, historyVars>>

Insert(p) ==
  /\ pc[p] = "insert"
  /\ InsertRow(p)
  /\ image' = [image EXCEPT ![p] = Len(rows) + 1]
  /\ GoTo(p, "index")
  /\ UNCHANGED <<events, done, objects, results, requestVars, historyVars>>

\* The uniqueness error rolls back; it ends the request.
InsertRefused(p) ==
  /\ pc[p] = "insert"
  /\ ~Unique(Current(p).photo)
  /\ conflicts' = conflicts + 1
  /\ GoTo(p, "failed")
  /\ UNCHANGED <<storeVars, results, image, requestVars, failures>>

\* Indexing an image: its object is read and decoded.
Indexable(i) == rows[i] \in objects /\ rows[i].file.photo \notin Unreadable
MarkDone(i) == Indexable(i) /\ done' = done \cup {i}

Index(p) ==
  /\ pc[p] = "index"
  /\ MarkDone(image[p])
  /\ Report(p, image[p], FALSE)
  /\ UNCHANGED <<events, rows, objects, image, requestVars, historyVars>>

\* Mutation: the photo is reported although its indexing raised.
IndexSwallowed(p) ==
  /\ pc[p] = "index"
  /\ ~Indexable(image[p])
  /\ Report(p, image[p], FALSE)
  /\ UNCHANGED <<storeVars, image, requestVars, historyVars>>

\* The row stays, pending; the request ends, with the files that remain.
IndexRaises(p) ==
  /\ pc[p] = "index"
  /\ ~Indexable(image[p])
  /\ GoTo(p, "failed")
  /\ UNCHANGED <<storeVars, results, image, requestVars, historyVars>>

\* The call under way raises, or the process dies in it: the call has taken
\* effect or not, and nobody gets the results of the request.
Fails(p) ==
  /\ pc[p] \in Working
  /\ failures < MaxFailures
  /\ failures' = failures + 1
  /\ GoTo(p, "failed")
  /\ \/ UNCHANGED <<rows, done, objects>>
     \/ pc[p] = "put"    /\ Store(p)            /\ UNCHANGED <<rows, done>>
     \/ pc[p] = "insert" /\ InsertRow(p)        /\ UNCHANGED <<done, objects>>
     \/ pc[p] = "index"  /\ MarkDone(image[p])  /\ UNCHANGED <<rows, objects>>
  /\ UNCHANGED <<events, results, image, requestVars, conflicts>>

-----------------------------------------------------------------------------
\* The trigger selects a pending row and a worker indexes it (IndexingService's
\* Submit and Serve).
Repair(i) ==
  /\ i \notin done
  /\ MarkDone(i)
  /\ UNCHANGED <<events, rows, objects, pc, results, image, requestVars, historyVars>>

ImportStep(p) ==
  \/ CheckNew(p) \/ CheckDuplicate(p)
  \/ Put(p)
  \/ Insert(p) \/ InsertRefused(p)
  \/ Index(p) \/ IndexRaises(p)
  \/ Fails(p)

Next ==
  \/ \E e \in Events : CreateEvent(e)
  \/ \E p \in Importers :
       \/ \E e \in Events, b \in Batches : Receive(p, e, b)
       \/ ImportStep(p)
  \/ \E i \in DOMAIN rows : Repair(i)

Spec == Init /\ [][Next]_vars

-----------------------------------------------------------------------------
(* Properties.                                                             *)

\* A photo is imported once, whoever imports it, in whatever event and however
\* often a failed request is sent again: the test and the insertion are two
\* statements, and other importers run between them.
OneRowPerPhoto == \A i, j \in DOMAIN rows :
  rows[i].file.photo = rows[j].file.photo => i = j

\* Every row's object is stored, whatever failed on the way: the trigger and a
\* worker can index a row that a failed import left pending.
EveryRowStored == \A i \in DOMAIN rows : rows[i] \in objects

TrueResults(p) == \A k \in DOMAIN results[p] :
  LET r == results[p][k]
  IN  /\ r.image \in RowsOf(batch[p][k].photo)
      /\ ~r.duplicate =>
           r.image \in done /\ rows[r.image].event = target[p]

\* What the results say is so, also after other importers and the workers went
\* on: a result names a row of its photo; a photo reported as imported belongs
\* to the event asked for and is indexed.
ResultsAreTrue == \A p \in Importers : TrueResults(p)

\* No photo is reported as imported by two results.
ImportedOnce == \A p, q \in Importers :
  \A k \in DOMAIN results[p], l \in DOMAIN results[q] :
    /\ ~results[p][k].duplicate /\ ~results[q][l].duplicate
    /\ batch[p][k].photo = batch[q][l].photo
    => p = q /\ k = l

Orphans == {o \in objects : ~\E i \in DOMAIN rows : rows[i] = o}

\* Objects that no row names come from failures, from lost races and from the
\* imports under way: an import that succeeds, or reports a duplicate, leaves
\* none.
OrphansBounded ==
  Cardinality(Orphans) <=
    failures + conflicts + Cardinality({p \in Importers : pc[p] = "insert"})

Left == {i \in DOMAIN rows :
  /\ i \notin done /\ rows[i].file.photo \notin Unreadable
  /\ ~\E p \in Importers : pc[p] = "index" /\ image[p] = i}

\* Every row of a readable photo that is pending, and that no importer is about
\* to index, comes from a failure of its own: the row is committed before the
\* indexing, and a new import of the photo reports the duplicate without
\* indexing it.  Imports that run to their end, races and uniqueness errors
\* leave none.
LeftByFailures == Cardinality(Left) <= failures

-----------------------------------------------------------------------------
(* The inductive invariant behind the first three.                         *)

\* An importer about to insert has stored the object; about to index, it knows
\* the row it has inserted.
ImporterInv(p) ==
  /\ Len(results[p]) <= Len(batch[p])
  /\ pc[p] \in Working => Len(results[p]) < Len(batch[p])
  /\ pc[p] = "insert" => CurrentEntry(p) \in objects
  /\ pc[p] = "index" =>
       image[p] \in DOMAIN rows /\ rows[image[p]] = CurrentEntry(p)
  /\ TrueResults(p)

IInv ==
  /\ TypeOK
  /\ OneRowPerPhoto
  /\ EveryRowStored
  /\ \A p \in Importers : ImporterInv(p)
=============================================================================
