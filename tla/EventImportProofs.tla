-------------------------- MODULE EventImportProofs --------------------------
(***************************************************************************)
(* Proofs about EventImport for every set of importers, events, photos and *)
(* batches; then about FolderImport: the command has left nothing behind   *)
(* of the folders it went through.                                         *)
(***************************************************************************)
EXTENDS FolderImport, FiniteSetTheorems, TLAPS

\* What a step may do to the store without disturbing an importer that does not
\* move: rows keep their ids, nothing is removed.
Grown ==
  /\ DOMAIN rows \subseteq DOMAIN rows'
  /\ \A i \in DOMAIN rows : rows'[i] = rows[i]
  /\ done \subseteq done'
  /\ objects \subseteq objects'

\* The local state of an importer.
Local(p) == <<pc[p], target[p], batch[p], results[p], image[p]>>

\* An insertion only adds a row, at the end.
LEMMA InsertGrows ==
  ASSUME TypeOK, NEW e \in Entries, rows' = Append(rows, e)
  PROVE  /\ rows' \in Seq(Entries)
         /\ DOMAIN rows' = DOMAIN rows \cup {Len(rows) + 1}
         /\ Len(rows) + 1 \notin DOMAIN rows
         /\ \A i \in DOMAIN rows : rows'[i] = rows[i]
         /\ rows'[Len(rows) + 1] = e
<1>1. rows \in Seq(Entries)
  BY DEF TypeOK
<1>2. /\ rows' \in Seq(Entries) /\ Len(rows') = Len(rows) + 1
      /\ \A i \in 1..Len(rows) : rows'[i] = rows[i]
      /\ rows'[Len(rows) + 1] = e
  BY <1>1
<1>3. DOMAIN rows = 1..Len(rows) /\ DOMAIN rows' = 1..(Len(rows) + 1) /\ Len(rows) \in Nat
  BY <1>1, <1>2
<1> QED
  BY <1>2, <1>3

\* The file an importer is at.
LEMMA CurrentType ==
  ASSUME TypeOK, NEW p \in Importers, ImporterInv(p), pc[p] \in Working
  PROVE  Current(p) \in Files /\ CurrentEntry(p) \in Entries
<1>1. /\ batch[p] \in Seq(Files) /\ results[p] \in Seq(Results) /\ target[p] \in Events
      /\ Len(results[p]) < Len(batch[p])
  BY DEF TypeOK, ImporterInv
<1>2. Len(results[p]) + 1 \in 1..Len(batch[p])
  BY <1>1
<1>3. Current(p) \in Files
  BY <1>1, <1>2 DEF Current
<1> QED
  BY <1>1, <1>3 DEF CurrentEntry, Entries

\* Results stay true while the store grows.
LEMMA ResultsStayTrue ==
  ASSUME NEW p \in Importers, TrueResults(p), Grown,
         UNCHANGED <<target[p], batch[p], results[p]>>
  PROVE  TrueResults(p)'
<1> SUFFICES ASSUME NEW k \in DOMAIN results[p]
             PROVE  LET r == results[p][k]
                    IN  /\ r.image \in RowsOf(batch[p][k].photo)'
                        /\ ~r.duplicate =>
                             r.image \in done' /\ rows'[r.image].event = target[p]
  BY DEF TrueResults
<1> DEFINE r == results[p][k]
<1>1. /\ r.image \in RowsOf(batch[p][k].photo)
      /\ ~r.duplicate => r.image \in done /\ rows[r.image].event = target[p]
  BY DEF TrueResults
<1>2. r.image \in DOMAIN rows /\ rows[r.image].file.photo = batch[p][k].photo
  BY <1>1 DEF RowsOf
<1>3. r.image \in DOMAIN rows' /\ rows'[r.image] = rows[r.image] /\ done \subseteq done'
  BY <1>2 DEF Grown
<1> QED
  BY <1>1, <1>2, <1>3 DEF RowsOf

\* An importer that does not move is not disturbed by the others.
LEMMA OtherImporter ==
  ASSUME NEW p \in Importers, ImporterInv(p), Grown, UNCHANGED Local(p)
  PROVE  ImporterInv(p)'
<1>1. UNCHANGED <<pc[p], target[p], batch[p], results[p], image[p]>>
  BY DEF Local
<1>2. TrueResults(p)'
  BY <1>1, ResultsStayTrue DEF ImporterInv
<1>3. CurrentEntry(p)' = CurrentEntry(p)
  BY <1>1 DEF CurrentEntry, Current
<1>4. pc[p] = "insert" => CurrentEntry(p) \in objects'
  BY DEF ImporterInv, Grown
<1>5. pc[p] = "index" =>
        image[p] \in DOMAIN rows' /\ rows'[image[p]] = CurrentEntry(p)
  BY DEF ImporterInv, Grown
<1> QED
  BY <1>1, <1>2, <1>3, <1>4, <1>5 DEF ImporterInv

\* A step of one importer: the store grows, the others stay where they are.
LEMMA OneImporterMoves ==
  ASSUME IInv, NEW p \in Importers, Grown, TypeOK', OneRowPerPhoto', EveryRowStored',
         \A q \in Importers \ {p} : UNCHANGED Local(q),
         ImporterInv(p)'
  PROVE  IInv'
<1>1. ASSUME NEW q \in Importers \ {p} PROVE ImporterInv(q)'
  BY <1>1, OtherImporter DEF IInv
<1> QED
  BY <1>1 DEF IInv

\* Changing the program counter of p alone.
LEMMA GoToLocal ==
  ASSUME TypeOK, NEW p \in Importers, NEW label \in Resting \cup Working, GoTo(p, label),
         UNCHANGED <<target, batch, results>>,
         NEW x, image' = [image EXCEPT ![p] = x]
  PROVE  /\ pc' \in [Importers -> Resting \cup Working]
         /\ pc'[p] = label
         /\ \A q \in Importers \ {p} : UNCHANGED Local(q)
<1>1. pc \in [Importers -> Resting \cup Working] /\ image \in [Importers -> Nat]
  BY DEF TypeOK
<1>2. pc' = [pc EXCEPT ![p] = label]
  BY DEF GoTo
<1>3. ASSUME NEW q \in Importers \ {p} PROVE pc'[q] = pc[q] /\ image'[q] = image[q]
  BY <1>1, <1>2
<1> QED
  BY <1>1, <1>2, <1>3 DEF Local

\* A report adds one result, which must be true; it leads to the next file or
\* to the answer.
LEMMA ReportInv ==
  ASSUME IInv, NEW p \in Importers, pc[p] \in Working,
         NEW i \in DOMAIN rows, NEW dup \in BOOLEAN, Report(p, i, dup),
         rows[i].file.photo = Current(p).photo,
         ~dup => i \in done' /\ rows[i].event = target[p],
         Grown, UNCHANGED <<rows, target, batch, image>>
  PROVE  /\ pc' \in [Importers -> Resting \cup Working]
         /\ results' \in [Importers -> Seq(Results)]
         /\ \A q \in Importers \ {p} : UNCHANGED Local(q)
         /\ ImporterInv(p)'
<1> DEFINE r == [image |-> i, duplicate |-> dup]
           next == IF Len(results[p]) + 1 = Len(batch[p]) THEN "answered" ELSE "check"
<1>1. /\ TypeOK /\ ImporterInv(p)
      /\ pc \in [Importers -> Resting \cup Working]
      /\ results \in [Importers -> Seq(Results)] /\ results[p] \in Seq(Results)
      /\ rows \in Seq(Entries) /\ batch[p] \in Seq(Files)
  BY DEF IInv, TypeOK
<1>2. r \in Results
  BY <1>1 DEF Results
<1>3. /\ results' = [results EXCEPT ![p] = Append(results[p], r)]
      /\ pc' = [pc EXCEPT ![p] = next]
  BY DEF Report, GoTo
<1>4. next \in Resting \cup Working /\ next # "insert" /\ next # "index"
  BY DEF Resting, Working
<1> HIDE DEF next
<1>5. /\ pc' \in [Importers -> Resting \cup Working]
      /\ pc'[p] = next
      /\ \A q \in Importers \ {p} : pc'[q] = pc[q]
  BY <1>1, <1>3, <1>4
<1> HIDE DEF r
<1>6. /\ results' \in [Importers -> Seq(Results)]
      /\ results'[p] = Append(results[p], r)
      /\ \A q \in Importers \ {p} : results'[q] = results[q]
  BY <1>1, <1>2, <1>3
<1>7. /\ Len(results'[p]) = Len(results[p]) + 1
      /\ DOMAIN results'[p] = DOMAIN results[p] \cup {Len(results[p]) + 1}
      /\ \A k \in DOMAIN results[p] : results'[p][k] = results[p][k]
      /\ results'[p][Len(results[p]) + 1] = r
      /\ Len(results[p]) \in Nat /\ Len(batch[p]) \in Nat
  <2>1. /\ Len(results'[p]) = Len(results[p]) + 1
        /\ \A k \in 1..Len(results[p]) : results'[p][k] = results[p][k]
        /\ results'[p][Len(results[p]) + 1] = r
        /\ Len(results[p]) \in Nat /\ Len(batch[p]) \in Nat
    BY <1>1, <1>2, <1>6
  <2>2. DOMAIN results'[p] = 1..Len(results'[p]) /\ DOMAIN results[p] = 1..Len(results[p])
    BY <1>1, <1>6
  <2> QED
    BY <2>1, <2>2
<1>8. Len(results[p]) < Len(batch[p])
  BY <1>1 DEF ImporterInv
<1>9. TrueResults(p)'
  <2>1. SUFFICES ASSUME NEW k \in DOMAIN results'[p]
                 PROVE  LET s == results'[p][k]
                        IN  /\ s.image \in RowsOf(batch[p][k].photo)'
                            /\ ~s.duplicate =>
                                 s.image \in done' /\ rows'[s.image].event = target'[p]
    BY DEF TrueResults
  <2>2. CASE k \in DOMAIN results[p]
    <3>1. /\ results[p][k].image \in RowsOf(batch[p][k].photo)
          /\ ~results[p][k].duplicate =>
               results[p][k].image \in done /\ rows[results[p][k].image].event = target[p]
      BY <1>1, <2>2 DEF ImporterInv, TrueResults
    <3>2. done \subseteq done'
      BY DEF Grown
    <3> QED
      BY <1>7, <2>2, <3>1, <3>2 DEF RowsOf
  <2>3. CASE k = Len(results[p]) + 1
    <3>1. batch[p][k] = Current(p)
      BY <2>3 DEF Current
    <3>2. results'[p][k] = r /\ r.image = i /\ r.duplicate = dup
      BY <1>7, <2>3 DEF r
    <3>3. i \in RowsOf(Current(p).photo)
      BY DEF RowsOf
    <3>4. RowsOf(batch[p][k].photo)' = RowsOf(Current(p).photo)
      BY <3>1 DEF RowsOf
    <3> QED
      BY <3>2, <3>3, <3>4
  <2> QED
    BY <1>7, <2>2, <2>3
<1>10. next \in Working => Len(results[p]) + 1 < Len(batch[p])
  BY <1>7, <1>8 DEF next, Working
<1>11. ImporterInv(p)'
  BY <1>4, <1>5, <1>7, <1>8, <1>9, <1>10 DEF ImporterInv
<1>12. \A q \in Importers \ {p} : UNCHANGED Local(q)
  BY <1>5, <1>6 DEF Local
<1> QED
  BY <1>5, <1>6, <1>11, <1>12

-----------------------------------------------------------------------------
(* One lemma per action.                                                   *)

\* Nothing is imported and no request is received at the start.
LEMMA InitInv == Init => IInv
<1> SUFFICES ASSUME Init PROVE IInv
  OBVIOUS
<1>1. (CHOOSE e \in Events : TRUE) \in Events
  BY ImportAssumption
<1>2. TypeOK
  BY <1>1, ImportAssumption DEF Init, TypeOK, Resting
<1>3. ASSUME NEW p \in Importers PROVE ImporterInv(p)
  BY DEF Init, ImporterInv, TrueResults, Working
<1> QED
  BY <1>2, <1>3 DEF Init, IInv, OneRowPerPhoto, EveryRowStored

\* A step that leaves the rows alone, and removes no object, keeps what is said
\* of the rows.
LEMMA RowsUntouched ==
  ASSUME IInv, UNCHANGED rows, done \subseteq done', objects \subseteq objects'
  PROVE  Grown /\ OneRowPerPhoto' /\ EveryRowStored'
BY DEF IInv, Grown, OneRowPerPhoto, EveryRowStored

\* A new event disturbs nobody.
LEMMA CreateEventInv ==
  ASSUME IInv, NEW e \in Events, CreateEvent(e)
  PROVE  IInv'
<1>1. /\ events' = events \cup {e}
      /\ UNCHANGED <<rows, done, objects, pc, results, image, target, batch,
                     requests, failures, conflicts>>
  BY DEF CreateEvent, requestVars, historyVars
<1>2. Grown /\ OneRowPerPhoto' /\ EveryRowStored'
  BY <1>1, RowsUntouched
<1>3. TypeOK'
  BY <1>1 DEF IInv, TypeOK
<1>4. ASSUME NEW p \in Importers PROVE ImporterInv(p)'
  BY <1>1, <1>2, OtherImporter DEF IInv, Local
<1> QED
  BY <1>2, <1>3, <1>4 DEF IInv

\* A request starts with no result and at least one file.
LEMMA ReceiveInv ==
  ASSUME IInv, NEW p \in Importers, NEW e \in Events, NEW b \in Batches, Receive(p, e, b)
  PROVE  IInv'
<1>1. /\ requests' = requests + 1 /\ requests < MaxRequests
      /\ target' = [target EXCEPT ![p] = e]
      /\ batch' = [batch EXCEPT ![p] = b]
      /\ results' = [results EXCEPT ![p] = <<>>]
      /\ pc' = [pc EXCEPT ![p] = "check"]
      /\ UNCHANGED <<events, rows, done, objects, image, failures, conflicts>>
  BY DEF Receive, GoTo, storeVars, historyVars
<1>2. TypeOK
  BY DEF IInv
<1>3. b \in Seq(Files) /\ Len(b) > 0 /\ MaxRequests \in Nat
  <2>1. b \in Seq(Files) /\ b # <<>> /\ MaxRequests \in Nat
    BY ImportAssumption
  <2> QED
    BY <2>1
<1>4. <<>> \in Seq(Results) /\ Len(<<>>) = 0 /\ DOMAIN <<>> = {}
  OBVIOUS
<1>5. /\ target' \in [Importers -> Events] /\ target'[p] = e
      /\ batch' \in [Importers -> Seq(Files)] /\ batch'[p] = b
      /\ results' \in [Importers -> Seq(Results)] /\ results'[p] = <<>>
      /\ pc' \in [Importers -> Resting \cup Working] /\ pc'[p] = "check"
  BY <1>1, <1>2, <1>3, <1>4 DEF TypeOK, Working
<1>6. TypeOK'
  BY <1>1, <1>2, <1>3, <1>5 DEF TypeOK
<1>7. Grown /\ OneRowPerPhoto' /\ EveryRowStored'
  BY <1>1, RowsUntouched
<1>8. ASSUME NEW q \in Importers \ {p} PROVE UNCHANGED Local(q)
  BY <1>1, <1>2 DEF TypeOK, Local
<1>9. ImporterInv(p)'
  BY <1>3, <1>4, <1>5 DEF ImporterInv, TrueResults
<1> QED
  BY <1>6, <1>7, <1>8, <1>9, OneImporterMoves

\* A step that only moves the program counter to a place where nothing is owed.
LEMMA OnlyMoves ==
  ASSUME IInv, NEW p \in Importers, NEW label \in {"put", "failed"}, GoTo(p, label),
         label = "put" => pc[p] \in Working,
         UNCHANGED <<events, target, batch, results, image, requests>>,
         Grown, OneRowPerPhoto', EveryRowStored',
         rows' \in Seq(Entries), done' \subseteq DOMAIN rows', objects' \subseteq Entries,
         failures' \in 0..MaxFailures, conflicts' \in Nat
  PROVE  IInv'
<1>1. TypeOK /\ ImporterInv(p) /\ label \in Resting \cup Working
  BY DEF IInv, Resting, Working
<1>2. image' = [image EXCEPT ![p] = image[p]]
  BY <1>1 DEF TypeOK
<1>3. /\ pc' \in [Importers -> Resting \cup Working] /\ pc'[p] = label
      /\ \A q \in Importers \ {p} : UNCHANGED Local(q)
  BY <1>1, <1>2, GoToLocal
<1>4. TypeOK'
  BY <1>1, <1>3 DEF TypeOK
<1>5. TrueResults(p)'
  BY <1>1, ResultsStayTrue DEF ImporterInv
<1>6. ImporterInv(p)'
  BY <1>1, <1>3, <1>5 DEF ImporterInv, Working
<1> QED
  BY <1>3, <1>4, <1>6, OneImporterMoves

\* Finding no row promises nothing about the next step: others may insert.
LEMMA CheckNewInv ==
  ASSUME IInv, NEW p \in Importers, CheckNew(p)
  PROVE  IInv'
<1>1. /\ pc[p] = "check" /\ GoTo(p, "put")
      /\ UNCHANGED <<events, rows, done, objects, results, image, target, batch,
                     requests, failures, conflicts>>
  BY DEF CheckNew, storeVars, requestVars, historyVars
<1>2. Grown /\ OneRowPerPhoto' /\ EveryRowStored'
  BY <1>1, RowsUntouched
<1>3. pc[p] \in Working
  BY <1>1 DEF Working
<1>4. /\ rows' \in Seq(Entries) /\ done' \subseteq DOMAIN rows' /\ objects' \subseteq Entries
      /\ failures' \in 0..MaxFailures /\ conflicts' \in Nat
  BY <1>1 DEF IInv, TypeOK
<1> QED
  BY <1>1, <1>2, <1>3, <1>4, OnlyMoves

\* A uniqueness error changes nothing in the store.
LEMMA InsertRefusedInv ==
  ASSUME IInv, NEW p \in Importers, InsertRefused(p)
  PROVE  IInv'
<1>1. /\ GoTo(p, "failed") /\ conflicts' = conflicts + 1
      /\ UNCHANGED <<events, rows, done, objects, results, image, target, batch,
                     requests, failures>>
  BY DEF InsertRefused, storeVars, requestVars
<1>2. Grown /\ OneRowPerPhoto' /\ EveryRowStored'
  BY <1>1, RowsUntouched
<1>3. /\ rows' \in Seq(Entries) /\ done' \subseteq DOMAIN rows' /\ objects' \subseteq Entries
      /\ failures' \in 0..MaxFailures /\ conflicts' \in Nat
  BY <1>1 DEF IInv, TypeOK
<1> QED
  BY <1>1, <1>2, <1>3, OnlyMoves

\* A photo that cannot be read keeps its row, pending.
LEMMA IndexRaisesInv ==
  ASSUME IInv, NEW p \in Importers, IndexRaises(p)
  PROVE  IInv'
<1>1. /\ GoTo(p, "failed")
      /\ UNCHANGED <<events, rows, done, objects, results, image, target, batch,
                     requests, failures, conflicts>>
  BY DEF IndexRaises, storeVars, requestVars, historyVars
<1>2. Grown /\ OneRowPerPhoto' /\ EveryRowStored'
  BY <1>1, RowsUntouched
<1>3. /\ rows' \in Seq(Entries) /\ done' \subseteq DOMAIN rows' /\ objects' \subseteq Entries
      /\ failures' \in 0..MaxFailures /\ conflicts' \in Nat
  BY <1>1 DEF IInv, TypeOK
<1> QED
  BY <1>1, <1>2, <1>3, OnlyMoves

\* A duplicate is reported with the row that was found.
LEMMA CheckDuplicateInv ==
  ASSUME IInv, NEW p \in Importers, CheckDuplicate(p)
  PROVE  IInv'
<1>1. PICK i \in RowsOf(Current(p).photo) : Report(p, i, TRUE)
  BY DEF CheckDuplicate
<1>2. /\ pc[p] = "check"
      /\ UNCHANGED <<events, rows, done, objects, image, target, batch,
                     requests, failures, conflicts>>
  BY DEF CheckDuplicate, storeVars, requestVars, historyVars
<1>3. i \in DOMAIN rows /\ rows[i].file.photo = Current(p).photo /\ pc[p] \in Working
  BY <1>1, <1>2 DEF RowsOf, Working
<1>4. Grown /\ OneRowPerPhoto' /\ EveryRowStored'
  BY <1>2, RowsUntouched
<1>5. /\ pc' \in [Importers -> Resting \cup Working]
      /\ results' \in [Importers -> Seq(Results)]
      /\ \A q \in Importers \ {p} : UNCHANGED Local(q)
      /\ ImporterInv(p)'
  BY <1>1, <1>2, <1>3, <1>4, ReportInv
<1>6. TypeOK'
  BY <1>2, <1>5 DEF IInv, TypeOK
<1> QED
  BY <1>4, <1>5, <1>6, OneImporterMoves

\* The object is stored before the importer goes on.
LEMMA PutInv ==
  ASSUME IInv, NEW p \in Importers, Put(p)
  PROVE  IInv'
<1>1. /\ pc[p] = "put" /\ objects' = objects \cup {CurrentEntry(p)} /\ GoTo(p, "insert")
      /\ UNCHANGED <<events, rows, done, results, image, target, batch,
                     requests, failures, conflicts>>
  BY DEF Put, Store, requestVars, historyVars
<1>2. TypeOK /\ ImporterInv(p) /\ pc[p] \in Working /\ "insert" \in Resting \cup Working
  BY <1>1 DEF IInv, Working
<1>3. CurrentEntry(p) \in Entries
  BY <1>2, CurrentType
<1>4. Grown /\ OneRowPerPhoto' /\ EveryRowStored'
  BY <1>1, RowsUntouched
<1>5. image' = [image EXCEPT ![p] = image[p]]
  BY <1>1, <1>2 DEF TypeOK
<1>6. /\ pc' \in [Importers -> Resting \cup Working] /\ pc'[p] = "insert"
      /\ \A q \in Importers \ {p} : UNCHANGED Local(q)
  BY <1>1, <1>2, <1>5, GoToLocal
<1>7. TypeOK'
  BY <1>1, <1>2, <1>3, <1>6 DEF TypeOK
<1>8. TrueResults(p)'
  BY <1>1, <1>2, <1>4, ResultsStayTrue DEF ImporterInv
<1>9. CurrentEntry(p)' \in objects'
  BY <1>1 DEF CurrentEntry, Current
<1>10. ImporterInv(p)'
  BY <1>1, <1>2, <1>6, <1>8, <1>9 DEF ImporterInv
<1> QED
  BY <1>4, <1>6, <1>7, <1>10, OneImporterMoves

\* An insertion keeps each photo in one row, whose object is stored: the
\* importer has stored it.
LEMMA InsertRowStore ==
  ASSUME IInv, NEW p \in Importers, pc[p] = "insert", InsertRow(p),
         UNCHANGED <<done, objects>>
  PROVE  /\ Grown /\ OneRowPerPhoto' /\ EveryRowStored'
         /\ rows' \in Seq(Entries) /\ done' \subseteq DOMAIN rows'
         /\ Len(rows) + 1 \in DOMAIN rows' /\ rows'[Len(rows) + 1] = CurrentEntry(p)
<1> DEFINE e == CurrentEntry(p)
<1>1. TypeOK /\ ImporterInv(p) /\ pc[p] \in Working
  BY DEF IInv, Working
<1>2. e \in Entries
  BY <1>1, CurrentType
<1>3. rows' = Append(rows, e) /\ RowsOf(e.file.photo) = {}
  BY DEF InsertRow, Unique, CurrentEntry
<1> HIDE DEF e
<1>4. /\ rows' \in Seq(Entries)
      /\ DOMAIN rows' = DOMAIN rows \cup {Len(rows) + 1}
      /\ Len(rows) + 1 \notin DOMAIN rows
      /\ \A i \in DOMAIN rows : rows'[i] = rows[i]
      /\ rows'[Len(rows) + 1] = e
  BY <1>1, <1>2, <1>3, InsertGrows
<1>5. \A i \in DOMAIN rows : rows[i].file.photo # e.file.photo
  BY <1>3 DEF RowsOf
<1>6. OneRowPerPhoto'
  BY <1>4, <1>5 DEF IInv, OneRowPerPhoto
<1>7. e \in objects
  BY <1>1 DEF ImporterInv, e
<1>8. EveryRowStored'
  BY <1>4, <1>7 DEF IInv, EveryRowStored
<1>9. Grown
  BY <1>4 DEF Grown
<1>10. done' \subseteq DOMAIN rows'
  BY <1>1, <1>4 DEF TypeOK
<1> QED
  BY <1>4, <1>6, <1>8, <1>9, <1>10 DEF e

\* After its insertion the importer knows the row it is going to index.
LEMMA InsertInv ==
  ASSUME IInv, NEW p \in Importers, Insert(p)
  PROVE  IInv'
<1>1. /\ pc[p] = "insert" /\ InsertRow(p) /\ GoTo(p, "index")
      /\ image' = [image EXCEPT ![p] = Len(rows) + 1]
      /\ UNCHANGED <<events, done, objects, results, target, batch,
                     requests, failures, conflicts>>
  BY DEF Insert, requestVars, historyVars
<1>2. /\ Grown /\ OneRowPerPhoto' /\ EveryRowStored'
      /\ rows' \in Seq(Entries) /\ done' \subseteq DOMAIN rows'
      /\ Len(rows) + 1 \in DOMAIN rows' /\ rows'[Len(rows) + 1] = CurrentEntry(p)
  BY <1>1, InsertRowStore
<1>3. TypeOK /\ ImporterInv(p) /\ pc[p] \in Working /\ "index" \in Resting \cup Working
  BY <1>1 DEF IInv, Working
<1>4. /\ pc' \in [Importers -> Resting \cup Working] /\ pc'[p] = "index"
      /\ \A q \in Importers \ {p} : UNCHANGED Local(q)
  BY <1>1, <1>3, GoToLocal
<1>5. image' \in [Importers -> Nat] /\ image'[p] = Len(rows) + 1
  BY <1>1, <1>3 DEF TypeOK
<1>6. TypeOK'
  BY <1>1, <1>2, <1>3, <1>4, <1>5 DEF TypeOK
<1>7. TrueResults(p)'
  BY <1>1, <1>2, <1>3, ResultsStayTrue DEF ImporterInv
<1>8. CurrentEntry(p)' = CurrentEntry(p)
  BY <1>1 DEF CurrentEntry, Current
<1>9. ImporterInv(p)'
  BY <1>1, <1>2, <1>3, <1>4, <1>5, <1>7, <1>8 DEF ImporterInv
<1> QED
  BY <1>2, <1>4, <1>6, <1>9, OneImporterMoves

\* The photo is reported as imported once its row is done.
LEMMA IndexInv ==
  ASSUME IInv, NEW p \in Importers, Index(p)
  PROVE  IInv'
<1>1. /\ pc[p] = "index" /\ done' = done \cup {image[p]} /\ Report(p, image[p], FALSE)
      /\ UNCHANGED <<events, rows, objects, image, target, batch,
                     requests, failures, conflicts>>
  BY DEF Index, MarkDone, requestVars, historyVars
<1>2. /\ TypeOK /\ ImporterInv(p) /\ pc[p] \in Working
      /\ image[p] \in DOMAIN rows /\ rows[image[p]] = CurrentEntry(p)
  BY <1>1 DEF IInv, Working, ImporterInv
<1>3. rows[image[p]].file = Current(p) /\ rows[image[p]].event = target[p]
  BY <1>2 DEF CurrentEntry
<1>4. Grown /\ OneRowPerPhoto' /\ EveryRowStored'
  BY <1>1, RowsUntouched
<1>5. /\ pc' \in [Importers -> Resting \cup Working]
      /\ results' \in [Importers -> Seq(Results)]
      /\ \A q \in Importers \ {p} : UNCHANGED Local(q)
      /\ ImporterInv(p)'
  BY <1>1, <1>2, <1>3, <1>4, ReportInv
<1>6. TypeOK'
  BY <1>1, <1>2, <1>5 DEF TypeOK
<1> QED
  BY <1>4, <1>5, <1>6, OneImporterMoves

\* A call that fails may have taken effect: the store is as after the call, and
\* the importer has let go of its request.
LEMMA FailsInv ==
  ASSUME IInv, NEW p \in Importers, Fails(p)
  PROVE  IInv'
<1>1. /\ pc[p] \in Working /\ GoTo(p, "failed")
      /\ failures < MaxFailures /\ failures' = failures + 1
      /\ UNCHANGED <<events, results, image, target, batch, requests, conflicts>>
  BY DEF Fails, requestVars
<1>2. TypeOK /\ ImporterInv(p) /\ MaxFailures \in Nat
  BY ImportAssumption DEF IInv
<1>3. failures' \in 0..MaxFailures /\ conflicts' \in Nat
  BY <1>1, <1>2 DEF TypeOK
<1>4. CurrentEntry(p) \in Entries
  BY <1>1, <1>2, CurrentType
<1>5. /\ Grown /\ OneRowPerPhoto' /\ EveryRowStored'
      /\ rows' \in Seq(Entries) /\ done' \subseteq DOMAIN rows' /\ objects' \subseteq Entries
  <2>1. CASE UNCHANGED <<rows, done, objects>>
    BY <1>2, <2>1, RowsUntouched DEF TypeOK
  <2>2. CASE Store(p) /\ UNCHANGED <<rows, done>>
    BY <1>2, <1>4, <2>2, RowsUntouched DEF TypeOK, Store
  <2>3. CASE pc[p] = "insert" /\ InsertRow(p) /\ UNCHANGED <<done, objects>>
    BY <1>2, <2>3, InsertRowStore DEF TypeOK
  <2>4. CASE pc[p] = "index" /\ MarkDone(image[p]) /\ UNCHANGED <<rows, objects>>
    <3>1. image[p] \in DOMAIN rows /\ done' = done \cup {image[p]}
      BY <1>2, <2>4 DEF ImporterInv, MarkDone
    <3> QED
      BY <1>2, <2>4, <3>1, RowsUntouched DEF TypeOK
  <2> QED
    BY <2>1, <2>2, <2>3, <2>4 DEF Fails
<1> QED
  BY <1>1, <1>3, <1>5, OnlyMoves

\* A worker indexes a row that was left pending.
LEMMA RepairInv ==
  ASSUME IInv, NEW i \in DOMAIN rows, Repair(i)
  PROVE  IInv'
<1>1. /\ done' = done \cup {i}
      /\ UNCHANGED <<events, rows, objects, pc, results, image, target, batch,
                     requests, failures, conflicts>>
  BY DEF Repair, MarkDone, requestVars, historyVars
<1>2. Grown /\ OneRowPerPhoto' /\ EveryRowStored'
  BY <1>1, RowsUntouched
<1>3. TypeOK'
  BY <1>1 DEF IInv, TypeOK
<1>4. ASSUME NEW p \in Importers PROVE ImporterInv(p)'
  BY <1>1, <1>2, OtherImporter DEF IInv, Local
<1> QED
  BY <1>2, <1>3, <1>4 DEF IInv

\* Every step preserves the invariant: one case per action.
LEMMA NextInv == IInv /\ [Next]_vars => IInv'
<1> SUFFICES ASSUME IInv, [Next]_vars PROVE IInv'
  OBVIOUS
<1>1. ASSUME NEW e \in Events, CreateEvent(e) PROVE IInv'
  BY <1>1, CreateEventInv
<1>2. ASSUME NEW p \in Importers, NEW e \in Events, NEW b \in Batches, Receive(p, e, b)
      PROVE IInv'
  BY <1>2, ReceiveInv
<1>3. ASSUME NEW p \in Importers, ImportStep(p) PROVE IInv'
  BY <1>3, CheckNewInv, CheckDuplicateInv, PutInv, InsertInv, InsertRefusedInv,
     IndexInv, IndexRaisesInv, FailsInv DEF ImportStep
<1>4. ASSUME NEW i \in DOMAIN rows, Repair(i) PROVE IInv'
  BY <1>4, RepairInv
<1>5. CASE UNCHANGED vars
  <2>1. UNCHANGED <<events, rows, done, objects, pc, results, image, target, batch,
                    requests, failures, conflicts>>
    BY <1>5 DEF vars, storeVars, requestVars, historyVars
  <2>2. Grown /\ OneRowPerPhoto' /\ EveryRowStored'
    BY <2>1, RowsUntouched
  <2>3. TypeOK'
    BY <2>1 DEF IInv, TypeOK
  <2>4. ASSUME NEW p \in Importers PROVE ImporterInv(p)'
    BY <2>1, <2>2, OtherImporter DEF IInv, Local
  <2> QED
    BY <2>2, <2>3, <2>4 DEF IInv
<1> QED
  BY <1>1, <1>2, <1>3, <1>4, <1>5 DEF Next

-----------------------------------------------------------------------------
\* Every variable keeps its type; in particular only rows that exist are done.
THEOREM ImportTypes == Spec => []TypeOK
<1>1. IInv => TypeOK
  BY DEF IInv
<1> QED
  BY <1>1, InitInv, NextInv, PTL DEF Spec

\* No photo gets two rows, however many importers race and fail
\* (OneRowPerPhoto): the constraint makes up for the test that comes too early.
THEOREM NoPhotoTwice == Spec => []OneRowPerPhoto
<1>1. IInv => OneRowPerPhoto
  BY DEF IInv
<1> QED
  BY <1>1, InitInv, NextInv, PTL DEF Spec

\* Every row can be indexed later from its object (EveryRowStored): a failure
\* leaves an object without a row, never a row without an object.
THEOREM NoDanglingRow == Spec => []EveryRowStored
<1>1. IInv => EveryRowStored
  BY DEF IInv
<1> QED
  BY <1>1, InitInv, NextInv, PTL DEF Spec

\* What an importer reports is so and stays so (ResultsAreTrue).
THEOREM HonestResults == Spec => []ResultsAreTrue
<1>1. IInv => ResultsAreTrue
  BY DEF IInv, ImporterInv, ResultsAreTrue
<1> QED
  BY <1>1, InitInv, NextInv, PTL DEF Spec

-----------------------------------------------------------------------------
(* No photo is reported as imported twice.                                 *)

\* The results of p that report an import.
Imports(p) == {k \in DOMAIN results[p] : ~results[p][k].duplicate}

\* A row is claimed by one importer at most, about to index it, or by one result.
OwnInv ==
  /\ \A p, q \in Importers : \A k \in Imports(p), l \in Imports(q) :
       results[p][k].image = results[q][l].image => p = q /\ k = l
  /\ \A p, q \in Importers : \A l \in Imports(q) :
       pc[p] = "index" => results[q][l].image # image[p]
  /\ \A p, q \in Importers :
       pc[p] = "index" /\ pc[q] = "index" /\ image[p] = image[q] => p = q

\* A step that reports nothing and starts no indexing claims no row.
LEMMA NothingClaimed ==
  ASSUME OwnInv,
         \A p \in Importers : results'[p] = results[p] \/ results'[p] = <<>>,
         \A p \in Importers : pc'[p] = "index" => pc[p] = "index" /\ image'[p] = image[p]
  PROVE  OwnInv'
<1>1. ASSUME NEW p \in Importers, NEW k \in Imports(p)'
      PROVE  k \in Imports(p) /\ results'[p][k] = results[p][k]
  <2>1. k \in DOMAIN results'[p] /\ ~results'[p][k].duplicate
    BY <1>1 DEF Imports
  <2>2. results'[p] = results[p]
    BY <2>1
  <2> QED
    BY <2>1, <2>2 DEF Imports
<1>2. \A p, q \in Importers : \A k \in Imports(p)', l \in Imports(q)' :
        results'[p][k].image = results'[q][l].image => p = q /\ k = l
  BY <1>1 DEF OwnInv
<1>3. \A p, q \in Importers : \A l \in Imports(q)' :
        pc'[p] = "index" => results'[q][l].image # image'[p]
  BY <1>1 DEF OwnInv
<1>4. \A p, q \in Importers :
        pc'[p] = "index" /\ pc'[q] = "index" /\ image'[p] = image'[q] => p = q
  BY DEF OwnInv
<1> QED
  BY <1>2, <1>3, <1>4 DEF OwnInv

\* A step of one importer, to another place than "index", claims no row.
LEMMA GoesElsewhere ==
  ASSUME IInv, OwnInv, NEW p \in Importers, NEW label, label # "index", GoTo(p, label),
         results' = results \/ results' = [results EXCEPT ![p] = <<>>],
         UNCHANGED image
  PROVE  OwnInv'
<1>1. /\ pc \in [Importers -> Resting \cup Working] /\ results \in [Importers -> Seq(Results)]
      /\ pc' = [pc EXCEPT ![p] = label]
  BY DEF IInv, TypeOK, GoTo
<1>2. \A q \in Importers : results'[q] = results[q] \/ results'[q] = <<>>
  BY <1>1
<1>3. \A q \in Importers : pc'[q] = "index" => pc[q] = "index" /\ image'[q] = image[q]
  BY <1>1
<1> QED
  BY <1>2, <1>3, NothingClaimed

\* The row of an insertion is new: nobody can have claimed it.
LEMMA InsertOwn ==
  ASSUME IInv, OwnInv, NEW p \in Importers, Insert(p)
  PROVE  OwnInv'
<1> DEFINE new == Len(rows) + 1
<1>1. /\ GoTo(p, "index") /\ image' = [image EXCEPT ![p] = new] /\ UNCHANGED results
  BY DEF Insert
<1>2. /\ pc \in [Importers -> Resting \cup Working] /\ image \in [Importers -> Nat]
      /\ pc' = [pc EXCEPT ![p] = "index"]
      /\ DOMAIN rows = 1..Len(rows) /\ Len(rows) \in Nat
  BY <1>1 DEF IInv, TypeOK, GoTo
<1>3. new \notin DOMAIN rows
  BY <1>2
<1> HIDE DEF new
<1>4. /\ image'[p] = new /\ pc'[p] = "index"
      /\ \A q \in Importers \ {p} : image'[q] = image[q] /\ pc'[q] = pc[q]
  BY <1>1, <1>2
<1>5. \A q \in Importers : pc[q] = "index" => image[q] \in DOMAIN rows
  BY DEF IInv, ImporterInv
<1>6. \A q \in Importers : \A l \in Imports(q) : results[q][l].image \in DOMAIN rows
  BY DEF IInv, ImporterInv, TrueResults, RowsOf, Imports
<1>7. \A q \in Importers : Imports(q)' = Imports(q)
  BY <1>1 DEF Imports
<1>8. \A q, s \in Importers : \A k \in Imports(q)', l \in Imports(s)' :
        results'[q][k].image = results'[s][l].image => q = s /\ k = l
  BY <1>1, <1>7 DEF OwnInv
<1>9. \A q, s \in Importers : \A l \in Imports(s)' :
        pc'[q] = "index" => results'[s][l].image # image'[q]
  BY <1>1, <1>3, <1>4, <1>6, <1>7 DEF OwnInv
<1>10. \A q, s \in Importers :
        pc'[q] = "index" /\ pc'[s] = "index" /\ image'[q] = image'[s] => q = s
  BY <1>3, <1>4, <1>5 DEF OwnInv
<1> QED
  BY <1>8, <1>9, <1>10 DEF OwnInv

\* A report of an import turns the importer's claim into the result's; a report
\* of a duplicate claims nothing.
LEMMA ReportOwn ==
  ASSUME IInv, OwnInv, NEW p \in Importers, NEW i \in Nat, NEW dup \in BOOLEAN,
         Report(p, i, dup), ~dup => pc[p] = "index" /\ i = image[p], UNCHANGED image
  PROVE  OwnInv'
<1> DEFINE n == Len(results[p]) + 1
           r == [image |-> i, duplicate |-> dup]
           next == IF n = Len(batch[p]) THEN "answered" ELSE "check"
<1>1. /\ pc \in [Importers -> Resting \cup Working]
      /\ results \in [Importers -> Seq(Results)] /\ results[p] \in Seq(Results)
      /\ results' = [results EXCEPT ![p] = Append(results[p], r)]
      /\ pc' = [pc EXCEPT ![p] = next]
  BY DEF IInv, TypeOK, Report, GoTo
<1>2. r \in Results /\ next # "index" /\ r.image = i /\ r.duplicate = dup
  BY DEF Results
<1> HIDE DEF r, next
<1>3. /\ results'[p] = Append(results[p], r)
      /\ pc'[p] # "index"
      /\ \A q \in Importers \ {p} : results'[q] = results[q] /\ pc'[q] = pc[q]
  BY <1>1, <1>2
<1>4. /\ DOMAIN results'[p] = DOMAIN results[p] \cup {n}
      /\ n \notin DOMAIN results[p]
      /\ results'[p][n] = r
      /\ \A k \in DOMAIN results[p] : results'[p][k] = results[p][k]
  <2>1. /\ Len(results'[p]) = n /\ results'[p] \in Seq(Results)
        /\ \A k \in 1..Len(results[p]) : results'[p][k] = results[p][k]
        /\ results'[p][n] = r
        /\ Len(results[p]) \in Nat
    BY <1>1, <1>2, <1>3
  <2>2. DOMAIN results'[p] = 1..Len(results'[p]) /\ DOMAIN results[p] = 1..Len(results[p])
    BY <1>1, <2>1
  <2> QED
    BY <2>1, <2>2
<1> HIDE DEF n
\* What a result that reports an import was before the step.
<1>5. ASSUME NEW q \in Importers, NEW k \in Imports(q)'
      PROVE  \/ k \in Imports(q) /\ results'[q][k] = results[q][k]
             \/ q = p /\ k = n /\ ~dup /\ results'[q][k].image = image[p]
  <2>1. k \in DOMAIN results'[q] /\ ~results'[q][k].duplicate
    BY <1>5 DEF Imports
  <2>2. CASE q # p
    <3>1. results'[q] = results[q]
      BY <1>3, <2>2
    <3> QED
      BY <2>1, <3>1 DEF Imports
  <2>3. CASE q = p /\ k \in DOMAIN results[p]
    <3>1. results'[q][k] = results[q][k]
      BY <1>4, <2>3
    <3> QED
      BY <2>1, <2>3, <3>1 DEF Imports
  <2>4. CASE q = p /\ k = n
    BY <1>2, <1>4, <2>1, <2>4
  <2> QED
    BY <1>4, <2>1, <2>2, <2>3, <2>4
<1>6. ~dup => pc[p] = "index"
  OBVIOUS
<1>7. ASSUME NEW q \in Importers, NEW s \in Importers,
             NEW k \in Imports(q)', NEW l \in Imports(s)',
             results'[q][k].image = results'[s][l].image
      PROVE  q = s /\ k = l
  <2>1. CASE k \in Imports(q) /\ results'[q][k] = results[q][k]
    <3>1. CASE l \in Imports(s) /\ results'[s][l] = results[s][l]
      BY <1>7, <2>1, <3>1 DEF OwnInv
    <3>2. CASE s = p /\ l = n /\ ~dup /\ results'[s][l].image = image[p]
      <4>1. results[q][k].image # image[p]
        BY <1>6, <2>1, <3>2 DEF OwnInv
      <4> QED
        BY <1>7, <2>1, <3>2, <4>1
    <3> QED
      BY <1>5, <3>1, <3>2
  <2>2. CASE q = p /\ k = n /\ ~dup /\ results'[q][k].image = image[p]
    <3>1. CASE l \in Imports(s) /\ results'[s][l] = results[s][l]
      <4>1. results[s][l].image # image[p]
        BY <1>6, <2>2, <3>1 DEF OwnInv
      <4> QED
        BY <1>7, <2>2, <3>1, <4>1
    <3>2. CASE s = p /\ l = n /\ ~dup /\ results'[s][l].image = image[p]
      BY <2>2, <3>2
    <3> QED
      BY <1>5, <3>1, <3>2
  <2> QED
    BY <1>5, <2>1, <2>2
<1>8. ASSUME NEW q \in Importers, NEW s \in Importers, NEW l \in Imports(s)',
             pc'[q] = "index"
      PROVE  results'[s][l].image # image'[q]
  <2>1. q # p /\ pc[q] = "index" /\ image'[q] = image[q]
    BY <1>3, <1>8
  <2>2. CASE l \in Imports(s) /\ results'[s][l] = results[s][l]
    BY <2>1, <2>2 DEF OwnInv
  <2>3. CASE ~dup /\ results'[s][l].image = image[p]
    BY <1>6, <2>1, <2>3 DEF OwnInv
  <2> QED
    BY <1>5, <2>2, <2>3
<1>9. ASSUME NEW q \in Importers, NEW s \in Importers,
             pc'[q] = "index", pc'[s] = "index", image'[q] = image'[s]
      PROVE  q = s
  BY <1>3, <1>9 DEF OwnInv
<1> QED
  BY <1>7, <1>8, <1>9 DEF OwnInv

\* Every step keeps the claims apart: only an insertion makes one.
LEMMA NextOwn == IInv /\ OwnInv /\ [Next]_vars => OwnInv'
<1> SUFFICES ASSUME IInv, OwnInv, [Next]_vars PROVE OwnInv'
  OBVIOUS
<1>1. CASE UNCHANGED <<pc, results, image>>
  BY <1>1, NothingClaimed
<1>2. ASSUME NEW e \in Events, CreateEvent(e) PROVE OwnInv'
  BY <1>1, <1>2 DEF CreateEvent
<1>3. ASSUME NEW p \in Importers, NEW e \in Events, NEW b \in Batches, Receive(p, e, b)
      PROVE OwnInv'
  BY <1>3, GoesElsewhere DEF Receive
<1>4. ASSUME NEW p \in Importers, ImportStep(p) PROVE OwnInv'
  <2>1. CASE CheckNew(p)
    BY <2>1, GoesElsewhere DEF CheckNew
  <2>2. CASE CheckDuplicate(p)
    <3>1. PICK i \in RowsOf(Current(p).photo) : Report(p, i, TRUE)
      BY <2>2 DEF CheckDuplicate
    <3>2. i \in Nat
      <4>1. rows \in Seq(Entries) /\ i \in DOMAIN rows
        BY <3>1 DEF IInv, TypeOK, RowsOf
      <4> QED
        BY <4>1
    <3> QED
      BY <2>2, <3>1, <3>2, ReportOwn DEF CheckDuplicate
  <2>3. CASE Put(p)
    BY <2>3, GoesElsewhere DEF Put
  <2>4. CASE Insert(p)
    BY <2>4, InsertOwn
  <2>5. CASE InsertRefused(p)
    BY <2>5, GoesElsewhere DEF InsertRefused
  <2>6. CASE Index(p)
    <3>1. image[p] \in Nat
      BY DEF IInv, TypeOK
    <3> QED
      BY <2>6, <3>1, ReportOwn DEF Index
  <2>7. CASE IndexRaises(p)
    BY <2>7, GoesElsewhere DEF IndexRaises
  <2>8. CASE Fails(p)
    BY <2>8, GoesElsewhere DEF Fails
  <2> QED
    BY <1>4, <2>1, <2>2, <2>3, <2>4, <2>5, <2>6, <2>7, <2>8 DEF ImportStep
<1>5. ASSUME NEW i \in DOMAIN rows, Repair(i) PROVE OwnInv'
  BY <1>1, <1>5 DEF Repair
<1>6. CASE UNCHANGED vars
  BY <1>1, <1>6 DEF vars
<1> QED
  BY <1>2, <1>3, <1>4, <1>5, <1>6 DEF Next

\* Two results that report the import of one photo name its only row.
LEMMA OwnersAreOne == IInv /\ OwnInv => ImportedOnce
<1> SUFFICES ASSUME IInv, OwnInv, NEW p \in Importers, NEW q \in Importers,
                    NEW k \in DOMAIN results[p], NEW l \in DOMAIN results[q],
                    ~results[p][k].duplicate, ~results[q][l].duplicate,
                    batch[p][k].photo = batch[q][l].photo
             PROVE  p = q /\ k = l
  BY DEF ImportedOnce
<1>1. /\ results[p][k].image \in RowsOf(batch[p][k].photo)
      /\ results[q][l].image \in RowsOf(batch[p][k].photo)
  BY DEF IInv, ImporterInv, TrueResults
<1>2. results[p][k].image = results[q][l].image
  BY <1>1 DEF IInv, OneRowPerPhoto, RowsOf
<1>3. k \in Imports(p) /\ l \in Imports(q)
  BY DEF Imports
<1> QED
  BY <1>2, <1>3 DEF OwnInv

\* No photo is reported as imported by two results (ImportedOnce): the loser of
\* a race on one photo fails, or reports a duplicate.
THEOREM NoDoubleReport == Spec => []ImportedOnce
<1>1. Init => OwnInv
  BY DEF Init, OwnInv, Imports
<1> QED
  BY <1>1, InitInv, NextInv, NextOwn, OwnersAreOne, PTL DEF Spec

-----------------------------------------------------------------------------
(* The objects that no row names.                                          *)

\* The importers about to insert: each may have stored an object that has no row.
Inserting == {p \in Importers : pc[p] = "insert"}

OrphanInv == IsFiniteSet(objects) /\ OrphansBounded

\* All that is counted is finite.
LEMMA Counted ==
  ASSUME OrphanInv, TypeOK
  PROVE  /\ IsFiniteSet(Orphans) /\ IsFiniteSet(Inserting)
         /\ Cardinality(Orphans) \in Nat /\ Cardinality(Inserting) \in Nat
         /\ failures \in Nat /\ conflicts \in Nat
         /\ Cardinality(Orphans) <= failures + conflicts + Cardinality(Inserting)
<1>1. Orphans \subseteq objects /\ Inserting \subseteq Importers
  BY DEF Orphans, Inserting
<1>2. IsFiniteSet(Orphans) /\ IsFiniteSet(Inserting)
  BY <1>1, FS_Subset, ImportAssumption DEF OrphanInv
<1>3. Cardinality(Orphans) \in Nat /\ Cardinality(Inserting) \in Nat
  BY <1>2, FS_CardinalityType
<1>4. failures \in Nat /\ conflicts \in Nat
  BY ImportAssumption DEF TypeOK
<1>5. Cardinality(Orphans) <= failures + conflicts + Cardinality(Inserting)
  BY DEF OrphanInv, OrphansBounded, Inserting
<1> QED
  BY <1>2, <1>3, <1>4, <1>5

\* A step that adds no orphan, with as many importers about to insert, or with one
\* less and one more failure or conflict.
LEMMA NoNewOrphan ==
  ASSUME OrphanInv, TypeOK, TypeOK', IsFiniteSet(objects'), Orphans' \subseteq Orphans,
         \/ /\ Inserting' = Inserting
            /\ failures' >= failures /\ conflicts' >= conflicts
         \/ /\ \E p \in Importers : Inserting' = Inserting \ {p}
            /\ failures' + conflicts' = failures + conflicts + 1
  PROVE  OrphanInv'
<1>1. /\ IsFiniteSet(Orphans) /\ IsFiniteSet(Inserting)
      /\ Cardinality(Orphans) \in Nat /\ Cardinality(Inserting) \in Nat
      /\ failures \in Nat /\ conflicts \in Nat
      /\ Cardinality(Orphans) <= failures + conflicts + Cardinality(Inserting)
  BY Counted
<1>2. failures' \in Nat /\ conflicts' \in Nat
  BY ImportAssumption DEF TypeOK
<1>3. Cardinality(Orphans') <= Cardinality(Orphans) /\ Cardinality(Orphans') \in Nat
  BY <1>1, FS_Subset, FS_CardinalityType
<1>4. CASE Inserting' = Inserting /\ failures' >= failures /\ conflicts' >= conflicts
  <2>1. Cardinality(Orphans') <= failures' + conflicts' + Cardinality(Inserting')
    BY <1>1, <1>2, <1>3, <1>4
  <2> QED
    BY <2>1 DEF OrphanInv, OrphansBounded, Inserting
<1>5. CASE /\ \E p \in Importers : Inserting' = Inserting \ {p}
           /\ failures' + conflicts' = failures + conflicts + 1
  <2>1. PICK p \in Importers : Inserting' = Inserting \ {p}
    BY <1>5
  <2>2. /\ Cardinality(Inserting') \in Nat
        /\ Cardinality(Inserting) <= Cardinality(Inserting') + 1
    <3> DEFINE S == Inserting
               T == S \ {p}
    <3>1. IsFiniteSet(S) /\ Cardinality(S) \in Nat
      BY <1>1
    <3> HIDE DEF S
    <3>2. /\ IsFiniteSet(T)
          /\ Cardinality(T) = IF p \in S THEN Cardinality(S) - 1 ELSE Cardinality(S)
      BY <3>1, FS_RemoveElement
    <3>3. Cardinality(T) \in Nat
      BY <3>2, FS_CardinalityType
    <3>4. Cardinality(S) <= Cardinality(T) + 1
      BY <3>1, <3>2, <3>3
    <3> QED
      BY <2>1, <3>3, <3>4 DEF S
  <2>3. Cardinality(Orphans') <= failures' + conflicts' + Cardinality(Inserting')
    <3> DEFINE paid == failures + conflicts
    <3>1. paid' = paid + 1 /\ paid \in Nat /\ paid' \in Nat
      <4>1. paid' = paid + 1
        BY <1>5
      <4>2. paid \in Nat
        BY <1>1
      <4>3. paid' \in Nat
        <5> HIDE DEF paid
        <5> QED
          BY <4>1, <4>2
      <4> QED
        BY <4>1, <4>2, <4>3
    <3>2. Cardinality(Orphans) <= paid + Cardinality(Inserting)
      BY <1>1
    <3> HIDE DEF paid
    <3>3. Cardinality(Orphans') <= paid' + Cardinality(Inserting')
      BY <1>1, <1>3, <2>2, <3>1, <3>2
    <3> QED
      BY <3>3 DEF paid
  <2> QED
    BY <2>3 DEF OrphanInv, OrphansBounded, Inserting
<1> QED
  BY <1>4, <1>5

\* A step that stores an object, by an importer that is then about to insert, or
\* that fails.
LEMMA OneNewOrphan ==
  ASSUME OrphanInv, TypeOK, TypeOK', NEW x, objects' = objects \cup {x}, UNCHANGED rows,
         NEW p \in Importers, p \notin Inserting,
         \/ Inserting' = Inserting \cup {p} /\ UNCHANGED <<failures, conflicts>>
         \/ Inserting' = Inserting /\ failures' = failures + 1 /\ UNCHANGED conflicts
  PROVE  OrphanInv'
<1>1. /\ IsFiniteSet(Orphans) /\ IsFiniteSet(Inserting)
      /\ Cardinality(Orphans) \in Nat /\ Cardinality(Inserting) \in Nat
      /\ failures \in Nat /\ conflicts \in Nat
      /\ Cardinality(Orphans) <= failures + conflicts + Cardinality(Inserting)
  BY Counted
<1>2. IsFiniteSet(objects')
  BY FS_AddElement DEF OrphanInv
<1>3. Orphans' \subseteq Orphans \cup {x}
  BY DEF Orphans
<1>4. /\ IsFiniteSet(Orphans \cup {x})
      /\ Cardinality(Orphans \cup {x}) <= Cardinality(Orphans) + 1
      /\ Cardinality(Orphans \cup {x}) \in Nat
  <2> DEFINE S == Orphans
             T == S \cup {x}
  <2>1. IsFiniteSet(S) /\ Cardinality(S) \in Nat
    BY <1>1
  <2> HIDE DEF S
  <2>2. /\ IsFiniteSet(T)
        /\ Cardinality(T) = IF x \in S THEN Cardinality(S) ELSE Cardinality(S) + 1
    BY <2>1, FS_AddElement
  <2>3. Cardinality(T) \in Nat
    BY <2>2, FS_CardinalityType
  <2>4. Cardinality(T) <= Cardinality(S) + 1
    BY <2>1, <2>2, <2>3
  <2> QED
    BY <2>2, <2>3, <2>4 DEF S
<1>5. Cardinality(Orphans') <= Cardinality(Orphans) + 1 /\ Cardinality(Orphans') \in Nat
  <2>1. IsFiniteSet(Orphans') /\ Cardinality(Orphans') <= Cardinality(Orphans \cup {x})
    BY <1>3, <1>4, FS_Subset
  <2>2. Cardinality(Orphans') \in Nat
    BY <2>1, FS_CardinalityType
  <2> QED
    BY <1>1, <1>4, <2>1, <2>2
<1>6. Cardinality(Inserting \cup {p}) = Cardinality(Inserting) + 1
  BY <1>1, FS_AddElement
<1>7. Cardinality(Orphans') <= failures' + conflicts' + Cardinality(Inserting')
  <2>1. CASE Inserting' = Inserting \cup {p} /\ UNCHANGED <<failures, conflicts>>
    <3>1. /\ Cardinality(Inserting') = Cardinality(Inserting) + 1
          /\ failures' = failures /\ conflicts' = conflicts
      BY <1>6, <2>1
    <3> QED
      BY <1>1, <1>5, <3>1
  <2>2. CASE Inserting' = Inserting /\ failures' = failures + 1 /\ UNCHANGED conflicts
    <3>1. /\ Cardinality(Inserting') = Cardinality(Inserting)
          /\ failures' = failures + 1 /\ conflicts' = conflicts
      BY <2>2
    <3> QED
      BY <1>1, <1>5, <3>1
  <2> QED
    BY <2>1, <2>2
<1> QED
  BY <1>2, <1>7 DEF OrphanInv, OrphansBounded, Inserting

\* The insertion gives the object its row: the orphan was its own.
LEMMA InsertOrphan ==
  ASSUME IInv, OrphanInv, NEW p \in Importers, Insert(p)
  PROVE  OrphanInv'
<1> DEFINE e == CurrentEntry(p)
<1>1. /\ pc[p] = "insert" /\ InsertRow(p) /\ GoTo(p, "index")
      /\ UNCHANGED <<done, objects, failures, conflicts>>
  BY DEF Insert, historyVars
<1>2. TypeOK /\ ImporterInv(p) /\ pc \in [Importers -> Resting \cup Working]
  BY DEF IInv, TypeOK
<1>3. /\ Grown /\ Len(rows) + 1 \in DOMAIN rows' /\ rows'[Len(rows) + 1] = e
  BY <1>1, InsertRowStore
<1>4. e \in objects /\ \A i \in DOMAIN rows : rows[i] # e
  <2>1. e \in objects
    BY <1>1, <1>2 DEF ImporterInv
  <2>2. RowsOf(e.file.photo) = {}
    BY <1>1 DEF InsertRow, Unique, CurrentEntry
  <2> QED
    BY <2>1, <2>2 DEF RowsOf
<1> HIDE DEF e
<1>5. e \in Orphans /\ Orphans' \subseteq Orphans \ {e}
  BY <1>1, <1>3, <1>4 DEF Orphans, Grown
<1>6. p \in Inserting /\ Inserting' = Inserting \ {p}
  BY <1>1, <1>2 DEF Inserting, GoTo
<1>7. /\ IsFiniteSet(Orphans) /\ IsFiniteSet(Inserting)
      /\ Cardinality(Orphans) \in Nat /\ Cardinality(Inserting) \in Nat
      /\ failures \in Nat /\ conflicts \in Nat
      /\ Cardinality(Orphans) <= failures + conflicts + Cardinality(Inserting)
  BY <1>2, Counted
<1>8. /\ IsFiniteSet(Orphans \ {e})
      /\ Cardinality(Orphans \ {e}) = Cardinality(Orphans) - 1
      /\ Cardinality(Inserting') = Cardinality(Inserting) - 1
  BY <1>5, <1>6, <1>7, FS_RemoveElement
<1>9. Cardinality(Orphans') <= Cardinality(Orphans \ {e}) /\ IsFiniteSet(Orphans')
  BY <1>5, <1>8, FS_Subset
<1>10. Cardinality(Orphans') \in Nat
  BY <1>9, FS_CardinalityType
<1>11. Cardinality(Orphans') <= failures' + conflicts' + Cardinality(Inserting')
  BY <1>1, <1>7, <1>8, <1>9, <1>10
<1> QED
  BY <1>1, <1>11 DEF OrphanInv, OrphansBounded, Inserting

\* A failure costs one orphan at most: the object stored by the call, or the one
\* whose insertion will not be tried again.
LEMMA FailsOrphan ==
  ASSUME IInv, OrphanInv, TypeOK', NEW p \in Importers, Fails(p)
  PROVE  OrphanInv'
<1>1. /\ pc[p] \in Working /\ GoTo(p, "failed") /\ failures' = failures + 1
      /\ UNCHANGED conflicts
  BY DEF Fails
<1>2. /\ TypeOK /\ pc \in [Importers -> Resting \cup Working]
      /\ failures \in Nat /\ conflicts \in Nat
  BY ImportAssumption DEF IInv, TypeOK
<1>3. Inserting' = Inserting \ {p}
  BY <1>1, <1>2 DEF Inserting, GoTo
<1>4. failures' >= failures /\ conflicts' >= conflicts
      /\ failures' + conflicts' = failures + conflicts + 1
  BY <1>1, <1>2
<1>5. CASE pc[p] = "put" /\ Store(p) /\ UNCHANGED <<rows, done>>
  <2>1. p \notin Inserting
    BY <1>5 DEF Inserting
  <2>2. Inserting' = Inserting
    BY <1>3, <2>1
  <2> QED
    BY <1>1, <1>2, <1>5, <2>1, <2>2, OneNewOrphan DEF Store
<1>6. CASE UNCHANGED objects /\ Grown
  <2>1. Orphans' \subseteq Orphans
    BY <1>6 DEF Orphans, Grown
  <2> QED
    BY <1>2, <1>3, <1>4, <1>6, <2>1, NoNewOrphan DEF OrphanInv
<1>7. CASE pc[p] = "insert" /\ InsertRow(p) /\ UNCHANGED <<done, objects>>
  BY <1>6, <1>7, InsertRowStore
<1>8. CASE UNCHANGED <<rows, objects>>
  <2>1. Orphans' = Orphans
    BY <1>8 DEF Orphans
  <2> QED
    BY <1>2, <1>3, <1>4, <1>8, <2>1, NoNewOrphan DEF OrphanInv
<1> QED
  BY <1>5, <1>7, <1>8 DEF Fails

\* Every step pays for the orphan it leaves.
LEMMA NextOrphan == IInv /\ OrphanInv /\ [Next]_vars => OrphanInv'
<1> SUFFICES ASSUME IInv, OrphanInv, [Next]_vars PROVE OrphanInv'
  OBVIOUS
<1>1. TypeOK /\ TypeOK'
  BY NextInv DEF IInv
<1>2. /\ pc \in [Importers -> Resting \cup Working] /\ conflicts \in Nat /\ failures \in Nat
      /\ IsFiniteSet(objects)
  BY <1>1, ImportAssumption DEF TypeOK, OrphanInv
<1>3. ASSUME UNCHANGED <<rows, objects, failures, conflicts>>, Inserting' = Inserting
      PROVE  OrphanInv'
  BY <1>3 DEF OrphanInv, OrphansBounded, Orphans, Inserting
<1>4. ASSUME NEW p \in Importers, NEW label, label # "insert", pc[p] # "insert", GoTo(p, label)
      PROVE  Inserting' = Inserting
  BY <1>2, <1>4 DEF Inserting, GoTo
<1>5. CASE UNCHANGED <<rows, objects, failures, conflicts, pc>>
  BY <1>3, <1>5 DEF Inserting
<1>6. ASSUME NEW e \in Events, CreateEvent(e) PROVE OrphanInv'
  BY <1>5, <1>6 DEF CreateEvent, historyVars
<1>7. ASSUME NEW p \in Importers, NEW e \in Events, NEW b \in Batches, Receive(p, e, b)
      PROVE OrphanInv'
  <2>1. pc[p] # "insert" /\ GoTo(p, "check") /\ UNCHANGED <<rows, objects, failures, conflicts>>
    BY <1>7 DEF Receive, Resting, storeVars, historyVars
  <2> QED
    BY <1>3, <1>4, <2>1
<1>8. ASSUME NEW p \in Importers, ImportStep(p) PROVE OrphanInv'
  <2>1. ASSUME NEW i, NEW dup, Report(p, i, dup), pc[p] # "insert",
               UNCHANGED <<rows, objects, failures, conflicts>>
        PROVE  OrphanInv'
    BY <1>3, <1>4, <2>1 DEF Report
  <2>2. CASE CheckNew(p)
    BY <1>3, <1>4, <2>2 DEF CheckNew, storeVars, historyVars
  <2>3. CASE CheckDuplicate(p)
    BY <2>1, <2>3 DEF CheckDuplicate, storeVars, historyVars
  <2>4. CASE Put(p)
    <3>1. /\ p \notin Inserting /\ Inserting' = Inserting \cup {p}
          /\ objects' = objects \cup {CurrentEntry(p)}
          /\ UNCHANGED <<rows, failures, conflicts>>
      BY <1>2, <2>4 DEF Put, Store, Inserting, GoTo, historyVars
    <3> QED
      BY <1>1, <3>1, OneNewOrphan
  <2>5. CASE Insert(p)
    BY <2>5, InsertOrphan
  <2>6. CASE InsertRefused(p)
    <3>1. /\ Inserting' = Inserting \ {p}
          /\ UNCHANGED <<rows, objects>> /\ failures' = failures /\ conflicts' = conflicts + 1
      BY <1>2, <2>6 DEF InsertRefused, Inserting, GoTo, storeVars
    <3>2. Orphans' = Orphans /\ failures' + conflicts' = failures + conflicts + 1
      BY <1>2, <3>1 DEF Orphans
    <3> QED
      BY <1>1, <1>2, <3>1, <3>2, NoNewOrphan
  <2>7. CASE Index(p)
    BY <2>1, <2>7 DEF Index, historyVars
  <2>8. CASE IndexRaises(p)
    BY <1>3, <1>4, <2>8 DEF IndexRaises, storeVars, historyVars
  <2>9. CASE Fails(p)
    BY <1>1, <2>9, FailsOrphan
  <2> QED
    BY <1>8, <2>2, <2>3, <2>4, <2>5, <2>6, <2>7, <2>8, <2>9 DEF ImportStep
<1>9. ASSUME NEW i \in DOMAIN rows, Repair(i) PROVE OrphanInv'
  BY <1>5, <1>9 DEF Repair, historyVars
<1>10. CASE UNCHANGED vars
  BY <1>5, <1>10 DEF vars, storeVars, historyVars
<1> QED
  BY <1>6, <1>7, <1>8, <1>9, <1>10 DEF Next

\* The objects without a row are no more than the failures, the lost races and
\* the imports under way (OrphansBounded): an import that succeeds leaves none.
THEOREM OrphansArePaidFor == Spec => []OrphansBounded
<1>1. Init => OrphanInv
  <2> SUFFICES ASSUME Init PROVE OrphanInv
    OBVIOUS
  <2>1. Orphans = {} /\ objects = {} /\ {p \in Importers : pc[p] = "insert"} = {}
    BY DEF Init, Orphans
  <2>2. failures = 0 /\ conflicts = 0
    BY DEF Init
  <2>3. IsFiniteSet({}) /\ Cardinality({}) = 0
    BY FS_EmptySet
  <2>4. 0 <= 0 + 0 + 0
    OBVIOUS
  <2>5. OrphansBounded
    BY <2>1, <2>2, <2>3, <2>4 DEF OrphansBounded
  <2> QED
    BY <2>1, <2>3, <2>5 DEF OrphanInv
<1>2. OrphanInv => OrphansBounded
  BY DEF OrphanInv
<1> QED
  BY <1>1, <1>2, InitInv, NextInv, NextOrphan, PTL DEF Spec

-----------------------------------------------------------------------------
(* The rows left pending.                                                  *)

LeftInv == IsFiniteSet(Left) /\ LeftByFailures

\* A step that leaves at most one row more, and then fails.
LEMMA LeftCounted ==
  ASSUME LeftInv, TypeOK, TypeOK', NEW x,
         \/ Left' \subseteq Left /\ failures' >= failures
         \/ Left' \subseteq Left \cup {x} /\ failures' = failures + 1
  PROVE  LeftInv'
<1>1. failures \in Nat /\ failures' \in Nat
  BY ImportAssumption DEF TypeOK
<1>2. /\ IsFiniteSet(Left) /\ Cardinality(Left) \in Nat /\ Cardinality(Left) <= failures
  BY FS_CardinalityType DEF LeftInv, LeftByFailures
<1>3. PICK S : S = Left
  OBVIOUS
<1>4. /\ IsFiniteSet(S \cup {x})
      /\ Cardinality(S \cup {x}) = IF x \in S THEN Cardinality(S) ELSE Cardinality(S) + 1
  BY <1>2, <1>3, FS_AddElement
<1>5. Cardinality(S \cup {x}) <= failures + 1
  BY <1>1, <1>2, <1>3, <1>4
<1>6. CASE Left' \subseteq S /\ failures' >= failures
  <2>1. IsFiniteSet(Left') /\ Cardinality(Left') <= Cardinality(S)
    BY <1>2, <1>3, <1>6, FS_Subset
  <2>2. Cardinality(Left') \in Nat
    BY <2>1, FS_CardinalityType
  <2>3. Cardinality(Left') <= failures'
    BY <1>1, <1>2, <1>3, <1>6, <2>1, <2>2
  <2> QED
    BY <2>1, <2>3 DEF LeftInv, LeftByFailures
<1>7. CASE Left' \subseteq S \cup {x} /\ failures' = failures + 1
  <2>1. IsFiniteSet(Left') /\ Cardinality(Left') <= Cardinality(S \cup {x})
    BY <1>4, <1>7, FS_Subset
  <2>2. Cardinality(Left') \in Nat /\ Cardinality(S \cup {x}) \in Nat
    BY <1>4, <2>1, FS_CardinalityType
  <2>3. Cardinality(Left') <= failures'
    BY <1>1, <1>5, <1>7, <2>1, <2>2
  <2> QED
    BY <2>1, <2>3 DEF LeftInv, LeftByFailures
<1> QED
  BY <1>3, <1>6, <1>7

\* An importer that is not at its indexing, and does not get there, leaves
\* nothing pending while the rows stay.
LEMMA NothingLeft ==
  ASSUME TypeOK, NEW p \in Importers, NEW label, GoTo(p, label), pc[p] # "index",
         label # "index", done \subseteq done', UNCHANGED <<rows, image>>
  PROVE  Left' \subseteq Left
<1>1. /\ pc' = [pc EXCEPT ![p] = label] /\ pc \in [Importers -> Resting \cup Working]
  BY DEF GoTo, TypeOK
<1>2. \A q \in Importers : pc'[q] = "index" <=> pc[q] = "index"
  BY <1>1
<1> QED
  BY <1>2 DEF Left

\* The importer that leaves its indexing leaves its row, at most.
LEMMA OwnRowLeft ==
  ASSUME TypeOK, NEW p \in Importers, NEW label, GoTo(p, label), pc[p] = "index",
         done \subseteq done', UNCHANGED <<rows, image>>
  PROVE  Left' \subseteq Left \cup {image[p]}
<1>1. /\ pc' = [pc EXCEPT ![p] = label] /\ pc \in [Importers -> Resting \cup Working]
  BY DEF GoTo, TypeOK
<1>2. \A q \in Importers \ {p} : pc'[q] = pc[q]
  BY <1>1
<1> QED
  BY <1>2 DEF Left

\* The row inserted is about to be indexed by the importer that inserted it.
LEMMA InsertLeft ==
  ASSUME IInv, NEW p \in Importers, Insert(p)
  PROVE  Left' \subseteq Left
<1>1. /\ pc[p] = "insert" /\ rows' = Append(rows, CurrentEntry(p))
      /\ image' = [image EXCEPT ![p] = Len(rows) + 1] /\ pc' = [pc EXCEPT ![p] = "index"]
      /\ UNCHANGED done
  BY DEF Insert, InsertRow, GoTo
<1>2. /\ TypeOK /\ ImporterInv(p) /\ pc \in [Importers -> Resting \cup Working]
      /\ image \in [Importers -> Nat]
  BY DEF IInv, TypeOK
<1>3. CurrentEntry(p) \in Entries
  BY <1>1, <1>2, CurrentType DEF Working
<1>4. /\ DOMAIN rows' = DOMAIN rows \cup {Len(rows) + 1}
      /\ \A i \in DOMAIN rows : rows'[i] = rows[i]
  BY <1>1, <1>2, <1>3, InsertGrows
<1>5. /\ pc'[p] = "index" /\ image'[p] = Len(rows) + 1
      /\ \A q \in Importers \ {p} : pc'[q] = pc[q] /\ image'[q] = image[q]
  BY <1>1, <1>2
<1>6. ASSUME NEW i \in Left' PROVE i \in Left
  <2>1. /\ i \in DOMAIN rows' /\ i \notin done /\ rows'[i].file.photo \notin Unreadable
        /\ ~\E q \in Importers : pc'[q] = "index" /\ image'[q] = i
    BY <1>1, <1>6 DEF Left
  <2>2. i # Len(rows) + 1
    BY <1>5, <2>1
  <2>3. i \in DOMAIN rows /\ rows[i].file.photo \notin Unreadable
    BY <1>4, <2>1, <2>2
  <2>4. ~\E q \in Importers : pc[q] = "index" /\ image[q] = i
    BY <1>1, <1>5, <2>1
  <2> QED
    BY <2>1, <2>3, <2>4 DEF Left
<1> QED
  BY <1>6

\* A failure leaves one row at most: the one it has inserted, or was to index.
LEMMA FailsLeft ==
  ASSUME IInv, NEW p \in Importers, Fails(p)
  PROVE  \E x : Left' \subseteq Left \cup {x}
<1>1. pc[p] \in Working /\ GoTo(p, "failed") /\ UNCHANGED image
  BY DEF Fails
<1>2. TypeOK /\ ImporterInv(p) /\ pc \in [Importers -> Resting \cup Working]
  BY DEF IInv, TypeOK
<1>3. CASE UNCHANGED rows /\ done \subseteq done'
  BY <1>1, <1>2, <1>3, NothingLeft, OwnRowLeft
<1>4. CASE pc[p] = "insert" /\ InsertRow(p) /\ UNCHANGED done
  <2>1. CurrentEntry(p) \in Entries
    BY <1>1, <1>2, CurrentType
  <2>2. /\ DOMAIN rows' = DOMAIN rows \cup {Len(rows) + 1}
        /\ \A i \in DOMAIN rows : rows'[i] = rows[i]
    BY <1>2, <1>4, <2>1, InsertGrows DEF InsertRow
  <2>3. \A q \in Importers : pc'[q] = "index" <=> pc[q] = "index"
    BY <1>1, <1>2, <1>4 DEF GoTo
  <2>4. Left' \subseteq Left \cup {Len(rows) + 1}
    BY <1>1, <1>4, <2>2, <2>3 DEF Left
  <2> QED
    BY <2>4
<1>5. \/ UNCHANGED rows /\ done \subseteq done'
      \/ pc[p] = "insert" /\ InsertRow(p) /\ UNCHANGED done
  BY DEF Fails, MarkDone
<1> QED
  BY <1>3, <1>4, <1>5

\* Every step keeps the count.
LEMMA NextLeft == IInv /\ LeftInv /\ [Next]_vars => LeftInv'
<1> SUFFICES ASSUME IInv, LeftInv, [Next]_vars PROVE LeftInv'
  OBVIOUS
<1>1. TypeOK /\ TypeOK' /\ failures \in Nat
  BY NextInv, ImportAssumption DEF IInv, TypeOK
<1>2. ASSUME Left' \subseteq Left, UNCHANGED failures PROVE LeftInv'
  BY <1>1, <1>2, LeftCounted
<1>3. CASE UNCHANGED <<rows, failures, pc, image>> /\ done \subseteq done'
  BY <1>2, <1>3 DEF Left
<1>4. ASSUME NEW e \in Events, CreateEvent(e) PROVE LeftInv'
  BY <1>3, <1>4 DEF CreateEvent, historyVars
<1>5. ASSUME NEW p \in Importers, NEW e \in Events, NEW b \in Batches, Receive(p, e, b)
      PROVE LeftInv'
  BY <1>1, <1>2, <1>5, NothingLeft DEF Receive, Resting, storeVars, historyVars
<1>6. ASSUME NEW p \in Importers, ImportStep(p) PROVE LeftInv'
  <2>1. CASE CheckNew(p)
    BY <1>1, <1>2, <2>1, NothingLeft DEF CheckNew, storeVars, historyVars
  <2>2. CASE CheckDuplicate(p)
    <3>1. PICK label : GoTo(p, label) /\ label # "index"
      BY <2>2 DEF CheckDuplicate, Report
    <3> QED
      BY <1>1, <1>2, <2>2, <3>1, NothingLeft DEF CheckDuplicate, storeVars, historyVars
  <2>3. CASE Put(p)
    BY <1>1, <1>2, <2>3, NothingLeft DEF Put, historyVars
  <2>4. CASE Insert(p)
    BY <1>2, <2>4, InsertLeft DEF Insert, historyVars
  <2>5. CASE InsertRefused(p)
    BY <1>1, <1>2, <2>5, NothingLeft DEF InsertRefused, storeVars
  <2>6. CASE Index(p)
    <3>1. PICK label : GoTo(p, label)
      BY <2>6 DEF Index, Report
    <3>2. /\ pc[p] = "index" /\ done' = done \cup {image[p]}
          /\ UNCHANGED <<rows, image, failures>>
      BY <2>6 DEF Index, MarkDone, historyVars
    <3>3. Left' \subseteq Left \cup {image[p]}
      BY <1>1, <3>1, <3>2, OwnRowLeft
    <3>4. image[p] \notin Left'
      BY <3>2 DEF Left
    <3> QED
      BY <1>2, <3>2, <3>3, <3>4
  <2>7. CASE IndexRaises(p)
    <3>1. /\ pc[p] = "index" /\ ~Indexable(image[p]) /\ GoTo(p, "failed")
          /\ UNCHANGED <<rows, done, image, failures>>
      BY <2>7 DEF IndexRaises, storeVars, historyVars
    <3>2. Left' \subseteq Left \cup {image[p]}
      BY <1>1, <3>1, OwnRowLeft
    <3>3. image[p] \in DOMAIN rows /\ rows[image[p]] \in objects
      BY <3>1 DEF IInv, ImporterInv, EveryRowStored
    <3>4. rows[image[p]].file.photo \in Unreadable
      BY <3>1, <3>3 DEF Indexable
    <3>5. image[p] \notin Left'
      BY <3>1, <3>4 DEF Left
    <3> QED
      BY <1>2, <3>1, <3>2, <3>5
  <2>8. CASE Fails(p)
    <3>1. PICK x : Left' \subseteq Left \cup {x}
      BY <2>8, FailsLeft
    <3>2. failures' = failures + 1
      BY <2>8 DEF Fails
    <3> QED
      BY <1>1, <3>1, <3>2, LeftCounted
  <2> QED
    BY <1>6, <2>1, <2>2, <2>3, <2>4, <2>5, <2>6, <2>7, <2>8 DEF ImportStep
<1>7. ASSUME NEW i \in DOMAIN rows, Repair(i) PROVE LeftInv'
  BY <1>3, <1>7 DEF Repair, MarkDone, historyVars
<1>8. CASE UNCHANGED vars
  BY <1>3, <1>8 DEF vars, storeVars, historyVars
<1> QED
  BY <1>4, <1>5, <1>6, <1>7, <1>8 DEF Next

\* A readable photo whose row stays pending was left so by a failure of its own
\* (event_import.py, the two transactions of import_and_index_image): no more
\* rows are left than calls have failed (LeftByFailures).
THEOREM PendingRowsArePaidFor == Spec => []LeftByFailures
<1>1. Init => LeftInv
  <2> SUFFICES ASSUME Init PROVE LeftInv
    OBVIOUS
  <2>1. Left = {} /\ failures = 0
    BY DEF Init, Left
  <2>2. IsFiniteSet({}) /\ Cardinality({}) = 0
    BY FS_EmptySet
  <2> QED
    BY <2>1, <2>2 DEF LeftInv, LeftByFailures
<1>2. LeftInv => LeftByFailures
  BY DEF LeftInv
<1> QED
  BY <1>1, <1>2, InitInv, NextInv, NextLeft, PTL DEF Spec

-----------------------------------------------------------------------------
(* The import of folders.                                                  *)

\* What the command goes through is a sequence of folders, one at least.
LEMMA FoldersType ==
  ASSUME NEW t \in Tree
  PROVE  Folders(t) \in Seq(Batches \cup {<<>>}) /\ Len(Folders(t)) >= 1
<1>1. CASE t.subfolders = <<>>
  BY <1>1 DEF Tree, Folders
<1>2. CASE t.subfolders # <<>>
  BY <1>2 DEF Tree, Folders
<1> QED
  BY <1>1, <1>2

\* The images of one folder are a tree.
LEMMA AloneType ==
  ASSUME NEW images \in Batches \cup {<<>>}
  PROVE  Alone(images) \in Tree
<1>1. <<>> \in Seq(Batches \cup {<<>>})
  OBVIOUS
<1> QED
  BY <1>1 DEF Alone, Tree

\* A step of the command or of anybody is one of EventImport, or none.
LEMMA StepIsAnImportStep ==
  ASSUME FInv, [FolderNext]_folderVars
  PROVE  [Next]_vars
<1> USE FolderAssumption
<1>1. ASSUME ImportNext PROVE Next
  BY <1>1 DEF ImportNext, Next
<1>2. ASSUME NEW p \in Commands, NEW t \in Trees, NEW e \in Events, MainInEvent(p, t, e)
      PROVE Next
  <2>1. t.own \in Batches /\ Receive(p, e, t.own) /\ p \in Importers
    BY <1>2 DEF MainInEvent, Tree
  <2> QED
    BY <2>1 DEF Next
<1>3. ASSUME NEW p \in Commands, NEW e \in Events, CreateFolderEvent(p, e) PROVE Next
  BY <1>3 DEF CreateFolderEvent, Next
<1>4. ASSUME NEW p \in Commands, ReadFolder(p) PROVE [Next]_vars
  <2>1. CASE Folder(p) = <<>>
    BY <1>4, <2>1 DEF ReadFolder
  <2>2. CASE Folder(p) # <<>>
    <3>1. at[p] \in Nat /\ at[p] < Len(Folders(tree[p])) /\ tree[p] \in Tree
      BY <1>4 DEF ReadFolder, FInv, CommandInv, CommandTypes
    <3>2. Folder(p) \in Batches
      BY <2>2, <3>1, FoldersType DEF Folder
    <3>3. Receive(p, made[p], Folder(p)) /\ made[p] \in events
      BY <1>4, <2>2 DEF ReadFolder, Receive
    <3>4. made[p] \in Events /\ p \in Importers
      BY <3>3 DEF FInv, IInv, TypeOK
    <3> QED
      BY <3>2, <3>3, <3>4 DEF Next
  <2> QED
    BY <2>1, <2>2
<1>5. ASSUME NEW p \in Commands,
             \/ \E t \in Trees : Main(p, t)
             \/ FolderDone(p) \/ FolderFails(p) \/ CommandDies(p)
      PROVE UNCHANGED vars
  BY <1>5 DEF Main, FolderDone, FolderFails, CommandDies
<1>6. CASE UNCHANGED folderVars
  BY <1>6 DEF folderVars
<1> QED
  BY <1>1, <1>2, <1>3, <1>4, <1>5, <1>6 DEF FolderNext

\* A photo that has a row keeps it.
LEMMA RowsRemain ==
  ASSUME IInv, [Next]_vars, NEW photo, RowsOf(photo) # {}
  PROVE  RowsOf(photo)' # {}
<1>1. ASSUME NEW p \in Importers, InsertRow(p), pc[p] = "insert" PROVE RowsOf(photo)' # {}
  <2>1. TypeOK /\ CurrentEntry(p) \in Entries
    BY <1>1, CurrentType DEF IInv, Working
  <2>2. rows' = Append(rows, CurrentEntry(p))
    BY <1>1 DEF InsertRow
  <2>3. DOMAIN rows \subseteq DOMAIN rows' /\ \A i \in DOMAIN rows : rows'[i] = rows[i]
    BY <2>1, <2>2, InsertGrows
  <2> QED
    BY <2>3 DEF RowsOf
<1>2. rows' = rows \/ \E p \in Importers : InsertRow(p) /\ pc[p] = "insert"
  BY DEF Next, vars, storeVars, CreateEvent, Receive, ImportStep, CheckNew, CheckDuplicate,
         Put, Insert, InsertRefused, Index, IndexRaises, Fails, Repair
<1>3. CASE rows' = rows
  BY <1>3 DEF RowsOf
<1> QED
  BY <1>1, <1>2, <1>3

\* The photos of an import that is answered have rows: each has a true result.
LEMMA AnsweredHaveRows ==
  ASSUME IInv, NEW p \in Importers, Len(results[p]) = Len(batch[p]),
         NEW n \in DOMAIN batch[p]
  PROVE  RowsOf(batch[p][n].photo) # {}
<1>1. results[p] \in Seq(Results) /\ batch[p] \in Seq(Files)
  BY DEF IInv, TypeOK
<1>2. n \in DOMAIN results[p]
  BY <1>1
<1>3. results[p][n].image \in RowsOf(batch[p][n].photo)
  BY <1>2 DEF IInv, ImporterInv, TrueResults
<1> QED
  BY <1>3

-----------------------------------------------------------------------------
LEMMA AnsweredInv ==
  ASSUME IInv, AnsweredAll, [Next]_vars
  PROVE  AnsweredAll'
<1> SUFFICES ASSUME NEW q \in Importers, pc'[q] = "answered"
             PROVE  Len(results'[q]) = Len(batch'[q])
  BY DEF AnsweredAll
<1> USE DEF IInv, TypeOK
<1>1. ASSUME NEW p \in Importers, NEW i, NEW dup, Report(p, i, dup), batch' = batch
      PROVE  Len(results'[q]) = Len(batch'[q])
  <2>1. CASE q = p
    <3>1. results'[p] = Append(results[p], [image |-> i, duplicate |-> dup])
      BY <1>1 DEF Report
    <3>2. pc'[p] = IF Len(results[p]) + 1 = Len(batch[p]) THEN "answered" ELSE "check"
      BY <1>1 DEF Report, GoTo
    <3>3. Len(results[p]) + 1 = Len(batch[p])
      BY <2>1, <3>2
    <3>4. Len(results'[p]) = Len(results[p]) + 1
      BY <3>1
    <3> QED
      BY <1>1, <2>1, <3>3, <3>4
  <2>2. CASE q # p
    <3>1. pc'[q] = pc[q] /\ results'[q] = results[q]
      BY <1>1, <2>2 DEF Report, GoTo
    <3> QED
      BY <1>1, <3>1 DEF AnsweredAll
  <2> QED
    BY <2>1, <2>2
<1>2. ASSUME NEW p \in Importers, NEW label, label # "answered", GoTo(p, label),
             results' = results, batch' = batch
      PROVE  Len(results'[q]) = Len(batch'[q])
  <2>1. q # p /\ pc'[q] = pc[q]
    BY <1>2 DEF GoTo
  <2> QED
    BY <1>2, <2>1 DEF AnsweredAll
<1>3. ASSUME NEW p \in Importers, NEW e \in Events, NEW b \in Batches, Receive(p, e, b)
      PROVE  Len(results'[q]) = Len(batch'[q])
  <2>1. q # p /\ pc'[q] = pc[q] /\ results'[q] = results[q] /\ batch'[q] = batch[q]
    BY <1>3 DEF Receive, GoTo
  <2> QED
    BY <2>1 DEF AnsweredAll
<1>4. ASSUME UNCHANGED <<pc, results, batch>>
      PROVE  Len(results'[q]) = Len(batch'[q])
  BY <1>4 DEF AnsweredAll
<1>5. ASSUME NEW p \in Importers, CheckDuplicate(p) \/ Index(p)
      PROVE  Len(results'[q]) = Len(batch'[q])
  BY <1>5, <1>1 DEF CheckDuplicate, Index, requestVars
<1>6. ASSUME NEW p \in Importers,
             \/ CheckNew(p) \/ Put(p) \/ Insert(p) \/ InsertRefused(p)
             \/ IndexRaises(p) \/ Fails(p)
      PROVE  Len(results'[q]) = Len(batch'[q])
  BY <1>6, <1>2 DEF CheckNew, Put, Insert, InsertRefused, IndexRaises, Fails, requestVars
<1>7. ASSUME \/ \E e \in Events : CreateEvent(e)
             \/ \E i \in DOMAIN rows : Repair(i)
             \/ UNCHANGED vars
      PROVE  Len(results'[q]) = Len(batch'[q])
  BY <1>7, <1>4 DEF CreateEvent, Repair, vars, requestVars
<1> QED
  BY <1>3, <1>5, <1>6, <1>7 DEF Next, ImportStep
\* The next folder is begun, or the command ends.
LEMMA NextFolderInv ==
  ASSUME FInv, NEW p \in Commands, phase[p] \in {"read", "import"}, NextFolder(p),
         UNCHANGED <<tree, rows>>,
         \A n \in DOMAIN Folder(p) : RowsOf(Folder(p)[n].photo) # {}
  PROVE  /\ CommandInv(p)'
         /\ phase' \in [Commands -> {"none", "create", "read", "import", "ended"}]
         /\ at' \in [Commands -> Nat]
         /\ \A q \in Commands \ {p} : phase'[q] = phase[q] /\ at'[q] = at[q]
<1> DEFINE all == Folders(tree[p])
<1>1. CommandTypes /\ CommandInv(p)
  BY DEF FInv
<1>2. /\ at[p] \in Nat /\ at[p] < Len(all)
      /\ all \in Seq(Batches \cup {<<>>})
  BY <1>1, FoldersType DEF CommandTypes, CommandInv
<1>3. at' = [at EXCEPT ![p] = at[p] + 1]
  BY DEF NextFolder
<1>4. phase' = [phase EXCEPT ![p] = IF at[p] + 1 = Len(all) THEN "ended" ELSE "create"]
  BY DEF NextFolder, EnterPhase
<1>5. /\ phase' \in [Commands -> {"none", "create", "read", "import", "ended"}]
      /\ at' \in [Commands -> Nat]
      /\ \A q \in Commands \ {p} : phase'[q] = phase[q] /\ at'[q] = at[q]
  BY <1>1, <1>2, <1>3, <1>4 DEF CommandTypes
<1>6. at'[p] = at[p] + 1 /\ phase'[p] = IF at[p] + 1 = Len(all) THEN "ended" ELSE "create"
  BY <1>1, <1>3, <1>4 DEF CommandTypes
<1>7. ASSUME NEW k \in 1..(at[p] + 1), NEW n \in DOMAIN all[k]
      PROVE  RowsOf(all[k][n].photo) # {}
  <2>1. CASE k \in 1..at[p]
    BY <1>1, <1>7, <2>1 DEF CommandInv
  <2>2. CASE k = at[p] + 1
    BY <1>7, <2>2 DEF Folder
  <2> QED
    BY <1>2, <2>1, <2>2
<1>8. CommandInv(p)'
  <2>1. tree' = tree /\ Len(all) \in Nat /\ phase'[p] # "import"
    BY <1>2, <1>6
  <2>2. ASSUME NEW k \in 1..(at[p] + 1), NEW n \in DOMAIN Folders(tree[p])[k]
        PROVE  {i \in DOMAIN rows' :
                  rows'[i].file.photo = Folders(tree'[p])[k][n].photo} # {}
    BY <1>7, <2>1, <2>2 DEF RowsOf
  <2> HIDE DEF all
  <2>3. \A k \in 1..at'[p] : \A n \in DOMAIN Folders(tree'[p])[k] :
          {i \in DOMAIN rows' :
             rows'[i].file.photo = Folders(tree'[p])[k][n].photo} # {}
    BY <1>6, <2>1, <2>2
  <2>4. /\ at'[p] <= Len(Folders(tree'[p]))
        /\ phase'[p] = "ended" => at'[p] = Len(Folders(tree'[p]))
        /\ phase'[p] = "create" => at'[p] < Len(Folders(tree'[p]))
        /\ phase'[p] \in {"ended", "create"}
    BY <1>2, <1>6, <2>1 DEF all
  <2> QED
    BY <2>3, <2>4 DEF CommandInv, RowsOf
<1> QED
  BY <1>5, <1>8

\* A command that does not move is not disturbed by the others.
LEMMA OtherCommand ==
  ASSUME IInv, [Next]_vars, NEW p \in Commands, CommandInv(p),
         UNCHANGED <<phase[p], tree[p], at[p]>>,
         phase[p] = "import" => UNCHANGED batch[p]
  PROVE  CommandInv(p)'
<1>1. ASSUME NEW k \in 1..at[p], NEW n \in DOMAIN Folders(tree[p])[k]
      PROVE  RowsOf(Folders(tree[p])[k][n].photo)' # {}
  BY <1>1, RowsRemain DEF CommandInv, Folders
<1>2. Folders(tree[p])' = Folders(tree[p]) /\ Folder(p)' = Folder(p)
  BY DEF Folders, Folder
<1> QED
  BY <1>1, <1>2 DEF CommandInv, Folders

-----------------------------------------------------------------------------
(* One lemma per action of the command: its own part of the invariant, and *)
(* the other commands', which its step leaves where they are.              *)

\* A folder is given to the command: it has been through none of its folders.
LEMMA StartInv ==
  ASSUME FInv, NEW p \in Commands, NEW t \in Tree, [Next]_vars,
         phase[p] \in {"none", "ended"},
         NEW label \in {"create", "import"}, EnterPhase(p, label),
         tree' = [tree EXCEPT ![p] = t], at' = [at EXCEPT ![p] = 0], UNCHANGED made,
         label = "import" => t.subfolders = <<>> /\ batch' = [batch EXCEPT ![p] = t.own],
         label = "create" => UNCHANGED batch
  PROVE  CommandTypes' /\ \A q \in Commands : CommandInv(q)'
<1>1. CommandTypes /\ IInv /\ p \in Importers /\ batch \in [Importers -> Seq(Files)]
  BY FolderAssumption DEF FInv, IInv, TypeOK
<1>2. phase' = [phase EXCEPT ![p] = label]
  BY DEF EnterPhase
<1>3. CommandTypes'
  BY <1>1, <1>2 DEF CommandTypes
<1>4. tree'[p] = t /\ at'[p] = 0 /\ phase'[p] = label
  BY <1>1, <1>2 DEF CommandTypes
<1>5. Folders(t) \in Seq(Batches \cup {<<>>}) /\ Len(Folders(t)) >= 1
  BY FoldersType
<1>6. label = "import" => batch'[p] = Folders(t)[1]
  BY <1>1 DEF Folders
<1>7. CommandInv(p)'
  BY <1>4, <1>5, <1>6 DEF CommandInv, Folder
<1>8. ASSUME NEW q \in Commands \ {p} PROVE CommandInv(q)'
  <2>1. UNCHANGED <<phase[q], tree[q], at[q], batch[q]>>
    BY <1>1, <1>2, FolderAssumption DEF CommandTypes
  <2> QED
    BY <1>1, <2>1, OtherCommand DEF FInv
<1> QED
  BY <1>3, <1>7, <1>8

\* The command goes to another of its steps, or ends early.
LEMMA EnterInv ==
  ASSUME FInv, NEW p \in Commands, [Next]_vars, UNCHANGED <<tree, at>>,
         made' \in [Commands -> Nat \cup Events],
         \A q \in Commands \ {p} : UNCHANGED batch[q],
         \/ EnterPhase(p, "none")
         \/ phase[p] = "create" /\ EnterPhase(p, "read")
         \/ phase[p] = "read" /\ EnterPhase(p, "import") /\ batch'[p] = Folder(p)
  PROVE  CommandTypes' /\ \A q \in Commands : CommandInv(q)'
<1>1. CommandTypes /\ IInv /\ CommandInv(p)
  BY DEF FInv
<1>2. PICK label \in {"none", "read", "import"} :
        /\ phase' = [phase EXCEPT ![p] = label]
        /\ label \in {"read", "import"} => phase[p] \in {"create", "read"}
        /\ label = "import" => batch'[p] = Folder(p)
  BY DEF EnterPhase
<1>3. CommandTypes'
  BY <1>1, <1>2 DEF CommandTypes
<1>4. phase'[p] = label
  BY <1>1, <1>2 DEF CommandTypes
<1>5. CommandInv(p)'
  <2>1. ASSUME NEW k \in 1..at[p], NEW n \in DOMAIN Folders(tree[p])[k]
        PROVE  RowsOf(Folders(tree[p])[k][n].photo)' # {}
    BY <1>1, <2>1, RowsRemain DEF CommandInv
  <2> QED
    BY <1>1, <1>2, <1>4, <2>1 DEF CommandInv, Folder
<1>6. ASSUME NEW q \in Commands \ {p} PROVE CommandInv(q)'
  <2>1. UNCHANGED <<phase[q], tree[q], at[q], batch[q]>>
    BY <1>1, <1>2 DEF CommandTypes
  <2> QED
    BY <1>1, <2>1, OtherCommand DEF FInv
<1> QED
  BY <1>3, <1>5, <1>6

\* A folder without images, or whose import is answered, is behind.
LEMMA BehindInv ==
  ASSUME FInv, NEW p \in Commands, [Next]_vars, UNCHANGED <<vars, tree, made>>,
         NextFolder(p),
         \/ phase[p] = "read" /\ Folder(p) = <<>>
         \/ phase[p] = "import" /\ pc[p] = "answered"
  PROVE  CommandTypes' /\ \A q \in Commands : CommandInv(q)'
<1>1. CommandTypes /\ IInv /\ CommandInv(p) /\ p \in Importers
  BY FolderAssumption DEF FInv
<1>2. UNCHANGED <<rows, batch>>
  BY DEF vars, storeVars, requestVars
<1>3. ASSUME NEW n \in DOMAIN Folder(p) PROVE RowsOf(Folder(p)[n].photo) # {}
  <2>1. phase[p] = "import" /\ pc[p] = "answered"
    BY <1>3
  <2>2. batch[p] = Folder(p) /\ Len(results[p]) = Len(batch[p])
    BY <1>1, <2>1 DEF CommandInv, FInv, AnsweredAll
  <2> QED
    BY <1>1, <1>3, <2>2, AnsweredHaveRows
<1>4. /\ CommandInv(p)'
      /\ phase' \in [Commands -> {"none", "create", "read", "import", "ended"}]
      /\ at' \in [Commands -> Nat]
      /\ \A q \in Commands \ {p} : phase'[q] = phase[q] /\ at'[q] = at[q]
  BY <1>2, <1>3, NextFolderInv
<1>5. ASSUME NEW q \in Commands \ {p} PROVE CommandInv(q)'
  BY <1>1, <1>2, <1>4, OtherCommand DEF FInv
<1> QED
  BY <1>1, <1>4, <1>5 DEF CommandTypes

\* A step of an import: a command that imports keeps its batch.
LEMMA ImportNextInv ==
  ASSUME FInv, [Next]_vars, UNCHANGED commandVars,
         \A q \in Commands : UNCHANGED batch[q]
  PROVE  CommandTypes' /\ \A q \in Commands : CommandInv(q)'
<1>1. UNCHANGED <<phase, tree, at, made>>
  BY DEF commandVars
<1>2. CommandTypes'
  BY <1>1 DEF FInv, CommandTypes
<1>3. ASSUME NEW q \in Commands PROVE CommandInv(q)'
  BY <1>1, OtherCommand DEF FInv
<1> QED
  BY <1>2, <1>3
-----------------------------------------------------------------------------
LEMMA FInitInv == FolderInit => FInv
<1> SUFFICES ASSUME FolderInit PROVE FInv
  OBVIOUS
<1>1. IInv
  BY InitInv DEF FolderInit
<1>2. AnsweredAll
  BY DEF FolderInit, Init, AnsweredAll
<1>3. CommandTypes
  BY AloneType DEF FolderInit, CommandInit, CommandTypes
<1>4. Alone(<<>>) \in Tree /\ Len(Folders(Alone(<<>>))) >= 1
  BY AloneType, FoldersType
<1>5. ASSUME NEW p \in Commands PROVE CommandInv(p)
  BY <1>4 DEF FolderInit, CommandInit, CommandInv
<1> QED
  BY <1>1, <1>2, <1>3, <1>5 DEF FInv

\* Every step preserves the invariant: one case per action.
LEMMA FolderNextInv == FInv /\ [FolderNext]_folderVars => FInv'
<1> SUFFICES ASSUME FInv, [FolderNext]_folderVars PROVE FInv'
  OBVIOUS
<1>1. [Next]_vars
  BY StepIsAnImportStep
<1>2. made \in [Commands -> Nat \cup Events] /\ batch \in [Importers -> Seq(Files)]
  BY DEF FInv, CommandTypes, IInv, TypeOK
<1> USE FolderAssumption
<1>3. ASSUME ImportNext
      PROVE  CommandTypes' /\ \A q \in Commands : CommandInv(q)'
  <2>1. UNCHANGED commandVars
    BY <1>3 DEF ImportNext
  <2>2. ASSUME NEW q \in Commands PROVE batch'[q] = batch[q]
    <3>1. UNCHANGED batch \/ \E p \in Importers \ Commands, b \in Batches : batch' = [batch EXCEPT ![p] = b]
      BY <1>3 DEF ImportNext, CreateEvent, Receive, ImportStep, CheckNew, CheckDuplicate,
                  Put, Insert, InsertRefused, Index, IndexRaises, Fails, Repair, requestVars
    <3> QED
      BY <1>2, <3>1
  <2> QED
    BY <1>1, <2>1, <2>2, ImportNextInv
<1>4. ASSUME NEW p \in Commands, NEW t \in Trees, Main(p, t)
      PROVE  CommandTypes' /\ \A q \in Commands : CommandInv(q)'
  <2>1. UNCHANGED batch
    BY <1>4 DEF Main, vars, requestVars
  <2> QED
    BY <1>1, <1>4, <2>1, StartInv DEF Main
<1>5. ASSUME NEW p \in Commands, NEW t \in Trees, NEW e \in Events, MainInEvent(p, t, e)
      PROVE  CommandTypes' /\ \A q \in Commands : CommandInv(q)'
  <2>1. Alone(t.own) \in Tree
    BY AloneType DEF Tree
  <2>2. Alone(t.own).subfolders = <<>> /\ Alone(t.own).own = t.own
    BY DEF Alone
  <2> QED
    BY <1>1, <1>5, <2>1, <2>2, StartInv DEF MainInEvent, Receive
<1>6. ASSUME NEW p \in Commands, NEW e \in Events, CreateFolderEvent(p, e)
      PROVE  CommandTypes' /\ \A q \in Commands : CommandInv(q)'
  <2>1. UNCHANGED batch /\ made' \in [Commands -> Nat \cup Events]
    BY <1>2, <1>6 DEF CreateFolderEvent, CreateEvent, requestVars
  <2> QED
    BY <1>1, <1>6, <2>1, EnterInv DEF CreateFolderEvent
<1>7. ASSUME NEW p \in Commands, ReadFolder(p)
      PROVE  CommandTypes' /\ \A q \in Commands : CommandInv(q)'
  <2>1. CASE Folder(p) = <<>>
    BY <1>1, <1>7, <2>1, BehindInv DEF ReadFolder
  <2>2. CASE Folder(p) # <<>>
    <3>1. batch' = [batch EXCEPT ![p] = Folder(p)]
      BY <1>7, <2>2 DEF ReadFolder, Receive
    <3>2. batch'[p] = Folder(p) /\ \A q \in Commands \ {p} : UNCHANGED batch[q]
      BY <1>2, <3>1
    <3> QED
      BY <1>1, <1>2, <1>7, <2>2, <3>2, EnterInv DEF ReadFolder
  <2> QED
    BY <2>1, <2>2
<1>8. ASSUME NEW p \in Commands, FolderDone(p)
      PROVE  CommandTypes' /\ \A q \in Commands : CommandInv(q)'
  BY <1>1, <1>8, BehindInv DEF FolderDone
<1>9. ASSUME NEW p \in Commands, FolderFails(p) \/ CommandDies(p)
      PROVE  CommandTypes' /\ \A q \in Commands : CommandInv(q)'
  <2>1. UNCHANGED <<batch, made, tree, at>> /\ EnterPhase(p, "none")
    BY <1>9 DEF FolderFails, CommandDies, vars, requestVars
  <2> QED
    BY <1>1, <1>2, <2>1, EnterInv
<1>10. ASSUME UNCHANGED folderVars
       PROVE  CommandTypes' /\ \A q \in Commands : CommandInv(q)'
  BY <1>1, <1>10, ImportNextInv DEF folderVars, vars, requestVars
<1>11. CommandTypes' /\ \A q \in Commands : CommandInv(q)'
  BY <1>3, <1>4, <1>5, <1>6, <1>7, <1>8, <1>9, <1>10 DEF FolderNext
<1>12. IInv' /\ AnsweredAll'
  BY <1>1, NextInv, AnsweredInv DEF FInv
<1> QED
  BY <1>11, <1>12 DEF FInv

-----------------------------------------------------------------------------
\* What is proved of EventImport holds of the command and the API together.
LEMMA CommandImports == FolderSpec => Spec
<1>1. FolderInit => Init
  BY DEF FolderInit
<1>2. FInv /\ [FolderNext]_folderVars => [Next]_vars
  BY StepIsAnImportStep
<1> QED
  BY <1>1, <1>2, FInitInv, FolderNextInv, PTL DEF FolderSpec, Spec

\* Every photo of the folders behind the command has a row, and a command that
\* ends by itself has them all behind it (NothingLeftBehind).
THEOREM FoldersComplete == FolderSpec => []NothingLeftBehind
<1>1. FInv => NothingLeftBehind
  BY DEF FInv, CommandInv, NothingLeftBehind
<1> QED
  BY <1>1, FInitInv, FolderNextInv, PTL DEF FolderSpec
==============================================================================
