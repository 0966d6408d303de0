---------------------------- MODULE QuerySearch -----------------------------
(***************************************************************************)
(* The screen that searches the face of a photo: the faces are asked for   *)
(* when the photo is chosen, the events when the form is submitted.  A     *)
(* call is never cancelled: its answer changes the screen whenever it      *)
(* comes.  Dates, threshold, limit and messages are left out.              *)
(***************************************************************************)
EXTENDS Naturals, FiniteSets

CONSTANTS
  Photos,   \* photos that may be chosen
  FacesIn,  \* number of faces the service finds in each photo
  Calls,    \* calls that may be pending together (bound of the model)
  Nothing   \* no photo, no faces, no results

ASSUME QueryAssumption ==
  /\ FacesIn \in [Photos -> Nat]
  /\ Nothing \notin Photos

VARIABLES
  selectedFile,   \* the photo shown
  queryFaces,     \* the photo whose faces are framed
  selectedFace,   \* index of the chosen face, 0 when none is
  results,        \* photo and face whose events are shown
  detecting, loading, detectError,
  call,           \* each pending call: what it asks
  overtaken       \* history: the photo, or its face, was chosen while a call was pending

queryVars == <<selectedFile, queryFaces, selectedFace, results,
               detecting, loading, detectError, call, overtaken>>

FaceIndexes == {0} \cup UNION {1..FacesIn[p] : p \in Photos}
Question(kind, photo, face) == [kind |-> kind, photo |-> photo, face |-> face]
Idle == Question("none", Nothing, 0)
Pending(kind) == {c \in Calls : call[c].kind = kind}
Shown == [photo |-> selectedFile, face |-> selectedFace]
NoResults == [photo |-> Nothing, face |-> 0]

QueryTypeOK ==
  /\ selectedFile \in Photos \cup {Nothing} /\ queryFaces \in Photos \cup {Nothing}
  /\ selectedFace \in FaceIndexes
  /\ results \in [photo : Photos \cup {Nothing}, face : FaceIndexes]
  /\ {detecting, loading, detectError, overtaken} \subseteq BOOLEAN
  /\ call \in [Calls -> [kind : {"none", "detect", "search"}, photo : Photos \cup {Nothing}, face : FaceIndexes]]

QueryInit ==
  /\ selectedFile = Nothing /\ queryFaces = Nothing /\ selectedFace = 0 /\ results = NoResults
  /\ detecting = FALSE /\ loading = FALSE /\ detectError = FALSE
  /\ call = [c \in Calls |-> Idle]
  /\ overtaken = FALSE

\* A photo starts afresh, a face does not.
Waiting == \E c \in Calls : call[c] # Idle
Afresh == overtaken' = Waiting
Overtake == overtaken' = (overtaken \/ Waiting)

-----------------------------------------------------------------------------
\* onFileSelected: the dialog may also be closed without a photo.
ChooseNoFile ==
  /\ selectedFile' = Nothing /\ queryFaces' = Nothing /\ selectedFace' = 0
  /\ results' = NoResults /\ detectError' = FALSE
  /\ Afresh
  /\ UNCHANGED <<detecting, loading, call>>

ChooseFile(c, p) ==
  /\ call[c] = Idle
  /\ selectedFile' = p /\ queryFaces' = Nothing /\ selectedFace' = 0
  /\ results' = NoResults /\ detectError' = FALSE
  /\ call' = [call EXCEPT ![c] = Question("detect", p, 0)]
  /\ detecting' = TRUE
  /\ Afresh
  /\ UNCHANGED loading

\* Mutation: the results of the other face stay.
SelectOnly(f) ==
  /\ queryFaces # Nothing /\ FacesIn[queryFaces] > 1
  /\ f \in 1..FacesIn[queryFaces] /\ f # selectedFace
  /\ selectedFace' = f
  /\ Overtake
  /\ UNCHANGED <<selectedFile, queryFaces, results, detecting, loading, detectError, call>>

\* A frame can be clicked when there are several, even while a search runs.
SelectFace(f) ==
  /\ queryFaces # Nothing /\ FacesIn[queryFaces] > 1
  /\ f \in 1..FacesIn[queryFaces] /\ f # selectedFace
  /\ selectedFace' = f
  /\ results' = NoResults
  /\ Overtake
  /\ UNCHANGED <<selectedFile, queryFaces, detecting, loading, detectError, call>>

CanSearch ==
  /\ selectedFile # Nothing /\ ~detecting /\ ~loading
  /\ detectError \/ selectedFace # 0

OnSubmit(c) ==
  /\ CanSearch /\ call[c] = Idle
  /\ loading' = TRUE
  /\ call' = [call EXCEPT ![c] = Question("search", selectedFile, selectedFace)]
  /\ UNCHANGED <<selectedFile, queryFaces, selectedFace, results, detecting, detectError, overtaken>>

-----------------------------------------------------------------------------
\* A single face is chosen at once.
FacesArrive(c) ==
  /\ call[c].kind = "detect"
  /\ queryFaces' = call[c].photo
  /\ selectedFace' = IF FacesIn[call[c].photo] = 1 THEN 1 ELSE 0
  /\ detecting' = FALSE
  /\ call' = [call EXCEPT ![c] = Idle]
  /\ UNCHANGED <<selectedFile, results, loading, detectError, overtaken>>

FacesFail(c) ==
  /\ call[c].kind = "detect"
  /\ detectError' = TRUE /\ detecting' = FALSE
  /\ call' = [call EXCEPT ![c] = Idle]
  /\ UNCHANGED <<selectedFile, queryFaces, selectedFace, results, loading, overtaken>>

\* Events for the face asked for, or an error that leaves what is shown.
SearchEnds(c) ==
  /\ call[c].kind = "search"
  /\ results' \in {results, [photo |-> call[c].photo, face |-> call[c].face]}
  /\ loading' = FALSE
  /\ call' = [call EXCEPT ![c] = Idle]
  /\ UNCHANGED <<selectedFile, queryFaces, selectedFace, detecting, detectError, overtaken>>

QueryNext ==
  \/ ChooseNoFile
  \/ \E f \in FaceIndexes : SelectFace(f)
  \/ \E c \in Calls :
       \/ \E p \in Photos : ChooseFile(c, p)
       \/ OnSubmit(c) \/ FacesArrive(c) \/ FacesFail(c) \/ SearchEnds(c)

-----------------------------------------------------------------------------
(* What is framed and found belongs to what is chosen ("Changer de visage  *)
(* invalide les résultats précédents : ils portaient sur un autre"), and   *)
(* the screen waits exactly while a call is pending: only a choice made    *)
(* while a call was pending can break this, no order of answers alone, and *)
(* the next photo that is chosen at rest repairs it.                       *)
ShownBelongs ==
  ~overtaken =>
    /\ queryFaces \in {Nothing, selectedFile}
    /\ results \in {NoResults, Shown}
    /\ detecting <=> Pending("detect") # {}
    /\ loading <=> Pending("search") # {}
=============================================================================
