------------------------------ MODULE FrontEnd ------------------------------
(***************************************************************************)
(* The screens of the web interface that hold calls in flight.  The        *)
(* application shows one at a time and they share no state, so that a      *)
(* behaviour follows one of them; the camera and the import, which release *)
(* something when they are left, have an action for it.                    *)
(***************************************************************************)
EXTENDS CameraSearch, QuerySearch, EventPages, ImportQueue

VARIABLE page  \* the screen followed

vars == <<cameraVars, queryVars, pagesVars, importVars, page>>

Pages == {"camera", "search", "events", "import"}

TypeOK ==
  /\ CameraTypeOK /\ QueryTypeOK /\ PagesTypeOK /\ ImportTypeOK
  /\ page \in Pages

Init ==
  /\ CameraInit /\ QueryInit /\ PagesInit /\ ImportInit
  /\ page \in Pages
  /\ page # "events" => catalogue = {}

Next ==
  /\ \/ page = "camera" /\ CameraNext /\ UNCHANGED <<queryVars, pagesVars, importVars>>
     \/ page = "search" /\ QueryNext /\ UNCHANGED <<cameraVars, pagesVars, importVars>>
     \/ page = "events" /\ PagesNext /\ UNCHANGED <<cameraVars, queryVars, importVars>>
     \/ page = "import" /\ ImportNext /\ UNCHANGED <<cameraVars, queryVars, pagesVars>>
  /\ UNCHANGED page

\* The browser ends every request that is listened to, with an answer or an error.
RequestEnds ==
  page = "import" /\ ImportAnswers /\ UNCHANGED <<cameraVars, queryVars, pagesVars, page>>

FairSpec == Init /\ [][Next]_vars /\ WF_vars(RequestEnds)

(* Every run of the import ends, although photos fail: the queue never     *)
(* loses the thread between two requests.                                  *)
EveryRunEnds == importing ~> ~importing
=============================================================================
