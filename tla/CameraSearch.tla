---------------------------- MODULE CameraSearch ----------------------------
(***************************************************************************)
(* The screen that searches continuously on the camera's images.           *)
(*                                                                         *)
(* JavaScript runs one task at a time, so that a step is what runs between *)
(* two awaits, callbacks or events.  Opening the camera is two awaits: the *)
(* permission, then the playback.  A cycle is a capture, a detection and a *)
(* search when there is a face.  Delays are left out: a timer that is set  *)
(* may fire at any time.                                                   *)
(***************************************************************************)
EXTENDS Naturals, FiniteSets

CONSTANTS
  Openings,  \* calls of openStream that may be pending together (bound of the model)
  Cycles,    \* cycles that may be pending together (bound of the model)
  NoCycle    \* inFlight = null

ASSUME CameraAssumption == NoCycle \notin Cycles

Streams == 1..(Cardinality(Openings) + 2)  \* enough to tell the live ones apart
NoStream == 0

VARIABLES
  mounted,   \* the screen is shown
  hidden,    \* document.hidden
  running, starting,
  phase,
  opening,   \* state of each pending openStream, and who called it
  stream,    \* this.stream
  live,      \* streams whose tracks are not stopped
  timer,     \* a timer is set
  cycle,     \* state of each cycle: "free", "capture", "stale", "detect" or "search"
  inFlight,  \* the subscription that cancelCycle would drop
  crossed,   \* history: the camera was opening when the user did something else
  rewoken    \* history: the tab came back while a cycle was capturing or the camera opening

camera     == <<opening, stream, live>>
loop       == <<phase, timer, cycle, inFlight>>
cameraVars == <<mounted, hidden, running, starting, camera, loop, crossed, rewoken>>

Phases == {"idle", "detecting", "searching", "waiting", "throttled", "hidden"}
NotOpening == [by |-> "nobody", at |-> "none"]

CameraTypeOK ==
  /\ {mounted, hidden, running, starting, timer, crossed, rewoken} \subseteq BOOLEAN
  /\ phase \in Phases
  /\ opening \in [Openings -> [by : {"nobody", "start", "change"}, at : {"none", "asking", "playing"}]]
  /\ stream \in Streams \cup {NoStream} /\ live \subseteq Streams
  /\ cycle \in [Cycles -> {"free", "capture", "stale", "detect", "search"}]
  /\ inFlight \in Cycles \cup {NoCycle}
  /\ inFlight # NoCycle => cycle[inFlight] \in {"detect", "search"}

CameraInit ==
  /\ mounted = TRUE /\ hidden = FALSE /\ running = FALSE /\ starting = FALSE
  /\ phase = "idle" /\ timer = FALSE /\ inFlight = NoCycle
  /\ opening = [o \in Openings |-> NotOpening]
  /\ stream = NoStream /\ live = {}
  /\ cycle = [c \in Cycles |-> "free"]
  /\ crossed = FALSE /\ rewoken = FALSE

Opening == \E o \in Openings : opening[o] # NotOpening
Cross == crossed' = (crossed \/ Opening)

-----------------------------------------------------------------------------
\* A capture under way belongs to an earlier generation from now on.
CancelCycle ==
  /\ timer' = FALSE
  /\ cycle' = [c \in Cycles |-> CASE c = inFlight -> "free"
                                  [] cycle[c] = "capture" -> "stale"
                                  [] OTHER -> cycle[c]]
  /\ inFlight' = NoCycle

\* Mutation: the stream is dropped with its tracks running.
DropStream == stream' = NoStream /\ UNCHANGED live
ReleaseStream == stream' = NoStream /\ live' = live \ {stream}

StopAll ==
  /\ running' = FALSE
  /\ CancelCycle
  /\ ReleaseStream
  /\ phase' = "idle"

-----------------------------------------------------------------------------
(* The user and the tab.                                                   *)

\* The button is disabled while the camera opens, and replaced while it runs.
Start(o) ==
  /\ mounted /\ ~running /\ ~starting
  /\ opening[o] = NotOpening
  /\ starting' = TRUE
  /\ opening' = [opening EXCEPT ![o] = [by |-> "start", at |-> "asking"]]
  /\ Cross
  /\ UNCHANGED <<mounted, hidden, running, stream, live, loop, rewoken>>

Stop ==
  /\ mounted /\ running
  /\ StopAll
  /\ Cross
  /\ UNCHANGED <<mounted, hidden, starting, opening, rewoken>>

\* ngOnDestroy: another page is chosen, or the session is closed.
Leave ==
  /\ mounted
  /\ mounted' = FALSE
  /\ StopAll
  /\ Cross
  /\ UNCHANGED <<hidden, starting, opening, rewoken>>

OnDeviceChange(o) ==
  /\ mounted /\ running
  /\ opening[o] = NotOpening
  /\ CancelCycle
  /\ ReleaseStream
  /\ opening' = [opening EXCEPT ![o] = [by |-> "change", at |-> "asking"]]
  /\ Cross
  /\ UNCHANGED <<mounted, hidden, running, starting, phase, rewoken>>

Hide ==
  /\ ~hidden /\ hidden' = TRUE
  /\ UNCHANGED <<mounted, running, starting, camera, loop, crossed, rewoken>>

\* Mutation: the loop is not started again.
ShowOnly ==
  /\ hidden /\ hidden' = FALSE
  /\ UNCHANGED <<mounted, running, starting, camera, loop, crossed, rewoken>>

\* onVisibilityChange; the phase is still "hidden" while the next cycle captures.
Show ==
  /\ hidden /\ hidden' = FALSE
  /\ IF mounted /\ running /\ phase = "hidden"
     THEN /\ timer' = TRUE
          /\ rewoken' = (rewoken \/ Opening \/ \E c \in Cycles : cycle[c] = "capture")
     ELSE UNCHANGED <<timer, rewoken>>
  /\ UNCHANGED <<mounted, running, starting, camera, phase, cycle, inFlight, crossed>>

-----------------------------------------------------------------------------
(* openStream.                                                             *)

\* getUserMedia resolves: the stream is the screen's, whatever happened since.
Granted(o) ==
  /\ opening[o].at = "asking"
  /\ \E s \in Streams \ (live \cup {stream}) :
       /\ \A r \in Streams \ (live \cup {stream}) : s <= r
       /\ stream' = s /\ live' = live \cup {s}
  /\ opening' = [opening EXCEPT ![o].at = "playing"]
  /\ UNCHANGED <<mounted, hidden, running, starting, loop, crossed, rewoken>>

\* The video plays, the devices are listed.
Opened(o) ==
  /\ opening[o].at = "playing"
  /\ opening' = [opening EXCEPT ![o] = NotOpening]
  /\ timer' = TRUE
  /\ IF opening[o].by = "start"
     THEN running' = TRUE /\ starting' = FALSE
     ELSE UNCHANGED <<running, starting>>
  /\ UNCHANGED <<mounted, hidden, stream, live, phase, cycle, inFlight, crossed, rewoken>>

\* One of the awaits rejects.
NotOpened(o) ==
  /\ opening[o] # NotOpening
  /\ opening' = [opening EXCEPT ![o] = NotOpening]
  /\ IF opening[o].by = "start"
     THEN /\ ReleaseStream /\ starting' = FALSE
          /\ UNCHANGED <<running, loop>>
     ELSE StopAll /\ UNCHANGED starting
  /\ UNCHANGED <<mounted, hidden, crossed, rewoken>>

-----------------------------------------------------------------------------
(* The loop.                                                               *)
TimerFires ==
  /\ timer
  /\ timer' = FALSE
  /\ \/ ~running /\ UNCHANGED <<phase, cycle>>
     \/ running /\ hidden /\ phase' = "hidden" /\ UNCHANGED cycle
     \/ /\ running /\ ~hidden
        /\ \E c \in Cycles : cycle[c] = "free" /\ cycle' = [cycle EXCEPT ![c] = "capture"]
        /\ UNCHANGED phase
  /\ UNCHANGED <<mounted, hidden, running, starting, camera, inFlight, crossed, rewoken>>

\* Mutation: the generation is not compared after the capture.
CapturedAnyway(c) ==
  /\ cycle[c] \in {"capture", "stale"}
  /\ cycle' = [cycle EXCEPT ![c] = IF running THEN "detect" ELSE "free"]
  /\ IF running THEN phase' = "detecting" /\ inFlight' = c ELSE UNCHANGED <<phase, inFlight>>
  /\ UNCHANGED <<timer, mounted, hidden, running, starting, camera, crossed, rewoken>>

\* The capture resolves: for a cycle that is over, without an image, or with one.
Captured(c) ==
  /\ \/ /\ cycle[c] = "stale" \/ (cycle[c] = "capture" /\ ~running)
        /\ cycle' = [cycle EXCEPT ![c] = "free"]
        /\ UNCHANGED <<phase, timer, inFlight>>
     \/ /\ cycle[c] = "capture" /\ running
        /\ cycle' = [cycle EXCEPT ![c] = "free"]
        /\ timer' = TRUE
        /\ UNCHANGED <<phase, inFlight>>
     \/ /\ cycle[c] = "capture" /\ running
        /\ cycle' = [cycle EXCEPT ![c] = "detect"]
        /\ phase' = "detecting" /\ inFlight' = c
        /\ UNCHANGED timer
  /\ UNCHANGED <<mounted, hidden, running, starting, camera, crossed, rewoken>>

\* A face is found: the same image is searched.
Detected(c) ==
  /\ cycle[c] = "detect"
  /\ cycle' = [cycle EXCEPT ![c] = "search"]
  /\ phase' = "searching" /\ inFlight' = c
  /\ UNCHANGED <<timer, mounted, hidden, running, starting, camera, crossed, rewoken>>

\* Mutation: the subscription that has ended is kept.
CycleEndsOnly(c) ==
  /\ cycle[c] \in {"detect", "search"}
  /\ cycle' = [cycle EXCEPT ![c] = "free"]
  /\ phase' \in {"waiting", "throttled"}
  /\ timer' = TRUE
  /\ UNCHANGED <<inFlight, mounted, hidden, running, starting, camera, crossed, rewoken>>

\* No face, the results, or an error: the next cycle is set, later after a 429.
CycleEnds(c) ==
  /\ cycle[c] \in {"detect", "search"}
  /\ cycle' = [cycle EXCEPT ![c] = "free"]
  /\ phase' \in {"waiting", "throttled"}
  /\ inFlight' = NoCycle /\ timer' = TRUE
  /\ UNCHANGED <<mounted, hidden, running, starting, camera, crossed, rewoken>>

CameraNext ==
  \/ Stop \/ Leave \/ Hide \/ Show \/ TimerFires
  \/ \E o \in Openings : Start(o) \/ OnDeviceChange(o) \/ Granted(o) \/ Opened(o) \/ NotOpened(o)
  \/ \E c \in Cycles : Captured(c) \/ Detected(c) \/ CycleEnds(c)

-----------------------------------------------------------------------------
Busy == {c \in Cycles : cycle[c] \in {"capture", "detect", "search"}}

(* "Le cycle suivant part après la fin du précédent, jamais en parallèle",  *)
(* and a stopped screen has no request left: only an opening that crossed  *)
(* another action, or a tab that came back meanwhile, makes two loops.     *)
LoopIsSequential ==
  ~crossed /\ ~rewoken =>
    /\ Cardinality(Busy) <= 1
    /\ timer => Busy = {}
    /\ ~running => Busy = {}

(* A screen that runs is never stuck, not even when openings cross: the    *)
(* camera opens, a timer is set, a cycle is under way, or the tab is hidden*)
(* and its return starts the loop again.                                   *)
LoopGoesOn ==
  mounted /\ running => Opening \/ timer \/ Busy # {} \/ (hidden /\ phase = "hidden")

(* The only stream alive is the one that the next release stops, and a     *)
(* screen at rest has none, unless an opening crossed another action.      *)
OnlyCrossedOpeningsLeak ==
  ~crossed => /\ live \subseteq {stream}
              /\ ~running /\ ~Opening => live = {}

(* "Arrêter éteint la caméra : pistes coupées, voyant du poste éteint":    *)
(* on a screen that does not run, with nothing being opened, no camera is  *)
(* on.  The code does not keep this promise.                               *)
CameraOffWhenStopped == mounted /\ ~running /\ ~Opening => live = {}
=============================================================================
