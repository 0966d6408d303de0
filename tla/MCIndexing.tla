----------------------------- MODULE MCIndexing -----------------------------
(* Values of the constants of IndexingPipeline for TLC. *)
EXTENDS IndexingPipeline, FaceFilter, TLC

CONSTANTS w1, w2, t1, v1, v2

\* Corners in half pixels.  The first face leaves the image on the left and is
\* 40 pixels wide inside it, which is enough; the right edge leaves 39 of the
\* second one, which is not.
Portrait(x1, x2) ==
  [x1 |-> x1, y1 |-> 20, x2 |-> x2, y2 |-> 140, score |-> 80, sharpness |-> 60,
   leftEye |-> 10, rightEye |-> 20, nose |-> 20]

\* Image 1 has a face of each kind (0 is accepted, 1 is not), image 2 has none.
PhotoOf(i) == [width |-> 200, height |-> 100,
               faces |-> IF i = 1 THEN <<Portrait(-3, 80), Portrait(323, 440)>> ELSE <<>>]

Kept == [i \in Images |-> AcceptedFaces(PhotoOf(i))]
Discarded == [i \in Images |-> RejectedFaces(PhotoOf(i))]
FacesAccepted == Kept
FacesRejected == Discarded

\* A rolling upgrade: one worker still runs the old model.
UpgradingVersions == [w \in Workers |-> IF w = w1 THEN v1 ELSE v2]
SameVersion       == [w \in Workers |-> v2]

WorkerSymmetry == Permutations(Workers)
=============================================================================
