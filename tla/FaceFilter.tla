----------------------------- MODULE FaceFilter -----------------------------
(***************************************************************************)
(* What happens to a photo between its bytes and its faces: the detector's *)
(* frames are brought into the image, the quality filter keeps a face or   *)
(* says why not.  The worker goes through these operators; they are        *)
(* deterministic.                                                          *)
(*                                                                         *)
(* A photo that can be decoded is [width, height, faces]; a face as the    *)
(* network gives it has its frame's corners in fractions of a pixel, a     *)
(* score in hundredths, a sharpness and three abscissas of its landmarks.  *)
(***************************************************************************)
EXTENDS Integers, Sequences, FiniteSets

CONSTANT Fraction  \* the frames' corners are multiples of 1/Fraction of a pixel

ASSUME FractionAssumption == Fraction \in Nat \ {0}

DetectedFace ==
  [x1 : Int, y1 : Int, x2 : Int, y2 : Int, score : 0..100, sharpness : Nat,
   leftEye : Int, rightEye : Int, nose : Int]
Photo == [width : Nat \ {0}, height : Nat \ {0}, faces : Seq(DetectedFace)]

Smaller(a, b) == IF a <= b THEN a ELSE b
Larger(a, b)  == IF a <= b THEN b ELSE a
Distance(a, b) == Larger(a - b, b - a)

-----------------------------------------------------------------------------
(* Detection.                                                              *)

\* int(): towards zero, whatever the sign.
Pixel(c) == IF c >= 0 THEN c \div Fraction ELSE -((-c) \div Fraction)

\* clamp_bbox_to_image in one direction: the first and the last pixel's end.
Start(low, size)      == Smaller(Larger(Pixel(low), 0), Larger(size - 1, 0))
End(low, high, size)  == Smaller(Larger(Pixel(high), Start(low, size) + 1), size)

Frame(face, width, height) ==
  LET left == Start(face.x1, width)
      top  == Start(face.y1, height)
  IN [x |-> left, y |-> top,
      width  |-> End(face.x1, face.x2, width) - left,
      height |-> End(face.y1, face.y2, height) - top]

\* BoundingBox.__post_init__ does not raise.
IsBoundingBox(box) == box.width > 0 /\ box.height > 0 /\ box.x >= 0 /\ box.y >= 0

Side(box) == Smaller(box.width, box.height)

\* abs(estimate_yaw_degrees) > 45: the nose is further from the middle of the
\* eyes than half their distance (or half a pixel when they coincide).
InProfile(face) ==
  Distance(2 * face.nose, face.leftEye + face.rightEye)
    > LET eyes == Distance(face.rightEye, face.leftEye)
      IN IF eyes = 0 THEN 1 ELSE eyes

-----------------------------------------------------------------------------
(* assess_face_quality: what is tested in turn, and the first reason found *)
(* to reject the face.                                                     *)
MinFaceSide  == 40
MinScore     == 80
MinSharpness == 60

Assess(face, photo) ==
  IF Side(Frame(face, photo.width, photo.height)) < MinFaceSide THEN "size"
  ELSE IF face.score < MinScore THEN "score"
  ELSE IF face.sharpness < MinSharpness THEN "blur"
  ELSE IF InProfile(face) THEN "pose"
  ELSE "passed"

\* face_index is the position in the detector's list, from 0.
AcceptedFaces(photo) ==
  {k - 1 : k \in {j \in DOMAIN photo.faces : Assess(photo.faces[j], photo) = "passed"}}
RejectedFaces(photo) ==
  {k - 1 : k \in {j \in DOMAIN photo.faces : Assess(photo.faces[j], photo) # "passed"}}
=============================================================================
