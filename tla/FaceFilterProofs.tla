-------------------------- MODULE FaceFilterProofs --------------------------
(* What FaceFilter promises to the steps that follow it, for every image   *)
(* and every frame of the network.                                         *)
EXTENDS FaceFilter, TLAPS

LEMMA PixelType ==
  ASSUME NEW c \in Int
  PROVE  Pixel(c) \in Int
BY FractionAssumption DEF Pixel

\* One direction of the clamp, for an image that is not empty.
LEMMA ClampBounds ==
  ASSUME NEW low \in Int, NEW high \in Int, NEW size \in Nat \ {0}
  PROVE  /\ Start(low, size) \in 0..(size - 1)
         /\ End(low, high, size) \in (Start(low, size) + 1)..size
<1>1. Pixel(low) \in Int /\ Pixel(high) \in Int
  BY PixelType
<1>2. Start(low, size) \in 0..(size - 1)
  BY <1>1 DEF Start, Smaller, Larger
<1>3. End(low, high, size) \in (Start(low, size) + 1)..size
  BY <1>1, <1>2 DEF End, Smaller, Larger
<1>4. QED BY <1>2, <1>3

(* clamp_bbox_to_image never makes BoundingBox raise, wherever the network *)
(* puts the frame (left or right of the image, corners swapped, less than  *)
(* a pixel wide), and the frame lies in the image.                         *)
THEOREM FrameInImage ==
  ASSUME NEW width \in Nat \ {0}, NEW height \in Nat \ {0},
         NEW face, face.x1 \in Int, face.x2 \in Int, face.y1 \in Int, face.y2 \in Int
  PROVE  LET box == Frame(face, width, height)
         IN /\ IsBoundingBox(box)
            /\ box.x + box.width <= width
            /\ box.y + box.height <= height
<1> DEFINE left == Start(face.x1, width)
           top == Start(face.y1, height)
           right == End(face.x1, face.x2, width)
           bottom == End(face.y1, face.y2, height)
<1>1. left \in 0..(width - 1) /\ right \in (left + 1)..width
  BY ClampBounds
<1>2. top \in 0..(height - 1) /\ bottom \in (top + 1)..height
  BY ClampBounds
<1>3. Frame(face, width, height) =
        [x |-> left, y |-> top, width |-> right - left, height |-> bottom - top]
  BY DEF Frame
<1> HIDE DEF left, top, right, bottom
<1>4. QED BY <1>1, <1>2, <1>3 DEF IsBoundingBox

\* One direction of a frame that is wide enough is no wider than the network's.
LEMMA ClampShrinks ==
  ASSUME NEW low \in Int, NEW high \in Int, NEW size \in Nat \ {0},
         End(low, high, size) - Start(low, size) > 1
  PROVE  Pixel(low) <= Start(low, size) /\ End(low, high, size) <= Pixel(high)
<1>1. PICK p \in Int, q \in Int : p = Pixel(low) /\ q = Pixel(high)
  BY PixelType
<1>2. PICK left \in 0..(size - 1) : left = Start(low, size)
  BY ClampBounds
<1>3. PICK right \in (left + 1)..size : right = End(low, high, size)
  BY <1>2, ClampBounds
<1>4. left = Smaller(Larger(p, 0), Larger(size - 1, 0))
  BY <1>1, <1>2 DEF Start
<1>5. right = Smaller(Larger(q, left + 1), size)
  BY <1>1, <1>2, <1>3 DEF End
<1>6. right - left > 1
  BY <1>2, <1>3
<1>7. right <= q
  BY <1>5, <1>6 DEF Smaller, Larger
<1>8. left < size - 1
  BY <1>3, <1>6
<1>9. p <= left
  BY <1>4, <1>8 DEF Smaller, Larger
<1>10. QED BY <1>1, <1>2, <1>3, <1>7, <1>9

(* The clamp, which widens a frame that is outside of the image or empty   *)
(* to a pixel, never makes a face acceptable: one that is embedded has a   *)
(* frame of 40 pixels a side at least that lies both in the image and in   *)
(* the frame that the network gave.                                        *)
THEOREM AcceptedFaceIsVisible ==
  ASSUME NEW photo \in Photo, NEW k \in DOMAIN photo.faces, k - 1 \in AcceptedFaces(photo)
  PROVE  LET face == photo.faces[k]
             box == Frame(face, photo.width, photo.height)
         IN /\ box.width >= MinFaceSide /\ box.height >= MinFaceSide
            /\ Larger(Pixel(face.x1), 0) <= box.x
            /\ box.x + box.width <= Smaller(Pixel(face.x2), photo.width)
            /\ Larger(Pixel(face.y1), 0) <= box.y
            /\ box.y + box.height <= Smaller(Pixel(face.y2), photo.height)
<1>1. PICK face : face = photo.faces[k]
  OBVIOUS
<1>2. /\ photo.width \in Nat \ {0} /\ photo.height \in Nat \ {0}
      /\ face.x1 \in Int /\ face.x2 \in Int /\ face.y1 \in Int /\ face.y2 \in Int
  <2>1. face \in DetectedFace /\ photo.width \in Nat \ {0} /\ photo.height \in Nat \ {0}
    BY <1>1 DEF Photo
  <2>2. QED BY <2>1 DEF DetectedFace
<1>3. Assess(face, photo) = "passed"
  <2>1. PICK j \in DOMAIN photo.faces : /\ Assess(photo.faces[j], photo) = "passed"
                                        /\ k - 1 = j - 1
    BY DEF AcceptedFaces
  <2>2. j \in Int /\ k \in Int
    <3>1. PICK faces \in Seq(DetectedFace) : faces = photo.faces
      BY DEF Photo
    <3>2. DOMAIN faces = 1..Len(faces) /\ Len(faces) \in Nat
      OBVIOUS
    <3>3. QED BY <2>1, <3>1, <3>2
  <2>3. j = k
    BY <2>1, <2>2
  <2>4. QED BY <1>1, <2>1, <2>3
<1>4. PICK box : box = Frame(face, photo.width, photo.height)
  OBVIOUS
<1>5. ~(Side(box) < MinFaceSide)
  BY <1>4, <1>3 DEF Assess
<1>6. PICK left \in 0..(photo.width - 1) : left = Start(face.x1, photo.width)
  BY <1>2, ClampBounds
<1>7. PICK right \in (left + 1)..photo.width : right = End(face.x1, face.x2, photo.width)
  BY <1>2, <1>6, ClampBounds
<1>8. PICK top \in 0..(photo.height - 1) : top = Start(face.y1, photo.height)
  BY <1>2, ClampBounds
<1>9. PICK bottom \in (top + 1)..photo.height : bottom = End(face.y1, face.y2, photo.height)
  BY <1>2, <1>8, ClampBounds
<1>10. box = [x |-> left, y |-> top, width |-> right - left, height |-> bottom - top]
  BY <1>4, <1>6, <1>7, <1>8, <1>9 DEF Frame
<1>11. right - left >= 40 /\ bottom - top >= 40
  BY <1>5, <1>10 DEF Side, Smaller, MinFaceSide
<1>12. Pixel(face.x1) <= left /\ right <= Pixel(face.x2)
  BY <1>2, <1>6, <1>7, <1>11, ClampShrinks
<1>13. Pixel(face.y1) <= top /\ bottom <= Pixel(face.y2)
  BY <1>2, <1>8, <1>9, <1>11, ClampShrinks
<1>14. /\ Pixel(face.x1) \in Int /\ Pixel(face.x2) \in Int
       /\ Pixel(face.y1) \in Int /\ Pixel(face.y2) \in Int
  BY <1>2, PixelType
<1>15. box.x + box.width = right /\ box.y + box.height = bottom
  BY <1>10
<1>16. box.x = left /\ box.y = top /\ box.width >= MinFaceSide /\ box.height >= MinFaceSide
  BY <1>10, <1>11 DEF MinFaceSide
<1>17. Larger(Pixel(face.x1), 0) <= left /\ right <= Smaller(Pixel(face.x2), photo.width)
  BY <1>2, <1>12, <1>14 DEF Larger, Smaller
<1>18. Larger(Pixel(face.y1), 0) <= top /\ bottom <= Smaller(Pixel(face.y2), photo.height)
  BY <1>2, <1>13, <1>14 DEF Larger, Smaller
<1>19. QED BY <1>1, <1>4, <1>15, <1>16, <1>17, <1>18
=============================================================================
