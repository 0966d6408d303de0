--------------------------- MODULE MCSupervision ----------------------------
(* Values of the constants of Supervision for TLC: an image in each of two *)
(* events, each with a face kept and one rejected.                         *)
EXTENDS Supervision, TLC

CONSTANTS c1, c2

EventOfImage == [i \in Images |-> IF i = 1 THEN 2 ELSE 1]
FacesKept    == [i \in Images |-> {0}]
FacesDropped == [i \in Images |-> {1}]

ConsumerSymmetry == Permutations(Consumers)
=============================================================================
