------------------------------- MODULE Domain -------------------------------
(***************************************************************************)
(* The images to index and the model versions, shared by the modules.      *)
(* Image ids are numbers: the code orders images by id.                    *)
(***************************************************************************)
EXTENDS Naturals, FiniteSets

CONSTANTS
  Images,   \* ids of the rows of event_images
  Versions  \* model versions, settings.model_version of some process

ASSUME ImagesAssumption == Images \subseteq Nat /\ IsFiniteSet(Images)

\* A counter that stops at cap: the code tells no larger values apart.
Capped(n, cap) == IF n < cap THEN n ELSE cap

\* The k smallest ids of S: ORDER BY id LIMIT k, and the order of a stream.
Oldest(S, k) == {m \in S : Cardinality({n \in S : n < m}) < k}
First(S)     == CHOOSE m \in S : \A n \in S : m <= n
=============================================================================
