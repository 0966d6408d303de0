----------------------------- MODULE MCFrontEnd -----------------------------
(* Values of the constants of FrontEnd for TLC. *)
EXTENDS FrontEnd

CONSTANTS a, b, c

\* A photo without a face, with one, with two.
FacesFound == [p \in Photos |-> CASE p = a -> 0 [] p = b -> 1 [] OTHER -> 2]
=============================================================================
