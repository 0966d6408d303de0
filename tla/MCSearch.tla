------------------------------ MODULE MCSearch ------------------------------
(* Values of the constants of Search for TLC: two faces of one event, one  *)
(* of another that is almost as similar, and one of an older model.        *)
EXTENDS Search, TLC

CONSTANTS r1, r2

EventsOfFaces == [f \in Faces |-> IF f \in {1, 2, 4} THEN 1 ELSE 2]
VersionsOfFaces == [f \in Faces |-> IF f = 4 THEN "v1" ELSE "v2"]
Dates == [e \in Events |-> e]
\* Event 2 has the most similar face to "a"; two faces of event 1 outweigh it.
Similarities == [f \in Faces |-> [q \in QueryFaces |->
  IF q = "a" THEN CASE f = 1 -> 500 [] f = 2 -> 490 [] f = 3 -> 505 [] f = 4 -> 700
             ELSE 460]]
Bonuses == <<14, 22, 28>>

Query(faces, index, threshold, from, limit) ==
  [actor |-> "alice", authorized |-> TRUE, oversized |-> FALSE, readable |-> TRUE,
   faces |-> faces, index |-> index, threshold |-> threshold, from |-> from,
   to |-> None, limit |-> limit]
Plain == Query(<<"a">>, None, None, None, 1)

Asked == {
  Plain,
  Query(<<"a">>, 0, 495, None, 2),           \* own threshold
  Query(<<"b", "a">>, 1, None, 2, 2),        \* dates
  Query(<<"a", "b">>, None, None, None, 2),  \* ambiguous
  Query(<<"a">>, 1, None, None, 2),          \* no such face
  Query(<<"b">>, None, None, None, -1),      \* all equal
  Query(<<>>, None, None, None, 2),          \* no face
  [Plain EXCEPT !.actor = "bob", !.to = 1, !.limit = 5],
  [Plain EXCEPT !.readable = FALSE],
  [Plain EXCEPT !.authorized = FALSE]}

RequestSymmetry == Permutations(Requests)
=============================================================================
