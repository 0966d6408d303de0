---------------------------- MODULE MCEventImport ----------------------------
(* Values of the constants of FolderImport for TLC. *)
EXTENDS FolderImport, TLC

CONSTANTS p1, p2, a, b, jpg, png

File(x, s) == [photo |-> x, suffix |-> s]

\* One file or two: the same photo under two names, a photo that cannot be read
\* before or after one that can.
ShortBatches == {
  <<File(a, jpg)>>,
  <<File(a, png), File(a, jpg)>>,
  <<File(a, jpg), File(b, jpg)>>,
  <<File(b, png), File(a, jpg)>>}

\* A folder alone; two subfolders, the second without images or with a photo
\* that the first may hold too, beside an image that is ignored.
Given == {
  [own |-> <<File(a, jpg)>>, subfolders |-> <<>>],
  [own |-> <<File(a, jpg)>>,
   subfolders |-> <<<<File(a, jpg), File(b, jpg)>>, <<File(a, jpg)>>>>],
  [own |-> <<>>, subfolders |-> <<<<File(a, jpg)>>, <<>>>>]}
=============================================================================
