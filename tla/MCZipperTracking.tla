--------------------------- MODULE MCZipperTracking ---------------------------
(***************************************************************************)
(* Small instances of ZipperTracking.                                      *)
(***************************************************************************)
EXTENDS ZipperTracking

CONSTANTS t1, t2, t3

\* A root with two branches, one of them two levels deep: enough for a path to
\* be above, below, at and beside another one, and for a depth-first traversal
\* to leave a subtrie and find a value in the next one.
MCPath == {<<>>, <<1>>, <<1, 1>>, <<1, 2>>, <<2>>}
MCTrackers3 == {t1, t2, t3}
MCSymmetry == Permutations(Tracker)
===============================================================================
