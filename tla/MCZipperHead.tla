----------------------------- MODULE MCZipperHead -----------------------------
(***************************************************************************)
(* Small instances of ZipperHead.                                          *)
(***************************************************************************)
EXTENDS ZipperHead

CONSTANTS z1, z2, z3

MCBytes == {1, 2}

\* A root with two branches; with one branch two levels deep, so that pruning
\* climbs; and below a head at <<1>>.
MCForkPath == {<<>>, <<1>>, <<2>>}
MCDeepPath == {<<>>, <<1>>, <<2>>, <<1, 1>>}
MCNestedPath == {<<>>, <<1>>, <<2>>, <<1, 1>>, <<1, 2>>}

Deep == [base |-> <<>>, threaded |-> FALSE, ends |-> {"cleanup"}, converts |-> FALSE,
         paths |-> MCDeepPath, within |-> MCDeepPath, most |-> 2]
Fork == [Deep EXCEPT !.paths = MCForkPath, !.within = MCForkPath]
Three == [Fork EXCEPT !.most = 3]
Nested == [Fork EXCEPT !.base = <<1>>, !.within = MCNestedPath, !.ends = {"drop"}]
Owned == [Fork EXCEPT !.threaded = TRUE, !.ends = {"drop"}, !.converts = TRUE]

MCHeads == {Deep, Three, Nested, Owned}

\* What the runs that disagree with the documentation are about.
MCNestedCleanup == {[Nested EXCEPT !.ends = {"cleanup"}]}
MCOwnedCleanup == {[Deep EXCEPT !.threaded = TRUE]}
MCConvert == {[Three EXCEPT !.ends = {"drop"}, !.converts = TRUE]}

MCSymmetry == Permutations(Zipper)
===============================================================================
