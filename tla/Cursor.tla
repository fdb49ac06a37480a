-------------------------------- MODULE Cursor --------------------------------
(***************************************************************************)
(* What a zipper promises whatever it is made of (the traits Zipper,       *)
(* ZipperMoving, ZipperIteration and ZipperPath, src/src/zipper.rs): it    *)
(* stands at a focus in a trie of paths and values.  A movement is given   *)
(* by the focus it ends at and by what it answers.                         *)
(***************************************************************************)
EXTENDS PathTrie

NoByte == -1
At(c, f) == [c EXCEPT !.focus = f]
Ends(c, f, ret) == [z |-> At(c, f), ret |-> ret]
\* An observer that follows the zipper's path.
EndsSeen(c, f, ret) == [z |-> At(c, f), ret |-> ret, obs |-> f]

new_cursor(t) == [trie |-> t, focus |-> <<>>]

----------------------------------------------------------------------------
(* Reading.                                                                *)

path(c) == c.focus
depth(c) == Len(c.focus)
at_root(c) == c.focus = <<>>
path_exists(c) == c.focus \in c.trie.paths
is_val(c) == IsVal(c.trie, c.focus)
focus_byte(c) == IF c.focus = <<>> THEN NoByte ELSE Last(c.focus)
MaskAt(t, p) == {Last(q) : q \in {r \in t.paths : Len(r) = Len(p) + 1 /\ IsPrefix(p, r)}}
child_mask(c) == MaskAt(c.trie, c.focus)
child_count(c) == Cardinality(child_mask(c))
val_count(c) == Cardinality({q \in DOMAIN c.trie.val : IsPrefix(c.focus, q)})

\* The trie below p, with its value; nothing at all when p does not exist.
SubtrieAt(t, p) ==
    LET from(q) == SubSeq(q, Len(p) + 1, Len(q))
    IN [paths |-> {from(q) : q \in {r \in t.paths : IsPrefix(p, r)}},
        val   |-> [r \in {from(q) : q \in {s \in DOMAIN t.val : IsPrefix(p, s)}} |-> t.val[p \o r]]]
fork_read_zipper(c) == new_cursor(SubtrieAt(c.trie, c.focus))

----------------------------------------------------------------------------
(* Going down.                                                             *)

Upto(p, n) == SubSeq(p, 1, n)
descend_to(c, k) == At(c, c.focus \o k)
descend_to_check(c, k) == Ends(c, c.focus \o k, c.focus \o k \in c.trie.paths)
\* How much of k exists below the focus.
Existing(c, k) == Max({0} \cup {n \in 1..Len(k) : c.focus \o Upto(k, n) \in c.trie.paths})
descend_to_existing(c, k) == Ends(c, c.focus \o Upto(k, Existing(c, k)), Existing(c, k))
\* No further than the first value on the way.
ValsAlong(c, k) == {n \in 1..Len(k) : IsVal(c.trie, c.focus \o Upto(k, n))}
ToVal(c, k) == IF ValsAlong(c, k) = {} THEN Existing(c, k) ELSE Min(ValsAlong(c, k))
descend_to_val(c, k) == Ends(c, c.focus \o Upto(k, ToVal(c, k)), ToVal(c, k))
descend_to_existing_byte(c, b) ==
    IF b \in child_mask(c) THEN Ends(c, Append(c.focus, b), TRUE) ELSE Ends(c, c.focus, FALSE)
Stay(c) == Ends(c, c.focus, NoByte)
Child(c, b) == Ends(c, Append(c.focus, b), b)
\* The n-th byte of the mask, from 0.
Nth(mask, n) == CHOOSE b \in mask : Cardinality({a \in mask : a < b}) = n
descend_indexed_byte(c, n) == IF n < child_count(c) THEN Child(c, Nth(child_mask(c), n)) ELSE Stay(c)
descend_first_byte(c) == descend_indexed_byte(c, 0)
descend_last_byte(c) == IF child_mask(c) = {} THEN Stay(c) ELSE Child(c, Max(child_mask(c)))

\* A value, a branch or the end of a path.
Stops(t, p) == IsVal(t, p) \/ Cardinality(MaskAt(t, p)) # 1
StopsBelow(c) == {q \in c.trie.paths : IsStrictPrefix(c.focus, q) /\ Stops(c.trie, q)}
Shortest(P) == CHOOSE p \in P : \A q \in P : Len(p) <= Len(q)
\* Until a value or a branch, by way of the only child there is.
Until(c) == IF child_count(c) # 1 THEN c.focus ELSE Shortest(StopsBelow(c))
descend_until(c) == EndsSeen(c, Until(c), child_count(c) = 1)
Limit(c, n) == Upto(Until(c), Min({Len(Until(c)), Len(c.focus) + n}))
descend_until_max_bytes(c, n) == EndsSeen(c, Limit(c, n), child_count(c) = 1 /\ n > 0)

----------------------------------------------------------------------------
(* Going up and across.                                                    *)

Above(c, n) == Upto(c.focus, Max({0, Len(c.focus) - n}))
Climb(c, f) == Ends(c, f, Len(c.focus) - Len(f))
ascend(c, n) == Climb(c, Above(c, n))
ascend_byte(c) == Ends(c, Above(c, 1), ~at_root(c))
Longest(P) == CHOOSE p \in P : \A q \in P : Len(q) <= Len(p)
BranchAt(t, p) == Cardinality(MaskAt(t, p)) > 1
Ancestors(p) == {Upto(p, n) : n \in 0..(Len(p) - 1)}
AscendTo(c, marks) == IF at_root(c) THEN Climb(c, c.focus) ELSE Climb(c, Longest({<<>>} \cup marks))
ascend_until(c) ==
    AscendTo(c, {p \in Ancestors(c.focus) : BranchAt(c.trie, p) \/ IsVal(c.trie, p)})
ascend_until_branch(c) == AscendTo(c, {p \in Ancestors(c.focus) : BranchAt(c.trie, p)})
reset(c) == At(c, <<>>)

Siblings(c) == MaskAt(c.trie, Above(c, 1))
ToSibling(c, bytes, nearest(_)) ==
    IF at_root(c) \/ bytes = {} THEN Stay(c) ELSE Ends(c, Append(Above(c, 1), nearest(bytes)), nearest(bytes))
Later(c) == IF at_root(c) THEN {} ELSE {b \in Siblings(c) : b > Last(c.focus)}
Earlier(c) == IF at_root(c) THEN {} ELSE {b \in Siblings(c) : b < Last(c.focus)}
to_next_sibling_byte(c) == ToSibling(c, Later(c), Min)
to_prev_sibling_byte(c) == ToSibling(c, Earlier(c), Max)

CommonLen(p, q) == Max({n \in 0..Min({Len(p), Len(q)}) : Upto(p, n) = Upto(q, n)})
move_to_path(c, q) == Ends(c, q, CommonLen(c.focus, q))

----------------------------------------------------------------------------
(* Iteration: depth first, a path before those below it, siblings by byte. *)

PathsAfter(c) == {q \in c.trie.paths : DfsBefore(c.focus, q)}
FirstAmong(c, P, otherwise) ==
    IF P = {} THEN EndsSeen(c, otherwise, FALSE) ELSE EndsSeen(c, FirstOf(P), TRUE)
to_next_step(c) == FirstAmong(c, PathsAfter(c), <<>>)
to_next_val(c) == FirstAmong(c, ValsAfter(c.trie, c.focus), <<>>)
LastOf(P) == CHOOSE p \in P : \A q \in P : q = p \/ DfsBefore(q, p)
LastAmong(c, P) == IF P = {} THEN EndsSeen(c, c.focus, FALSE) ELSE EndsSeen(c, LastOf(P), LastOf(P) # c.focus)
PathsBelow(c) == {q \in c.trie.paths : IsPrefix(c.focus, q)}
descend_last_path(c) == LastAmong(c, PathsBelow(c))
ValsBelow(c) == {q \in DOMAIN c.trie.val : IsPrefix(c.focus, q)}
descend_last_val(c) == IF ValsBelow(c) = {} THEN EndsSeen(c, c.focus, FALSE) ELSE EndsSeen(c, LastOf(ValsBelow(c)), TRUE)
KPaths(c, base, n) == {q \in c.trie.paths : Len(q) = n /\ IsPrefix(base, q)}
descend_first_k_path(c, k) ==
    IF k = 0 THEN EndsSeen(c, c.focus, FALSE) ELSE FirstAmong(c, KPaths(c, c.focus, Len(c.focus) + k), c.focus)
to_next_k_path(c, k) ==
    IF k > Len(c.focus) THEN EndsSeen(c, <<>>, FALSE)
    ELSE FirstAmong(c, {q \in KPaths(c, Above(c, k), Len(c.focus)) : DfsBefore(c.focus, q)}, Above(c, k))
===============================================================================
