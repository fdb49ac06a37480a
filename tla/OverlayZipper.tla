---------------------------- MODULE OverlayZipper ----------------------------
(***************************************************************************)
(* OverlayZipper (src/src/overlay_zipper.rs): the tries of two zippers     *)
(* laid over each other.  Both stand at the same path, whether it exists   *)
(* in each of them or not; where both have a value it is the first's.      *)
(***************************************************************************)
EXTENDS Integers, SequencesExt

CONSTANTS
    Path,
    NoVal,
    Chunk       \* CHUNK: how far the sources descend before they are compared

S == INSTANCE Cursor

None == -1
Ans(z, ret) == [z |-> z, ret |-> ret]
Obs(z, ret, obs) == [z |-> z, ret |-> ret, obs |-> obs]
Take(k, n) == SubSeq(k, 1, n)
Drop(k, n) == SubSeq(k, n + 1, Len(k))

Both(a, b) == [a |-> a, b |-> b]
new(a, b) == Both(S!reset(a), S!reset(b))

path(z) == z.a.focus
depth(z) == S!depth(z.a)
at_root(z) == S!at_root(z.a) \/ S!at_root(z.b)
focus_byte(z) == IF depth(z) = 0 THEN None ELSE S!focus_byte(z.a)
path_exists(z) == S!path_exists(z.a) \/ S!path_exists(z.b)
ValOf(c) == IF S!is_val(c) THEN c.trie.val[c.focus] ELSE NoVal
get_val(z) == IF ValOf(z.a) # NoVal THEN ValOf(z.a) ELSE ValOf(z.b)
is_val(z) == get_val(z) # NoVal
child_mask(z) == S!child_mask(z.a) \cup S!child_mask(z.b)
child_count(z) == Cardinality(child_mask(z))

----------------------------------------------------------------------------

reset(z) == Both(S!reset(z.a), S!reset(z.b))
descend_to(z, k) == Both(S!descend_to(z.a, k), S!descend_to(z.b, k))
descend_to_byte(z, b) == descend_to(z, <<b>>)
\* A mutated form of Level: the sources are left where each of them got to.
Level_Apart(a, b, k) == Ans(Both(a.z, b.z), Max({a.ret, b.ret}))

\* The source that got less far along k follows the other.
Level(a, b, k) ==
    Ans(Both(S!descend_to(a.z, SubSeq(k, a.ret + 1, b.ret)), S!descend_to(b.z, SubSeq(k, b.ret + 1, a.ret))), Max({a.ret, b.ret}))
descend_to_existing(z, k) == Level(S!descend_to_existing(z.a, k), S!descend_to_existing(z.b, k), k)

\* The nearer of the two stops counts if it is a value, the farther one otherwise.
AtNew(r) == r.ret > 0 /\ S!is_val(r.z)
Nearer(a, b, k) ==
    CASE a.ret < b.ret /\ AtNew(a) -> Ans(Both(a.z, S!ascend(b.z, b.ret - a.ret).z), a.ret)
      [] b.ret < a.ret /\ AtNew(b) -> Ans(Both(S!ascend(a.z, a.ret - b.ret).z, b.z), b.ret)
      [] OTHER -> Level(a, b, k)
RECURSIVE ValFrom(_, _, _)
ValAfter(s, k, done) ==
    IF s.ret = 0 \/ is_val(s.z) THEN Ans(s.z, done + s.ret) ELSE ValFrom(s.z, k, done + s.ret)
ValFrom(z, k, done) ==
    IF done = Len(k) THEN Ans(z, done)
    ELSE ValAfter(Nearer(S!descend_to_val(z.a, Drop(k, done)), S!descend_to_val(z.b, Drop(k, done)), Drop(k, done)), k, done)
descend_to_val(z, k) == ValFrom(z, k, 0)

descend_indexed_byte(z, n) ==
    IF n < child_count(z) THEN Ans(descend_to_byte(z, S!Nth(child_mask(z), n)), S!Nth(child_mask(z), n)) ELSE Ans(z, None)
descend_first_byte(z) == descend_indexed_byte(z, 0)

\* descend_until_observed: the sources descend a chunk at a time, and go back to where they agree.
RECURSIVE UntilFrom(_, _, _)
Way(r, from) == Drop(r.z.focus, Len(from.focus))
Agreed(z, wa, n) == descend_to(z, Take(wa, n))
Settle(z, wa, wb, n, moved, obs) ==
    IF n = Chunk /\ Len(wa) = Chunk /\ Len(wb) = Chunk THEN UntilFrom(Agreed(z, wa, n), TRUE, obs \o wa)
    ELSE Obs(Agreed(z, wa, n), moved \/ n > 0, obs \o Take(wa, n))
\* Where one source moved, the other has no child, or it has several and nothing moves.
AloneIf(z, still, w, moved, obs) ==
    IF S!child_count(still) = 0 THEN Obs(descend_to(z, w), moved \/ w # <<>>, obs \o w) ELSE Obs(z, moved, obs)
Meet(z, ra, rb, moved, obs) ==
    CASE ~ra.ret /\ ~rb.ret -> Obs(z, moved, obs)
      [] ~ra.ret /\ rb.ret -> AloneIf(z, z.a, Way(rb, z.b), moved, obs)
      [] ra.ret /\ ~rb.ret -> AloneIf(z, z.b, Way(ra, z.a), moved, obs)
      [] OTHER -> Settle(z, Way(ra, z.a), Way(rb, z.b), S!CommonLen(Way(ra, z.a), Way(rb, z.b)), moved, obs)
UntilFrom(z, moved, obs) ==
    Meet(z, S!descend_until_max_bytes(z.a, Chunk), S!descend_until_max_bytes(z.b, Chunk), moved, obs)
descend_until(z, obs) == UntilFrom(z, FALSE, obs)

----------------------------------------------------------------------------

ascend(z, n) == Ans(Both(S!ascend(z.a, n).z, S!ascend(z.b, n).z), Max({S!ascend(z.a, n).ret, S!ascend(z.b, n).ret}))
Moves(r) == Ans(r.z, r.ret = 1)
ascend_byte(z) == Moves(ascend(z, 1))
\* The source that went up less is where both stand.
Lower(a, b) == IF Len(b.focus) > Len(a.focus) THEN b.focus ELSE a.focus
Join(z, to) == Ans(Both(S!At(z.a, to), S!At(z.b, to)), Len(path(z)) - Len(to))
ascend_until(z) == Join(z, Lower(S!ascend_until(z.a).z, S!ascend_until(z.b).z))
ascend_until_branch(z) == Join(z, Lower(S!ascend_until_branch(z.a).z, S!ascend_until_branch(z.b).z))

NextBit(mask, b) == IF \E c \in mask : c > b THEN Min({c \in mask : c > b}) ELSE None
PrevBit(mask, b) == IF \E c \in mask : c < b THEN Max({c \in mask : c < b}) ELSE None
\* to_sibling: up, and down again to the sibling, or to where the focus was.
Beside(up, last, b) == IF b = None THEN Ans(descend_to_byte(up, last), None) ELSE Ans(descend_to_byte(up, b), b)
NextOf(up, last) == Beside(up, last, NextBit(child_mask(up), last))
PrevOf(up, last) == Beside(up, last, PrevBit(child_mask(up), last))
to_next_sibling_byte(z) == IF focus_byte(z) = None THEN Ans(z, None) ELSE NextOf(ascend(z, 1).z, focus_byte(z))
to_prev_sibling_byte(z) == IF focus_byte(z) = None THEN Ans(z, None) ELSE PrevOf(ascend(z, 1).z, focus_byte(z))

----------------------------------------------------------------------------
(* What it takes from the traits as they provide it.                       *)

Moving == INSTANCE ZipperMoving
descend_to_check(z, k) == Moving!descend_to_check(z, k)
descend_to_existing_byte(z, b) == Moving!descend_to_existing_byte(z, b)
descend_last_byte(z) == Moving!descend_last_byte(z)
move_to_path(z, q) == Moving!move_to_path(z, q)
Iteration == INSTANCE ZipperIteration
descend_until_max_bytes(z, n, obs) == Iteration!provided_descend_until_max_bytes(z, n, obs)
to_next_step(z, obs) == Iteration!provided_to_next_step(z, obs)
to_next_val(z, obs) == Iteration!provided_to_next_val(z, obs)
descend_last_path(z, obs) == Iteration!provided_descend_last_path(z, obs)
LastVal == INSTANCE ZipperLastVal
descend_last_val(z, obs) == LastVal!provided_descend_last_val(z, obs)
descend_first_k_path(z, k, obs) == Iteration!provided_descend_first_k_path(z, k, obs)
to_next_k_path(z, k, obs) == Iteration!provided_to_next_k_path(z, k, obs)

\* The trie it stands for.
TrieOver(t, u) ==
    [paths |-> t.paths \cup u.paths,
     val   |-> [p \in DOMAIN t.val \cup DOMAIN u.val |-> IF p \in DOMAIN t.val THEN t.val[p] ELSE u.val[p]]]

\* A source has a path that ends without a value; no branch is one of both together only.
Ends(t) == {p \in t.paths : S!MaskAt(t, p) = {}}
HasLooseEnds(z) == \E t \in {z.a.trie, z.b.trie} : Ends(t) \ DOMAIN t.val # {}
BranchesAreOwn(z) ==
    \A p \in z.a.trie.paths \cap z.b.trie.paths :
        S!MaskAt(z.a.trie, p) = {} \/ S!MaskAt(z.b.trie, p) = {} \/ S!MaskAt(z.a.trie, p) = S!MaskAt(z.b.trie, p)
            \/ S!BranchAt(z.a.trie, p) \/ S!BranchAt(z.b.trie, p)

\* Both sources stand at the zipper's path.
Aligned(z) == z.a.focus = z.b.focus
==============================================================================
