---------------------------- MODULE SubtractZipper ----------------------------
(***************************************************************************)
(* SubtractZipper (src/src/subtract_zipper.rs): the trie of one zipper     *)
(* less that of another.  Which children remain is found by looking for a  *)
(* difference below them.  What was found is kept: the mask and the value  *)
(* at the focus, for each child shared by both whether anything of it      *)
(* remains (`checked` and `surviving`), and a way on which something does, *)
(* the survival witness.  A value is a set of atoms here (SetLattice).     *)
(***************************************************************************)
EXTENDS Integers, SequencesExt

CONSTANTS Path, NoVal

S == INSTANCE Cursor

None == -1
Ans(z, ret) == [z |-> z, ret |-> ret]
Obs(z, ret, obs) == [z |-> z, ret |-> ret, obs |-> obs]
Take(k, n) == SubSeq(k, 1, n)
Drop(k, n) == SubSeq(k, n + 1, Len(k))
Truncate(obs, n) == Take(obs, Len(obs) - n)

NoWitness == [path |-> <<>>, pos |-> None]
Witness(p, pos) == [path |-> p, pos |-> pos]

root_depth(z) == Len(z.root)
path(z) == Drop(z.lhs.focus, Len(z.root))
origin_path(z) == z.lhs.focus
depth(z) == S!depth(z.lhs) - Len(z.root)
at_root(z) == depth(z) = 0
focus_byte(z) == IF depth(z) = 0 THEN None ELSE S!focus_byte(z.lhs)

\* psubtract of two optional values.
Minus(v, w) ==
    CASE v = NoVal -> NoVal
      [] v # NoVal /\ w = NoVal -> v
      [] OTHER -> IF v \subseteq w THEN NoVal ELSE v \ w
ValOf(c) == IF S!is_val(c) THEN c.trie.val[c.focus] ELSE NoVal
value_survives(l, r) == Minus(ValOf(l), ValOf(r)) # NoVal

get_val(z) == IF z.val = "lhs" THEN ValOf(z.lhs) ELSE z.owned
is_val(z) == get_val(z) # NoVal
child_mask(z) == z.child_mask
child_count(z) == Cardinality(z.child_mask)
path_exists(z) == is_val(z) \/ z.child_mask # {}

NextBit(mask, b) == IF \E c \in mask : c > b THEN Min({c \in mask : c > b}) ELSE None
PrevBit(mask, b) == IF \E c \in mask : c < b THEN Max({c \in mask : c < b}) ELSE None
FirstBit(mask) == NextBit(mask, None)

----------------------------------------------------------------------------
(* subtree_has_difference: depth first through what both have, until a     *)
(* child or a value is the first's alone.  `branches` holds, for each      *)
(* branch with children left to visit, the next of them.                   *)

RECURSIVE Search(_, _, _, _)
Found(yes, way) == [survives |-> yes, way |-> way]
Below(c, b) == S!descend_to(c, <<b>>)
Remember(branches, next) == IF next = None THEN branches ELSE Append(branches, next)
Deeper(l, r, b, branches, way) == Search(Below(l, b), Below(r, b), branches, Append(way, b))
\* At the branch: its children after the one that is next stay to be visited.
AtBranch(l, r, b, branches, way) ==
    Deeper(l, r, b, Remember(Front(branches), NextBit(S!child_mask(l), b)), way)
Backtrack(up, r, branches, way) ==
    AtBranch(up.z, S!ascend(r, up.ret).z, Last(branches), branches, Truncate(way, up.ret))
Search(l, r, branches, way) ==
    CASE S!child_mask(l) \ S!child_mask(r) # {} \/ value_survives(l, r) -> Found(TRUE, way)
      [] S!child_mask(l) \subseteq S!child_mask(r) /\ ~value_survives(l, r) /\ S!child_mask(l) # {} ->
           Deeper(l, r, FirstBit(S!child_mask(l)), Remember(branches, NextBit(S!child_mask(l), FirstBit(S!child_mask(l)))), way)
      [] S!child_mask(l) = {} /\ ~value_survives(l, r) /\ branches # <<>> ->
           Backtrack(S!ascend_until_branch(l), r, branches, way)
      [] OTHER -> Found(FALSE, <<>>)
subtree_survives_uncached(z, b) == Search(Below(z.lhs, b), Below(z.rhs, b), <<>>, <<b>>)

----------------------------------------------------------------------------
(* What is kept.                                                           *)

Unprobed(z) == [z EXCEPT !.checked = {}]
set_child_probe(z, b, survives) ==
    [z EXCEPT !.checked = @ \cup {b}, !.surviving = IF survives THEN @ \cup {b} ELSE @ \ {b}]
WitnessByte(w) == IF w # NoWitness /\ w.pos < Len(w.path) THEN w.path[w.pos + 1] ELSE None
WitnessBelow(w, k) ==
    IF w # NoWitness /\ IsPrefix(k, Drop(w.path, w.pos)) THEN [w EXCEPT !.pos = @ + Len(k)] ELSE NoWitness
WitnessAbove(w, n) == IF w # NoWitness /\ n <= w.pos THEN [w EXCEPT !.pos = @ - n] ELSE NoWitness
\* What follows the witness's place is replaced by k.
WitnessOn(w, k) == [w EXCEPT !.path = Take(@, w.pos) \o k]

BothDown(z, k) == [z EXCEPT !.lhs = S!descend_to(@, k), !.rhs = S!descend_to(@, k)]
FollowDown(z, k) == [BothDown(z, k) EXCEPT !.witness = WitnessBelow(@, k)]
down_raw(z, b) == FollowDown(Unprobed(z), <<b>>)
up_raw(z, n) ==
    IF n = 0 THEN z
    ELSE [Unprobed(z) EXCEPT !.witness = WitnessAbove(@, n), !.lhs = S!ascend(@, n).z, !.rhs = S!ascend(@, n).z]

\* A mutated form of up_known: that nothing survives is kept for an ancestor too.
up_known_Farther(z, n, survives) ==
    [up_raw(z, n) EXCEPT !.checked = {z.lhs.focus[Len(z.lhs.focus) - n + 1]},
                         !.surviving = IF survives THEN {z.lhs.focus[Len(z.lhs.focus) - n + 1]} ELSE {}]

\* ascend_raw_known: the child that the focus leaves is known to survive, or not
\* to.  That nothing survives says nothing of an ancestor further up.
Witnessed(z, b, survives) ==
    IF survives /\ z.witness = NoWitness THEN [z EXCEPT !.witness = Witness(<<b>>, 0)] ELSE z
Probed(z, b, survives) ==
    IF b \in S!child_mask(z.lhs) \cap S!child_mask(z.rhs) THEN set_child_probe(z, b, survives) ELSE z
UpFrom(z, b, survives) == Probed(Witnessed(up_raw(z, 1), b, survives), b, survives)
UpLast(z, survives) == UpFrom(z, S!focus_byte(z.lhs), survives)
up_known(z, n, survives) ==
    CASE n = 0 -> z
      [] n > 1 /\ ~survives -> up_raw(z, n)
      [] OTHER -> UpLast(up_raw(z, n - 1), survives)

\* subtree_survives
WayTo(w, way) == IF w = NoWitness THEN Witness(way, 0) ELSE WitnessOn(w, way)
Learn(z, b, found) ==
    Ans(set_child_probe(IF found.survives THEN [z EXCEPT !.witness = WayTo(@, found.way)] ELSE z, b, found.survives),
        found.survives)
survives_below(z, b) ==
    CASE b \in z.checked -> Ans(z, b \in z.surviving)
      [] b \notin z.checked /\ WitnessByte(z.witness) = b -> Ans(set_child_probe(z, b, TRUE), TRUE)
      [] OTHER -> Learn(z, b, subtree_survives_uncached(z, b))

\* compute_child_mask
Xor(P, Q) == (P \ Q) \cup (Q \ P)
Common(z) == S!child_mask(z.lhs) \cap S!child_mask(z.rhs)
KnownMask(z) == Xor(S!child_mask(z.lhs), z.checked \ z.surviving)
Unchecked(z) == Xor(Common(z), z.checked) \ {WitnessByte(z.witness)}
compute_child_mask(z) ==
    KnownMask(z) \ {b \in Unchecked(z) : ~subtree_survives_uncached(z, b).survives}

Kept(z, mask, val, owned) ==
    [z EXCEPT !.child_mask = mask, !.val = val, !.owned = owned, !.count = None, !.checked = {}]
ComputedVal(z) == Minus(ValOf(z.lhs), ValOf(z.rhs))
Whose(z) == IF ComputedVal(z) # NoVal /\ ComputedVal(z) = ValOf(z.lhs) THEN "lhs" ELSE "owned"
refresh(z) ==
    CASE ~S!path_exists(z.lhs) -> Kept(z, {}, "owned", NoVal)
      [] S!path_exists(z.lhs) /\ ~S!path_exists(z.rhs) -> Kept(z, S!child_mask(z.lhs), "lhs", NoVal)
      [] OTHER -> Kept(z, compute_child_mask(z), Whose(z), ComputedVal(z))

\* new_at_path
new(lhs, rhs, at) ==
    refresh([lhs |-> S!descend_to(S!reset(lhs), at), rhs |-> S!descend_to(S!reset(rhs), at), root |-> at,
             child_mask |-> {}, val |-> "owned", owned |-> NoVal, count |-> None,
             checked |-> {}, surviving |-> {}, witness |-> NoWitness])

RECURSIVE subtract_val_count(_, _)
subtract_val_count(l, r) ==
    LET own == IF value_survives(l, r) THEN 1 ELSE 0
        alone == S!child_mask(l) \ S!child_mask(r)
        counted(b) == IF b \in alone THEN S!val_count(Below(l, b)) ELSE subtract_val_count(Below(l, b), Below(r, b))
    IN FoldSet(LAMBDA b, sum : sum + counted(b), own, S!child_mask(l))
CountVals(z) ==
    CASE ~path_exists(z) -> 0
      [] path_exists(z) /\ z.child_mask = {} -> 1
      [] path_exists(z) /\ z.child_mask # {} /\ ~S!path_exists(z.rhs) -> S!val_count(z.lhs)
      [] OTHER -> subtract_val_count(z.lhs, z.rhs)
Counted(z, n) == Ans([z EXCEPT !.count = n], n)
val_count(z) == Counted(z, IF z.count # None THEN z.count ELSE CountVals(z))

----------------------------------------------------------------------------
(* Which children remain, in order.                                        *)

RECURSIVE FirstLeft(_, _)
OrNext(s, b, rest) == IF s.ret THEN Ans(s.z, b) ELSE FirstLeft(s.z, rest)
FirstLeft(z, bytes) ==
    CASE bytes = <<>> -> Ans(z, None)
      [] bytes # <<>> /\ Head(bytes) \notin S!child_mask(z.rhs) -> Ans(z, Head(bytes))
      [] OTHER -> OrNext(survives_below(z, Head(bytes)), Head(bytes), Tail(bytes))
Ascending(mask) == SetToSortSeq(mask, LAMBDA a, b : a < b)
Descending(mask) == SetToSortSeq(mask, LAMBDA a, b : a > b)
next_surviving(z, b) == FirstLeft(z, Ascending({c \in S!child_mask(z.lhs) : c > b}))
prev_surviving(z, b) == FirstLeft(z, Descending({c \in S!child_mask(z.lhs) : c < b}))
first_surviving_child(z) == FirstLeft(z, Ascending(S!child_mask(z.lhs)))

RECURSIVE CountLeft(_, _, _, _)
CountOne(s, bytes, count, limit) == CountLeft(s.z, bytes, IF s.ret THEN count + 1 ELSE count, limit)
CountLeft(z, bytes, count, limit) ==
    IF count >= limit \/ bytes = <<>> THEN Ans(z, Min({count, limit}))
    ELSE CountOne(survives_below(z, Head(bytes)), Tail(bytes), count, limit)
Others(z, b) == S!child_mask(z.lhs) \ {b}
count_surviving_siblings(z, b, limit) ==
    CountLeft(z, Ascending(Others(z, b) \cap S!child_mask(z.rhs)), Cardinality(Others(z, b) \ S!child_mask(z.rhs)), limit)

\* is_branch_after_ascent: does the focus survive, and is it a branch?
Branch(z, survives, branch) == [z |-> z, survives |-> survives, branch |-> branch]
BranchIf(c) == Branch(c.z, c.ret # 0, c.ret >= 2)
BranchWith(c) == Branch(c.z, TRUE, c.ret # 0)
is_branch_after_ascent(z, b, survives) ==
    IF survives THEN BranchWith(count_surviving_siblings(z, b, 1)) ELSE BranchIf(count_surviving_siblings(z, b, 2))

\* current_descend_state: the only child to go on by, or why to stop.
GoOn(z, b) == [z |-> z, go |-> b, stop |-> ""]
Stop(z, why) == [z |-> z, go |-> None, stop |-> why]
OnlyChild(s, b) == IF s.ret # None THEN Stop(s.z, "branch") ELSE GoOn(s.z, b)
ByChild(f, stop_on_branch) ==
    CASE f.ret = None -> Stop(f.z, "leaf")
      [] f.ret # None /\ stop_on_branch -> OnlyChild(next_surviving(f.z, f.ret), f.ret)
      [] OTHER -> GoOn(f.z, f.ret)
current_descend_state(z, stop_on_branch) ==
    IF value_survives(z.lhs, z.rhs) THEN Stop(z, "value") ELSE ByChild(first_surviving_child(z), stop_on_branch)

\* descend_to_next_stop, by at most `limit` bytes; none at all is no limit.
RECURSIVE NextStop(_, _, _, _, _)
OnTo(d, obs, limit, stop_on_branch) ==
    IF d.go = None THEN Obs(d.z, d.stop, obs) ELSE NextStop(d.z, d.go, obs, limit, stop_on_branch)
StepDown(z, obs, limit, stop_on_branch) ==
    IF limit = 1 THEN Obs(z, "limit", obs)
    ELSE OnTo(current_descend_state(z, stop_on_branch), obs, limit - 1, stop_on_branch)
NextStop(z, b, obs, limit, stop_on_branch) == StepDown(down_raw(z, b), Append(obs, b), limit, stop_on_branch)

----------------------------------------------------------------------------
(* Movement.                                                               *)

descend_to(z, k) == IF k = <<>> THEN z ELSE refresh(FollowDown(z, k))
Checked(z) == Ans(z, path_exists(z))
descend_to_check(z, k) == Checked(descend_to(z, k))
descend_to_byte(z, b) == descend_to(z, <<b>>)

\* descend_to_existing: by the witness as far as it goes, then child by child.
RECURSIVE ExistingFrom(_, _, _)
OnWitness(z, k) == IF z.witness = NoWitness THEN 0 ELSE S!CommonLen(Drop(z.witness.path, z.witness.pos), k)
Known(z, k, n) == [BothDown(Unprobed(z), Take(k, n)) EXCEPT !.witness.pos = @ + n]
Unwitnessed(z) == [z EXCEPT !.witness = NoWitness]
WithWay(z, k, n) == IF z.witness = NoWitness THEN [z EXCEPT !.witness = Witness(Take(k, n), n)] ELSE z
\* The rest is the first zipper's alone.
AlonePath(z, way) ==
    [BothDown(z, way) EXCEPT !.witness = IF @ = NoWitness THEN @ ELSE [WitnessOn(@, way) EXCEPT !.pos = @ + Len(way)]]
AloneFrom(z, k, i, n) == Ans(AlonePath(z, SubSeq(k, i + 1, i + n)), i + n)
IfSurvives(s, k, i) == IF s.ret THEN ExistingFrom(down_raw(s.z, k[i + 1]), k, i + 1) ELSE Ans(s.z, i)
ExistingFrom(z, k, i) ==
    CASE i = Len(k) -> Ans(z, i)
      [] i < Len(k) /\ k[i + 1] \notin S!child_mask(z.lhs) -> Ans(z, i)
      [] i < Len(k) /\ k[i + 1] \in S!child_mask(z.lhs) \ S!child_mask(z.rhs) ->
           AloneFrom(z, k, i, S!descend_to_existing(z.lhs, Drop(k, i)).ret)
      [] OTHER -> IfSurvives(survives_below(z, k[i + 1]), k, i)
Settled(a, k) == Ans(refresh(WithWay(a.z, k, a.ret)), a.ret)
Existing(z, k, n) ==
    CASE n > 0 -> Settled(ExistingFrom(Known(z, k, n), k, n), k)
      [] n = 0 /\ k[1] \in z.child_mask -> Settled(ExistingFrom(down_raw(Unwitnessed(z), k[1]), k, 1), k)
      [] OTHER -> Ans(Unwitnessed(z), 0)
descend_to_existing(z, k) == IF k = <<>> THEN Ans(z, 0) ELSE Existing(z, k, OnWitness(z, k))

RECURSIVE ValFrom(_, _, _)
IfValSurvives(s, k, i) == IF s.ret THEN ValFrom(down_raw(s.z, k[i + 1]), k, i + 1) ELSE Ans(s.z, i)
ValFrom(z, k, i) ==
    CASE i = Len(k) \/ value_survives(z.lhs, z.rhs) -> Ans(z, i)
      [] i < Len(k) /\ ~value_survives(z.lhs, z.rhs) /\ ~S!path_exists(z.rhs) ->
           AloneFrom(z, k, i, S!descend_to_val(z.lhs, Drop(k, i)).ret)
      [] /\ i < Len(k) /\ ~value_survives(z.lhs, z.rhs) /\ S!path_exists(z.rhs)
         /\ k[i + 1] \in S!child_mask(z.lhs) ->
           IF k[i + 1] \in S!child_mask(z.rhs) THEN IfValSurvives(survives_below(z, k[i + 1]), k, i)
           ELSE ValFrom(down_raw(z, k[i + 1]), k, i + 1)
      [] OTHER -> Ans(z, i)
Refreshed(a) == Ans(refresh(a.z), a.ret)
FirstVal(z, k) == Refreshed(ValFrom(WithWay(down_raw(z, k[1]), k, 1), k, 1))
descend_to_val(z, k) == IF k = <<>> \/ k[1] \notin z.child_mask THEN Ans(z, 0) ELSE FirstVal(z, k)

descend_to_existing_byte(z, b) ==
    IF b \in z.child_mask THEN Ans(refresh(down_raw(z, b)), TRUE) ELSE Ans(z, FALSE)

NoLimit == 0
Until(u) == Obs(refresh(u.z), TRUE, u.obs)
descend_by(z, obs, limit) ==
    IF child_count(z) = 1 THEN Until(NextStop(z, FirstBit(z.child_mask), obs, limit, TRUE)) ELSE Obs(z, FALSE, obs)
descend_until(z, obs) == descend_by(z, obs, NoLimit)
descend_until_max_bytes(z, n, obs) == IF n = 0 THEN Obs(z, FALSE, obs) ELSE descend_by(z, obs, n)

AscendBy(z, n) == IF n = 0 THEN Ans(z, 0) ELSE Ans(refresh(up_known(z, n, path_exists(z))), n)
ascend(z, steps) == AscendBy(z, Min({steps, depth(z)}))
reset(z) == IF depth(z) = 0 THEN z ELSE refresh(up_known(z, depth(z), path_exists(z)))

RECURSIVE UntilAbove(_, _, _, _)
\* A value is where ascend_until stops; on the way to a branch it makes what is below it survive.
NotBranch(c, done, vals) ==
    IF c.branch THEN Ans(refresh(c.z), done)
    ELSE UntilAbove(c.z, c.survives \/ (~vals /\ value_survives(c.z.lhs, c.z.rhs)), done, vals)
OneUp(z, b, survives, done, vals) ==
    IF at_root(z) \/ (vals /\ value_survives(z.lhs, z.rhs)) THEN Ans(refresh(z), done)
    ELSE NotBranch(is_branch_after_ascent(z, b, survives), done, vals)
UntilAbove(z, survives, done, vals) == OneUp(up_known(z, 1, survives), focus_byte(z), survives, done + 1, vals)
ascend_until(z) == IF at_root(z) THEN Ans(z, 0) ELSE UntilAbove(z, path_exists(z), 0, TRUE)
ascend_until_branch(z) == IF at_root(z) THEN Ans(z, 0) ELSE UntilAbove(z, path_exists(z), 0, FALSE)

Beside(s, last) == IF s.ret = None THEN Ans(down_raw(s.z, last), None) ELSE Ans(refresh(down_raw(s.z, s.ret)), s.ret)
to_next_sibling_byte(z) ==
    IF at_root(z) THEN Ans(z, None) ELSE Beside(next_surviving(up_raw(z, 1), focus_byte(z)), focus_byte(z))
to_prev_sibling_byte(z) ==
    IF at_root(z) THEN Ans(z, None) ELSE Beside(prev_surviving(up_raw(z, 1), focus_byte(z)), focus_byte(z))

\* move_to_path
UpTo(z, n, last) ==
    CASE n = 0 -> z
      [] n > 0 /\ last -> up_known(z, n, path_exists(z))
      [] OTHER -> up_raw(z, n)
Onto(z, k) == IF k = <<>> THEN z ELSE FollowDown(z, k)
MoveFrom(z, q, n) ==
    IF n = depth(z) /\ n = Len(q) THEN Ans(z, n)
    ELSE Ans(refresh(Onto(UpTo(z, depth(z) - n, n = Len(q)), Drop(q, n))), n)
move_to_path(z, q) == MoveFrom(z, q, S!CommonLen(q, path(z)))

----------------------------------------------------------------------------
(* Iteration: raw movement through what survives, depth first.             *)

\* On the way up to the base, the first sibling that survives.
RECURSIVE NextSubtree(_, _, _, _)
OrUp(s, base, up, obs) ==
    IF s.ret # None THEN Obs(down_raw(s.z, s.ret), TRUE, Append(Truncate(obs, up), s.ret)) ELSE NextSubtree(s.z, base, up, obs)
NextSubtree(z, base, up, obs) ==
    IF depth(z) = base THEN Obs(z, FALSE, Truncate(obs, up))
    ELSE OrUp(next_surviving(up_raw(z, 1), focus_byte(z)), base, up + 1, obs)
advance_to_next_subtree(z, base, obs) == NextSubtree(z, base, 0, obs)
AtLast(u) == Obs(refresh(u.z), u.ret, u.obs)

StepTo(z, b, obs) == Obs(refresh(down_raw(z, b)), TRUE, Append(obs, b))
to_next_step(z, obs) ==
    CASE z.child_mask # {} -> StepTo(z, FirstBit(z.child_mask), obs)
      [] z.child_mask = {} /\ at_root(z) -> Obs(z, FALSE, obs)
      [] OTHER -> AtLast(advance_to_next_subtree(z, 0, obs))

RECURSIVE ValBelow(_, _, _)
\* The sibling is stood on; its own value and children come next.
AtSubtree(d, obs) ==
    CASE d.stop = "value" -> Obs(refresh(d.z), TRUE, obs)
      [] d.stop = "leaf" -> ValBelow(d.z, None, obs)
      [] OTHER -> ValBelow(d.z, d.go, obs)
Resumed(a) ==
    IF a.ret THEN AtSubtree(current_descend_state(a.z, FALSE), a.obs) ELSE Obs(refresh(a.z), FALSE, a.obs)
Onward(z, obs) == Resumed(advance_to_next_subtree(z, 0, obs))
Stopped(u) == IF u.ret = "value" THEN Obs(refresh(u.z), TRUE, u.obs) ELSE Onward(u.z, u.obs)
ValBelow(z, b, obs) == IF b # None THEN Stopped(NextStop(z, b, obs, NoLimit, FALSE)) ELSE Onward(z, obs)
to_next_val(z, obs) ==
    IF z.child_mask = {} /\ at_root(z) THEN Obs(z, FALSE, obs) ELSE ValBelow(z, FirstBit(z.child_mask), obs)

\* seek_k_path
RECURSIVE SeekK(_, _, _, _)
Seek(a, base, k) == IF a.ret THEN SeekK(a.z, base, k, a.obs) ELSE a
SeekBy(f, base, k, obs) ==
    IF f.ret # None THEN SeekK(down_raw(f.z, f.ret), base, k, Append(obs, f.ret))
    ELSE Seek(advance_to_next_subtree(f.z, base, obs), base, k)
SeekK(z, base, k, obs) ==
    IF depth(z) = base + k THEN Obs(z, TRUE, obs) ELSE SeekBy(first_surviving_child(z), base, k, obs)
IfFound(u) == IF u.ret THEN AtLast(u) ELSE u
descend_first_k_path(z, k, obs) ==
    IF k = 0 \/ z.child_mask = {} THEN Obs(z, FALSE, obs)
    ELSE IfFound(SeekK(down_raw(z, FirstBit(z.child_mask)), depth(z), k, Append(obs, FirstBit(z.child_mask))))
to_next_k_path(z, k, obs) ==
    IF k > depth(z) THEN Obs(z, FALSE, obs)
    ELSE AtLast(Seek(advance_to_next_subtree(z, depth(z) - k, obs), depth(z) - k, k))

ascend_byte(z) == Ans(ascend(z, 1).z, ascend(z, 1).ret = 1)

----------------------------------------------------------------------------
(* What it takes from the traits as they provide it.                       *)

Moving == INSTANCE ZipperMoving
descend_indexed_byte(z, n) == Moving!descend_indexed_byte(z, n)
descend_first_byte(z) == Moving!descend_first_byte(z)
descend_last_byte(z) == Moving!descend_last_byte(z)
Iteration == INSTANCE ZipperIteration
descend_last_path(z, obs) == Iteration!provided_descend_last_path(z, obs)
LastVal == INSTANCE ZipperLastVal
descend_last_val(z, obs) == LastVal!provided_descend_last_val(z, obs)

----------------------------------------------------------------------------
(* What it is to be.                                                       *)

\* The values that remain, and the paths that lead to them; of a subtree that is
\* the first's alone, all of it.
Remaining(t, u) == {p \in DOMAIN t.val : Minus(t.val[p], IF p \in DOMAIN u.val THEN u.val[p] ELSE NoVal) # NoVal}
TrieOver(t, u) ==
    [paths |-> UNION {Prefixes(q) : q \in Remaining(t, u) \cup (t.paths \ u.paths)},
     val   |-> [p \in Remaining(t, u) |-> Minus(t.val[p], IF p \in DOMAIN u.val THEN u.val[p] ELSE NoVal)]]

\* Both zippers stand at the zipper's path.
Aligned(z) == z.lhs.focus = z.rhs.focus /\ IsPrefix(z.root, z.lhs.focus)
\* What was found out and is still kept is so: t is the trie that remains, below the zipper's root.
FactsHold(z, t) ==
    /\ z.witness # NoWitness => path(z) \o Drop(z.witness.path, z.witness.pos) \in t.paths
    /\ \A b \in z.checked : (b \in z.surviving) = (Append(path(z), b) \in t.paths)
    /\ z.count # None => z.count = Cardinality({q \in DOMAIN t.val : IsPrefix(path(z), q)})
===============================================================================
