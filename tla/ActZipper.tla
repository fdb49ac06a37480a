------------------------------- MODULE ActZipper -------------------------------
(***************************************************************************)
(* ACTZipper (src/src/arena_compact.rs): a read zipper over an arena.  The *)
(* stack has a frame for each node that the focus is below or in; a frame  *)
(* knows how far its line has been followed, which child was entered last, *)
(* and where the child after that one is.  The last byte of a line with a  *)
(* child is not counted in its frame: it is the step into the child.  Of   *)
(* the path, the last `invalid` bytes do not exist.                        *)
(***************************************************************************)
EXTENDS Arena

None == -1
Ans(z, ret) == [z |-> z, ret |-> ret]
Obs(z, ret, obs) == [z |-> z, ret |-> ret, obs |-> obs]

\* The node that follows is known after a child has been entered.
Frame(id) == [node_id |-> id, child_index |-> 0, next_id |-> NoId, node_depth |-> 0]
from_tree(a) ==
    [tree |-> a, stack |-> <<Frame(a.root)>>, path |-> <<>>, invalid |-> 0,
     origin_depth |-> 0, origin_node_depth |-> 0, origin_invalid |-> 0]
\* The zipper's root is where its focus is.
with_root_here(z) ==
    [z EXCEPT !.origin_depth = Len(z.path), !.origin_invalid = z.invalid, !.stack = <<Last(@)>>,
              !.origin_node_depth = Last(z.stack).node_depth]

Top(z) == Last(z.stack)
NodeAt(z, frame) == get_node(z.tree, frame.node_id)
cur_node(z) == NodeAt(z, Top(z))
CountOf(z, frame) == children_of(NodeAt(z, frame))
LineOf(z) == get_line(z.tree, cur_node(z).path)
\* What is left of the line.
Rest(z) == Suffix(LineOf(z), Top(z).node_depth)

path_exists(z) == z.invalid = 0
is_val(z) ==
    /\ z.invalid = 0
    /\ cur_node(z).val # NoVal
    /\ IsLine(cur_node(z)) => Rest(z) = <<>>
get_val(z) == IF is_val(z) THEN cur_node(z).val ELSE NoVal
child_mask(z) ==
    CASE z.invalid > 0 -> {}
      [] z.invalid = 0 /\ ~IsLine(cur_node(z)) -> cur_node(z).mask
      [] OTHER -> IF Rest(z) = <<>> THEN {} ELSE {Rest(z)[1]}
child_count(z) == Cardinality(child_mask(z))
path(z) == Suffix(z.path, z.origin_depth)
origin_path(z) == z.path
depth(z) == Len(path(z))
at_root(z) == Len(z.path) <= z.origin_depth
focus_byte(z) == IF z.path = <<>> THEN None ELSE Last(z.path)

\* From the focus along k, without a zipper.
RECURSIVE Lookup(_, _, _, _)
OnEmpty(z, line) == IF line.child = NoId THEN NoVal ELSE Lookup(z, get_node(z.tree, line.child), 0, <<>>)
Onward(z, line, k) ==
    CASE k = <<>> /\ line.val # NoVal -> line.val
      [] k = <<>> /\ line.val = NoVal -> OnEmpty(z, line)
      [] OTHER -> IF line.child = NoId THEN NoVal ELSE Lookup(z, get_node(z.tree, line.child), 0, k)
AlongRest(z, line, rest, k) == IF IsPrefix(rest, k) THEN Onward(z, line, Suffix(k, Len(rest))) ELSE NoVal
Lookup(z, node, at, k) ==
    CASE IsLine(node) -> AlongRest(z, node, Suffix(get_line(z.tree, node.path), at), k)
      [] ~IsLine(node) /\ k = <<>> -> node.val
      [] ~IsLine(node) /\ k # <<>> /\ k[1] \notin node.mask -> NoVal
      [] OTHER -> Lookup(z, get_node(z.tree, nth_node(node.first, index_of(node.mask, k[1]))), 0, Tail(k))
get_value_at(z, k) == IF z.invalid > 0 THEN NoVal ELSE Lookup(z, cur_node(z), Top(z).node_depth, k)

----------------------------------------------------------------------------
(* Going down.                                                             *)

Further(z, n) == [z EXCEPT !.stack[Len(z.stack)].node_depth = @ + n]
Went(z, k) == [z EXCEPT !.path = @ \o k]
Push(z, id) == [z EXCEPT !.stack = Append(@, Frame(id))]
\* Into the idx-th child, which is followed by `id + 1`.
Enter(z, idx, id) ==
    Push([z EXCEPT !.stack[Len(z.stack)] = [@ EXCEPT !.child_index = idx, !.next_id = id + 1]], id)
IsNext(z, idx) == Top(z).next_id # NoId /\ Top(z).child_index + 1 = idx
\* A mutated form: the node after the last one entered is taken for any later child.
ChildId_Next(z, idx) ==
    IF Top(z).next_id # NoId /\ Top(z).child_index < idx THEN Top(z).next_id ELSE nth_node(cur_node(z).first, idx)
ChildId(z, idx) == IF IsNext(z, idx) THEN Top(z).next_id ELSE nth_node(cur_node(z).first, idx)

\* descend_cond: as far as k exists, or to the first value on the way.
RECURSIVE Along(_, _, _, _)
\* A mutated form: the byte into a line's child counts in the line.
Hack_None(line, rest, common) == 0
Hack(line, rest, common) == IF Len(rest) = common /\ line.child # NoId THEN 1 ELSE 0
LineStops(line, rest, common, n, on_value) ==
    (on_value /\ n > 0 /\ line.val # NoVal) \/ common < Len(rest) \/ line.child = NoId
DownLine(z, line, rest, common, k, n, on_value) ==
    LET d == Went(Further(z, common - Hack(line, rest, common)), SubSeq(rest, 1, common))
    IN IF LineStops(line, rest, common, n + common, on_value) THEN Ans(d, n + common)
       ELSE Along(Push(d, line.child), Suffix(k, common), n + common, on_value)
DownBranch(z, node, k, n, on_value) ==
    IF (on_value /\ n > 0 /\ node.val # NoVal) \/ k[1] \notin node.mask THEN Ans(z, n)
    ELSE LET idx == index_of(node.mask, k[1])
         IN Along(Went(Enter(z, idx, ChildId(z, idx)), <<k[1]>>), Tail(k), n + 1, on_value)
Along(z, k, n, on_value) ==
    CASE k = <<>> -> Ans(z, n)
      [] k # <<>> /\ IsLine(cur_node(z)) -> DownLine(z, cur_node(z), Rest(z), Common(k, Rest(z)), k, n, on_value)
      [] OTHER -> DownBranch(z, cur_node(z), k, n, on_value)
descend_cond(z, k, on_value) == IF z.invalid > 0 THEN Ans(z, 0) ELSE Along(z, k, 0, on_value)

descend_to_existing(z, k) == descend_cond(z, k, FALSE)
descend_to_val(z, k) == descend_cond(z, k, TRUE)
Beyond(r, k) == [r.z EXCEPT !.path = @ \o Suffix(k, r.ret), !.invalid = @ + Len(k) - r.ret]
descend_to(z, k) == Beyond(descend_to_existing(z, k), k)
descend_to_byte(z, b) == descend_to(z, <<b>>)

IndexedInLine(z, line, rest, idx) ==
    CASE idx # 0 \/ rest = <<>> -> Ans(z, None)
      [] idx = 0 /\ Len(rest) = 1 /\ line.child # NoId -> Ans(Enter(Went(z, rest), idx, line.child), rest[1])
      [] OTHER -> Ans(Went(Further(z, 1), <<rest[1]>>), rest[1])
IndexedInBranch(z, node, idx) ==
    IF idx >= Cardinality(node.mask) THEN Ans(z, None)
    ELSE LET b == Sorted(node.mask)[idx + 1] IN Ans(Went(Enter(z, idx, ChildId(z, idx)), <<b>>), b)
descend_indexed_byte(z, idx) ==
    CASE z.invalid > 0 -> Ans(z, None)
      [] z.invalid = 0 /\ IsLine(cur_node(z)) -> IndexedInLine(z, cur_node(z), Rest(z), idx)
      [] OTHER -> IndexedInBranch(z, cur_node(z), idx)
descend_first_byte(z) == descend_indexed_byte(z, 0)

\* descend_until_observed: a line at a time, or a byte of a branch.
RECURSIVE UntilFrom(_, _, _)
StopsAt(z) == ~IsLine(cur_node(z)) /\ (cur_node(z).val # NoVal \/ CountOf(z, Top(z)) > 1)
EnteredOnly(z, obs) == IF StopsAt(z) THEN Obs(z, TRUE, obs) ELSE UntilFrom(z, TRUE, obs)
Followed(z, line, rest) == Went(Further(z, Len(rest) - (IF line.child # NoId THEN 1 ELSE 0)), rest)
UntilInLine(z, line, rest, obs) ==
    CASE line.val # NoVal -> Obs(Followed(z, line, rest), TRUE, obs \o rest)
      [] line.val = NoVal /\ line.child = NoId -> UntilFrom(Followed(z, line, rest), TRUE, obs \o rest)
      [] OTHER -> EnteredOnly(Enter(Followed(z, line, rest), 0, line.child), obs \o rest)
UntilInBranch(z, node, b, obs) == EnteredOnly(Enter(Went(z, <<b>>), 0, node.first), Append(obs, b))
UntilFrom(z, moved, obs) ==
    CASE child_count(z) # 1 -> Obs(z, moved, obs)
      [] child_count(z) = 1 /\ IsLine(cur_node(z)) -> UntilInLine(z, cur_node(z), Rest(z), obs)
      [] OTHER -> UntilInBranch(z, cur_node(z), CHOOSE b \in cur_node(z).mask : TRUE, obs)
descend_until(z, obs) == UntilFrom(z, FALSE, obs)

----------------------------------------------------------------------------
(* Going up.                                                               *)

\* ascend_invalid: out of what does not exist, at most `limit` bytes.
Cut(z, n) == Ans([z EXCEPT !.path = SubSeq(@, 1, Len(@) - n), !.invalid = @ - n], n)
ascend_invalid(z, limit) == IF z.invalid = 0 THEN Ans(z, 0) ELSE Cut(z, Min({z.invalid, depth(z), limit}))

Shorter(z, n) == [z EXCEPT !.path = SubSeq(@, 1, Len(@) - n)]
Pop(z) == [z EXCEPT !.stack = Front(@)]

\* Out of the line as far as it was followed, and one byte more to the node above.
RECURSIVE UpFrom(_, _)
InNode(z, n) == Min({n, Top(z).node_depth, depth(z)})
Leaves(z, n) == Top(z).node_depth = InNode(z, n) /\ Len(z.stack) > 1 /\ n > InNode(z, n)
Stayed(z, n) == IF at_root(z) \/ n = 0 THEN Ans(z, n) ELSE UpFrom(z, n)
UpFrom(z, n) ==
    IF Leaves(z, n) THEN Stayed(Shorter(Pop(z), InNode(z, n) + 1), n - InNode(z, n) - 1)
    ELSE Stayed(Shorter(Further(z, -InNode(z, n)), InNode(z, n)), n - InNode(z, n))
Ascended(c, u, steps) == Ans(u.z, steps - u.ret)
AscendFrom(c, steps) ==
    IF c.z.invalid > 0 THEN c ELSE Ascended(c, UpFrom(c.z, steps - c.ret), steps)
ascend(z, steps) == AscendFrom(ascend_invalid(z, steps), steps)
AscendedOne(r) == Ans(r.z, r.ret = 1)
ascend_byte(z) == AscendedOne(ascend(z, 1))

\* ascend_to_branch
RECURSIVE BranchFrom(_, _)
AtBranch(z, need_value) ==
    ~IsLine(cur_node(z)) /\ (CountOf(z, Top(z)) > 1 \/ (need_value /\ cur_node(z).val # NoVal))
BranchOr(z, need_value) == IF AtBranch(z, need_value) \/ at_root(z) THEN z ELSE BranchFrom(z, need_value)
BranchFrom(z, need_value) ==
    LET n == InNode(z, depth(z))
    IN IF Len(z.stack) > 1 /\ depth(z) > n THEN BranchOr(Shorter(Pop(z), n + 1), need_value)
       ELSE BranchOr(Shorter(Further(z, -n), n), need_value)
\* A mutated form: the deepest place that exists is not looked at.
FromInvalid_Past(c, need_value) == IF c.invalid > 0 THEN c ELSE BranchFrom(c, need_value)
FromInvalid(c, need_value) ==
    IF c.invalid > 0 \/ (need_value /\ is_val(c)) \/ child_count(c) > 1 THEN c ELSE BranchFrom(c, need_value)
UpTo(z, u) == Ans(u, Len(z.path) - Len(u.path))
ascend_to_branch(z, need_value) ==
    UpTo(z, IF z.invalid > 0 THEN FromInvalid(ascend_invalid(z, Len(z.path)).z, need_value) ELSE BranchFrom(z, need_value))
ascend_until(z) == ascend_to_branch(z, TRUE)
ascend_until_branch(z) == ascend_to_branch(z, FALSE)

reset(z) ==
    [z EXCEPT !.stack = <<[z.stack[1] EXCEPT !.node_depth = z.origin_node_depth]>>,
              !.path = SubSeq(@, 1, z.origin_depth), !.invalid = z.origin_invalid]

----------------------------------------------------------------------------
(* Sideways.                                                               *)

Nearest(bytes, next) == IF bytes = {} THEN None ELSE IF next THEN Min(bytes) ELSE Max(bytes)
Aside(b, c, next) == IF next THEN b > c ELSE b < c
\* to_sibling_from_nonexistent_path: from a byte that is not there to one that is.
Beside(z, idx) == descend_indexed_byte([Shorter(z, 1) EXCEPT !.invalid = 0], idx)
FromNowhere(z, mask, next) ==
    LET b == Nearest({c \in mask : Aside(c, Last(z.path), next)}, next)
    IN IF b = None THEN Ans(z, None) ELSE Beside(z, index_of(mask, b))
\* A mutated form: the byte need not be the only one that does not exist.
from_nonexistent_AnyDepth(z, next) ==
    IF at_root(z) THEN Ans(z, None) ELSE FromNowhere(z, child_mask([z EXCEPT !.invalid = 0]), next)
from_nonexistent(z, next) ==
    IF z.invalid # 1 \/ at_root(z) THEN Ans(z, None) ELSE FromNowhere(z, child_mask([z EXCEPT !.invalid = 0]), next)

Second(z) == z.stack[Len(z.stack) - 1]
Sibling(z, next) == IF next THEN Second(z).child_index + 1 ELSE Second(z).child_index - 1
HasSibling(z, next) ==
    /\ Len(z.stack) > 1 /\ Top(z).node_depth = 0
    /\ Sibling(z, next) \in 0..(CountOf(z, Second(z)) - 1)
UpAndDown(z, u, idx) == IF u.ret = 0 THEN Ans(u.z, None) ELSE descend_indexed_byte(u.z, idx)
to_sibling(z, next) ==
    CASE z.invalid > 0 -> from_nonexistent(z, next)
      [] z.invalid = 0 /\ ~HasSibling(z, next) -> Ans(z, None)
      [] OTHER -> UpAndDown(z, ascend(z, 1), Sibling(z, next))
to_next_sibling_byte(z) == to_sibling(z, TRUE)
to_prev_sibling_byte(z) == to_sibling(z, FALSE)

read_zipper_at_path(a, k) == with_root_here(descend_to(from_tree(a), k))

----------------------------------------------------------------------------
(* Walks, and what the traits provide.                                     *)

Moving == INSTANCE ZipperMoving
descend_to_check(z, k) == Moving!descend_to_check(z, k)
descend_to_existing_byte(z, b) == Moving!descend_to_existing_byte(z, b)
descend_last_byte(z) == Moving!descend_last_byte(z)
move_to_path(z, q) == Moving!move_to_path(z, q)
Iteration == INSTANCE ZipperIteration
descend_until_max_bytes(z, n, obs) == Iteration!provided_descend_until_max_bytes(z, n, obs)
to_next_step(z, obs) == Iteration!provided_to_next_step(z, obs)
descend_last_path(z, obs) == Iteration!provided_descend_last_path(z, obs)
to_next_k_path(z, k, obs) == Iteration!provided_to_next_k_path(z, k, obs)
LastVal == INSTANCE ZipperLastVal
descend_last_val(z, obs) == LastVal!provided_descend_last_val(z, obs)

\* Step by step.
RECURSIVE ValStep(_)
ValStep(s) == IF s.ret /\ ~is_val(s.z) THEN ValStep(to_next_step(s.z, s.obs)) ELSE s
to_next_val(z, obs) == ValStep(to_next_step(z, obs))

\* descend_first_k_path_observed: down by first bytes; from a dead end to the nearest
\* sibling on the way up, not above where it began.
RECURSIVE KDown(_, _, _, _), KBack(_, _, _, _)
Replaced(obs, b) == Append(Front(obs), b)
KSibling(s, n, k, obs) ==
    IF s.ret # None THEN KDown(s.z, n, k, Replaced(obs, s.ret)) ELSE KBack(ascend_byte(s.z).z, n - 1, k, Front(obs))
KBack(z, n, k, obs) == IF n = 0 THEN Obs(z, FALSE, obs) ELSE KSibling(to_next_sibling_byte(z), n, k, obs)
KStep(d, n, k, obs) == IF d.ret = None THEN KBack(d.z, n, k, obs) ELSE KDown(d.z, n + 1, k, Append(obs, d.ret))
KDown(z, n, k, obs) == IF n = k THEN Obs(z, TRUE, obs) ELSE KStep(descend_first_byte(z), n, k, obs)
descend_first_k_path(z, k, obs) == IF k = 0 THEN Obs(z, FALSE, obs) ELSE KDown(z, 0, k, obs)

\* val_count counts from the zipper's root, wherever its focus is.
RECURSIVE CountVals(_, _)
CountVals(s, n) == IF s.ret THEN CountVals(to_next_val(s.z, <<>>), n + 1) ELSE n
val_count(z) == CountVals(to_next_val(reset(z), <<>>), IF is_val(reset(z)) THEN 1 ELSE 0)

fork_read_zipper(z) == with_root_here(z)
shared_node_id(z) == 0

----------------------------------------------------------------------------
\* The frames are a way through the nodes to the focus, and where a frame knows of a
\* next child, that is where it is.
Spans(z, f) == IF IsLine(NodeAt(z, f)) THEN f.node_depth ELSE 0
StackLeadsToFocus(z) ==
    \A i \in 1..(Len(z.stack) - 1) :
       LET f == z.stack[i] IN
       IF IsLine(NodeAt(z, f)) THEN z.stack[i + 1].node_id = NodeAt(z, f).child
                                    /\ f.node_depth = Len(get_line(z.tree, NodeAt(z, f).path)) - 1
       ELSE z.stack[i + 1].node_id = nth_node(NodeAt(z, f).first, f.child_index)
NextKnown(z) ==
    \A i \in DOMAIN z.stack :
       LET f == z.stack[i] IN
       f.next_id # NoId /\ ~IsLine(NodeAt(z, f)) => f.next_id = nth_node(NodeAt(z, f).first, f.child_index + 1)
=================================================================================
