------------------------------- MODULE Morphism -------------------------------
(***************************************************************************)
(* Catamorphisms (src/src/morphisms.rs): a trie is folded from its leaves  *)
(* up, by a zipper that walks it.  The walk keeps a frame for each fork    *)
(* above the focus and the results of the children that are done; where it *)
(* jumps, a run of bytes without forks and values is one step of the       *)
(* algebra.  The algebra is alg_f; acc is what its closure writes to.  The *)
(* zipper is the parameters before it.                                     *)
(***************************************************************************)
EXTENDS Integers, SequencesExt

CONSTANTS child_count(_), child_mask(_), is_val(_), get_val(_), at_root(_), origin_path(_), shared_node_id(_),
          reset(_), descend_first_byte(_), descend_indexed_byte(_, _), descend_until(_, _),
          ascend_byte(_), ascend_until(_),
          alg_f(_, _, _, _, _, _)      \* acc, child mask, results of the children, bytes jumped, value, path

NoId == 0                              \* the answer None of shared_node_id
State(z, acc, w) == [z |-> z, acc |-> acc, w |-> w]

\* To the next fork, or to a leaf.
RECURSIVE ToForkOrLeaf(_)
FurtherDown(d) == IF d.ret THEN ToForkOrLeaf(d.z) ELSE [z |-> d.z, leaf |-> TRUE]
ToForkOrLeaf(z) == IF child_count(z) < 2 THEN FurtherDown(descend_until(z, <<>>)) ELSE [z |-> z, leaf |-> FALSE]

\* ascend_to_fork with JUMPING: a step of the algebra at each value on the way up,
\* and the byte below a fork or a value is in that place's mask.
Stops(z) == child_count(z) # 1 \/ is_val(z)
Jumped(z, u) == Len(origin_path(z)) - Len(origin_path(u)) - (IF Stops(u) THEN 1 ELSE 0)
RECURSIVE JumpFrom(_, _, _, _)
AfterJump(z, u, r) ==
    IF child_count(u) # 1 \/ at_root(u) THEN State(u, r.acc, r.w)
    ELSE JumpFrom(u, r.acc, {origin_path(z)[Len(origin_path(z)) - Jumped(z, u)]}, <<r.w>>)
JumpTo(z, u, acc, mask, children) ==
    AfterJump(z, u, alg_f(acc, mask, children, Jumped(z, u), get_val(z), origin_path(z)))
JumpFrom(z, acc, mask, children) == JumpTo(z, ascend_until(z).z, acc, mask, children)

\* ascend_to_fork without JUMPING: a step at each byte.
RECURSIVE StepFrom(_, _, _, _)
AfterStep(z, u, r) ==
    IF child_count(u) # 1 \/ at_root(u) THEN State(u, r.acc, r.w) ELSE StepFrom(u, r.acc, {Last(origin_path(z))}, <<r.w>>)
StepFrom(z, acc, mask, children) ==
    AfterStep(z, ascend_byte(z).z, alg_f(acc, mask, children, 0, get_val(z), origin_path(z)))

ascend_to_fork(z, acc, children, jumping) ==
    IF jumping THEN JumpFrom(z, acc, child_mask(z), children) ELSE StepFrom(z, acc, child_mask(z), children)

----------------------------------------------------------------------------
(* cata_side_effect_body                                                   *)

Frame(z) == [child_idx |-> 0, child_cnt |-> child_count(z), child_addr |-> NoId]
Top(s) == Last(s.stack)
Exhausted(s) == Top(s).child_idx = Top(s).child_cnt
Kept(s) == SubSeq(s.children, 1, Len(s.children) - Top(s).child_cnt)
Folded(s) == SubSeq(s.children, Len(s.children) - Top(s).child_cnt + 1, Len(s.children))
\* The result of a child of the top frame.
Deliver(s, r, stack, kept) ==
    [s EXCEPT !.z = r.z, !.acc = r.acc, !.children = Append(kept, r.w),
              !.stack = [stack EXCEPT ![Len(stack)].child_idx = @ + 1]]

\* The root has a step of its own unless it is only passed through.
AtTheRoot(s, jumping) == ~jumping \/ Top(s).child_cnt # 1 \/ is_val(s.z)
Finish(s, jumping) ==
    IF AtTheRoot(s, jumping)
    THEN alg_f(s.acc, child_mask(s.z), s.children, 0, get_val(s.z), origin_path(s.z))
    ELSE [acc |-> s.acc, w |-> Last(s.children)]

RECURSIVE FoldFrom(_, _), UpFrom(_, _)
UpFrom(s, jumping) ==
    CASE ~Exhausted(s) -> FoldFrom([s EXCEPT !.z = descend_indexed_byte(s.z, Top(s).child_idx).z], jumping)
      [] Exhausted(s) /\ Len(s.stack) = 1 -> Finish(s, jumping)
      [] OTHER -> UpFrom(Deliver(s, ascend_to_fork(s.z, s.acc, Folded(s), jumping), Front(s.stack), Kept(s)), jumping)
FoldAt(s, d, jumping) ==
    IF d.leaf THEN UpFrom(Deliver(s, ascend_to_fork(d.z, s.acc, <<>>, jumping), s.stack, s.children), jumping)
    ELSE FoldFrom([s EXCEPT !.z = descend_first_byte(d.z).z, !.stack = Append(@, Frame(d.z))], jumping)
FoldFrom(s, jumping) == FoldAt(s, ToForkOrLeaf(s.z), jumping)

FoldBelow(z, d, acc, jumping) ==
    IF d.ret = -1 THEN alg_f(acc, {}, <<>>, 0, get_val(d.z), origin_path(d.z))
    ELSE FoldFrom([z |-> d.z, acc |-> acc, stack |-> <<Frame(z)>>, children |-> <<>>], jumping)
cata_side_effect(z, acc, jumping) == FoldBelow(reset(z), descend_first_byte(reset(z)), acc, jumping)

----------------------------------------------------------------------------
(* into_cata_cached_body: what was folded below a shared node is not       *)
(* folded again.  The cache is asked one byte below a fork.                *)

Insert(cache, id, w) == IF id = NoId THEN cache ELSE [i \in DOMAIN cache \cup {id} |-> IF i = id THEN w ELSE cache[i]]
\* A child of the top frame is done: its result is kept for its node.
Cached(s, r, stack, kept) ==
    [s EXCEPT !.z = r.z, !.acc = r.acc, !.children = Append(kept, r.w), !.stack = stack,
              !.cache = Insert(@, Last(stack).child_addr, r.w)]
\* A mutated form of Entered: the node is not looked at where the zipper has gone, but where it came from.
Entered_Before(s) ==
    [s EXCEPT !.z = descend_indexed_byte(s.z, Top(s).child_idx).z,
              !.stack[Len(s.stack)] = [@ EXCEPT !.child_idx = @ + 1, !.child_addr = shared_node_id(s.z)]]
Addressed(s, z) == [s EXCEPT !.z = z, !.stack[Len(s.stack)] = [@ EXCEPT !.child_idx = @ + 1, !.child_addr = shared_node_id(z)]]
Entered(s) == Addressed(s, descend_indexed_byte(s.z, Top(s).child_idx).z)

RECURSIVE CachedFrom(_, _)
Known(s) == Top(s).child_addr \in DOMAIN s.cache
Reuse(s) == [s EXCEPT !.z = ascend_byte(s.z).z, !.children = Append(@, s.cache[Top(s).child_addr])]
CachedAt(s, d, jumping) ==
    IF d.leaf THEN Cached(s, ascend_to_fork(d.z, s.acc, <<>>, jumping), s.stack, s.children)
    ELSE [s EXCEPT !.z = d.z, !.stack = Append(@, Frame(d.z))]
CachedBelow(s, jumping) == IF Known(s) THEN Reuse(s) ELSE CachedAt(s, ToForkOrLeaf(s.z), jumping)
CachedFrom(s, jumping) ==
    CASE ~Exhausted(s) -> CachedFrom(CachedBelow(Entered(s), jumping), jumping)
      [] Exhausted(s) /\ Len(s.stack) = 1 -> Finish(s, jumping)
      [] OTHER -> CachedFrom(Cached(s, ascend_to_fork(s.z, s.acc, Folded(s), jumping), Front(s.stack), Kept(s)), jumping)
CachedStart(z, acc) == [z |-> z, acc |-> acc, stack |-> <<Frame(z)>>, children |-> <<>>, cache |-> <<>>]
cata_cached(z, acc, jumping) == CachedFrom(CachedStart(reset(z), acc), jumping)
===============================================================================
