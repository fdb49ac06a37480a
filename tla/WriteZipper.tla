------------------------------ MODULE WriteZipper ------------------------------
(***************************************************************************)
(* A PathMap and the zipper that writes it (WriteZipperCore,               *)
(* src/src/write_zipper.rs).  The zipper stands at the path `buf`, of      *)
(* which the first `origin` bytes are its root.  `rks` and `idx` say where *)
(* the nodes on its stack begin; the top of the stack is the node in which *)
(* the focus, or its parent, is stored, and what follows it in `buf` is    *)
(* the key of the focus in that node.                                      *)
(*                                                                         *)
(* The code keeps pointers to those nodes.  The model finds a node from    *)
(* the path at which it begins, so a stack that no longer names nodes      *)
(* shows as a path at which no node begins (StackOnNodes).                 *)
(***************************************************************************)
EXTENDS TrieNodes, FiniteSets

CONSTANTS
    Val,
    MaxKey,    \* MAX_NODE_KEY_BYTES
    Path,      \* the paths a map may come to have
    Clients    \* the clients that are considered

(***************************************************************************)
(* A client is a record of what it calls the zipper with: opens, where it  *)
(* opens zippers; moves, where it moves them; sets, the relative paths it  *)
(* gives to set_val_at and insert_prefix; maps, the maps it grafts, each a *)
(* node and a root value; childMaps, those it gives to graft_child_maps,   *)
(* by byte; masks, the sets of bytes for remove_unmasked_branches; and the *)
(* bound within, on the paths its map may come to have.                    *)
(***************************************************************************)
ASSUME ClientAssumption ==
    /\ \A p \in Path : \A i \in 0..Len(p) : Take(p, i) \in Path /\ Drop(p, i) \in Path
    /\ \A c \in Clients : c.within \subseteq Path /\ c.opens \cup c.moves \subseteq c.within

VARIABLES client,   \* one of Clients
          root,     \* PathMap::root, a node
          rootVal,  \* PathMap::root_val
          z,        \* the open write zipper, or Closed
          last,     \* the last call and its result
          seen      \* what readers find: always TrieIn(root, rootVal)

vars == <<client, root, rootVal, z, last, seen>>

Closed == [open |-> FALSE]

Result(op, ret) == last' = [op |-> op, ret |-> ret]

----------------------------------------------------------------------------
(* KeyFields and the node stack.                                           *)

node_key_start(y) == IF y.idx = <<>> THEN y.rks ELSE Last(y.idx)
node_key(y) == Drop(y.buf, node_key_start(y))
Top(n, y) == NodeAt(n, Take(y.buf, node_key_start(y)))
PutTop(n, y, new) == Put(n, Take(y.buf, node_key_start(y)), new)
at_root(y) == Len(y.buf) <= y.origin
SatSub(a, b) == IF a > b THEN a - b ELSE 0

\* descend_to_internal: nodes are pushed as long as one begins before the focus.
RECURSIVE descend_to_internal(_, _)
PushChild(y, c) ==
    IF c.len > 0 /\ c.len < Len(node_key(y)) THEN [y EXCEPT !.idx = Append(@, node_key_start(y) + c.len)] ELSE y
descend_step_internal(n, y) == PushChild(y, node_get_child_mut(Top(n, y), node_key(y)))
DescendFrom(n, y, d) == IF d = y THEN y ELSE descend_to_internal(n, d)
descend_to_internal(n, y) == DescendFrom(n, y, descend_step_internal(n, y))

\* A mutated form of mend_root: it goes on to a node that begins at the root path.
mend_root_ToTheEnd(n, y) ==
    IF y.idx = <<>> /\ y.origin > 1 /\ y.rks < y.origin
    THEN [y EXCEPT !.rks = @ + Along(Top(n, y), SubSeq(y.buf, y.rks + 1, y.origin), FALSE)]
    ELSE y

\* A node may now begin between the zipper's stack root and its root path.
mend_root(n, y) ==
    IF y.idx = <<>> /\ y.origin > 1 /\ y.rks < y.origin
    THEN [y EXCEPT !.rks = @ + Along(Top(n, y), SubSeq(y.buf, y.rks + 1, y.origin), TRUE)]
    ELSE y

\* A mutated form of Regular: nodes created under the focus are not descended into.
Regular_NoDescend(n, y, sub) == IF sub THEN mend_root(n, y) ELSE y
Regular(n, y, sub) == IF sub THEN descend_to_internal(n, mend_root(n, y)) ELSE y

\* Ascending ends in the node above when the key of the focus is used up.
ascend_across_nodes(y) ==
    IF node_key(y) = <<>> /\ y.idx # <<>> THEN [y EXCEPT !.idx = Front(@)] ELSE y

RECURSIVE AscendBy(_, _)
Jump(y, n, jump) == AscendBy([y EXCEPT !.buf = Take(@, Len(@) - jump)], n - jump)
AscendIn(y, n) ==
    IF n = 0 \/ at_root(y) THEN [y |-> y, left |-> n]
    ELSE Jump(y, n, Min({n, Len(y.buf) - (IF y.idx = <<>> THEN y.origin ELSE Last(y.idx))}))
AscendBy(y, n) == AscendIn(ascend_across_nodes(y), n)

CutTo(y, len) == [y EXCEPT !.buf = Take(@, len)]

\* The last branch or value above the focus in its node, but not above the zipper's root.
PriorEnd(n, y) == Max({y.origin, node_key_start(y) + Len(prior_branch_key(Top(n, y), node_key(y)))})

\* A mutated form of ascend_within_node: the zipper's root is no limit.
ascend_within_node_PastRoot(n, y) ==
    LET len == node_key_start(y) + Len(prior_branch_key(Top(n, y), node_key(y)))
    IN CutTo(y, len)
ascend_within_node(n, y) == CutTo(y, PriorEnd(n, y))

ChildCount(n, y) == Cardinality(BranchesBelow(Top(n, y), node_key(y)))
IsValHere(n, v, y) == IF node_key(y) = <<>> THEN v # NoVal ELSE node_get_val(Top(n, y), node_key(y)) # NoVal

RECURSIVE AscendToStop(_, _, _, _)
StopHere(n, v, y, valsToo) ==
    IF at_root(y) \/ ChildCount(n, y) > 1 \/ (valsToo /\ IsValHere(n, v, y)) THEN y
    ELSE AscendToStop(n, v, y, valsToo)
AscendToStop(n, v, y, valsToo) == StopHere(n, v, ascend_across_nodes(ascend_within_node(n, y)), valsToo)

----------------------------------------------------------------------------
(* prune_path_internal.                                                    *)

\* Where pruning from the focus stops, with the path cut at `len`: the stack at that
\* place, the end of the key whose branches go, and whether the zipper's root ended it.
RECURSIVE PruneStop(_, _, _)
StopAt(y, len, end) == [y |-> y, len |-> len, end |-> end, atRoot |-> FALSE]
AtRoot(y) == [y |-> y, len |-> y.origin, end |-> Max({y.origin, 1}), atRoot |-> y.origin > 0]

\* The path has been cut to len; popped: the node that began there is off the stack.
PruneAbove(n, y, there, popped, len) ==
    CASE ChildCount(n, there) > 1 -> StopAt(IF popped THEN descend_step_internal(n, y) ELSE y, len, len + 1)
      [] ChildCount(n, there) <= 1 /\ node_get_val(Top(n, there), node_key(there)) # NoVal -> StopAt(y, len, len)
      [] OTHER -> PruneStop(n, y, len)
PruneFrom(n, y, len) ==
    CASE len > node_key_start(y) -> PruneAbove(n, y, CutTo(y, len), FALSE, len)
      [] len = node_key_start(y) /\ y.idx # <<>> ->
           PruneAbove(n, [y EXCEPT !.idx = Front(@)], CutTo([y EXCEPT !.idx = Front(@)], len), TRUE, len)
      [] OTHER -> StopAt(y, len, len + 1)
PruneStop(n, y, len) ==
    IF len = y.origin THEN AtRoot(y) ELSE PruneFrom(n, y, PriorEnd(n, CutTo(y, len)))

\* The branches go from the node in which they are stored, which may begin below the top.
Inside(c, key) == IF c.len > 0 /\ c.len < Len(key) THEN c.len ELSE 0
BranchesGone(n, at, key, limit) == Put(n, at, node_remove_all_branches(NodeAt(n, at), key, limit).node)
GoneFrom(n, s, start) ==
    BranchesGone(n, Take(s.y.buf, start), SubSeq(s.y.buf, start + 1, s.end),
                 IF s.atRoot THEN SatSub(s.y.origin, start) ELSE 0)
GoneAt(n, s, key) == GoneFrom(n, s, node_key_start(s.y) + Inside(node_get_child_mut(Top(n, s.y), key), key))
PrunedTo(n, s) == [root |-> n, y |-> descend_to_internal(n, s.y), bytes |-> Len(s.y.buf) - s.len]
PruneAt(n, s) == PrunedTo(GoneAt(n, s, SubSeq(s.y.buf, node_key_start(s.y) + 1, s.end)), s)

\* The trie and the zipper after it, and how many bytes of the focus went.
prune_path_internal(n, y) ==
    IF ~node_is_empty(Top(n, y)) \/ Len(y.buf) = y.origin THEN [root |-> n, y |-> y, bytes |-> 0]
    ELSE PruneAt(n, PruneStop(n, y, Len(y.buf)))

\* A mutated form of Pruned: nodes go, their entries on the stack stay.
Pruned_KeepsStack(n, y, prune) ==
    IF prune THEN [prune_path_internal(n, y) EXCEPT !.y = y] ELSE [root |-> n, y |-> y, bytes |-> 0]

\* What a call leaves when it has asked for pruning.
Pruned(n, y, prune) == IF prune THEN prune_path_internal(n, y) ELSE [root |-> n, y |-> y, bytes |-> 0]
\* A mutated form of node_prune_limit: pruning goes on above the zipper's root.
node_prune_limit_None(y, prune) == IF prune THEN 0 ELSE NoPrune
node_prune_limit(y, prune) == IF prune THEN SatSub(y.origin, node_key_start(y)) ELSE NoPrune

----------------------------------------------------------------------------
(* The parts of an operation.  Each takes and returns the state            *)
(* s = [root, rootVal, y] and what the call returns.                       *)

Step(n, v, y, ret) == [root |-> n, rootVal |-> v, y |-> y, ret |-> ret]

Rebuilt(s, n, sub, ret) == Step(n, s.rootVal, Regular(n, s.y, sub), ret)

\* The result r of an operation on the node at path `at`.
PutIn(s, at, r) == Rebuilt(s, Put(s.root, at, r.node), r.sub, r.ret)

\* in_zipper_mut_static_result: r is the result of an operation on the focus node.
InTop(s, r) == PutIn(s, Take(s.y.buf, node_key_start(s.y)), r)

\* What is put at a path below the focus: a value, or a node as a branch.
PutVal(v) == [child |-> FALSE, of |-> v]
PutNode(n) == [child |-> TRUE, of |-> n]
InNode(n, key, new) == set_payload_recursive(n, key, new.child, new.of)

\* with_node_at_path_mut(child at path `at`, k), of which i bytes lead to the node that takes it
PutBelow(s, at, rest, new) == PutIn(s, at, InNode(NodeAt(s.root, at), rest, new))
BelowAlong(s, at, k, i, new) == PutBelow(s, at \o Take(k, i), Drop(k, i), new)
BelowAt(s, at, k, new) == BelowAlong(s, at, k, Along(NodeAt(s.root, at), k, TRUE), new)

TakenChild(taken) == IF taken.some /\ taken.of # NoNode /\ taken.of # NoLink THEN taken.of ELSE NewNode

\* What was below the focus is taken out, changed and put back; r is the change.
PutBack(s, taken, r) ==
    Rebuilt(s, PutTop(s.root, s.y, node_set_branch(taken.node, node_key(s.y), r.node).node), TRUE, r.ret)
TakeAndPut(s, taken, k, new) == PutBack(s, taken, InNode(TakenChild(taken), k, new))

\* with_node_at_path: new is put at a path k below the focus.
FocusIsNode(top, key) == key = <<>> \/ node_get_child_mut(top, key).len > 0
with_node_at_path(s, k, new) ==
    CASE FocusIsNode(Top(s.root, s.y), node_key(s.y)) -> BelowAt(s, s.y.buf, k, new)
      [] Len(node_key(s.y)) + Len(k) <= MaxKey /\ ~FocusIsNode(Top(s.root, s.y), node_key(s.y)) ->
           InTop(s, InNode(Top(s.root, s.y), node_key(s.y) \o k, new))
      [] OTHER -> TakeAndPut(s, take_node_at_key(Top(s.root, s.y), node_key(s.y), NoPrune), k, new)

SetValHere(s, v) ==
    IF node_key(s.y) = <<>> THEN Step(s.root, v, s.y, s.rootVal)
    ELSE InTop(s, node_set_val(Top(s.root, s.y), node_key(s.y), v))
SetVal(s, k, v) == IF k = <<>> THEN SetValHere(s, v) ELSE with_node_at_path(s, k, PutVal(v))

\* The result r of a removal in the focus node, and pruning after it.
AfterPruning(s, p, ret) == Step(p.root, s.rootVal, p.y, ret)
Removed(s, r, prune) == AfterPruning(s, Pruned(PutTop(s.root, s.y, r.node), s.y, prune), r.ret)

RootValGone(s) == Step(s.root, NoVal, s.y, s.rootVal)
RemoveVal(s, prune) ==
    IF node_key(s.y) = <<>> THEN RootValGone(s)
    ELSE Removed(s, node_remove_val(Top(s.root, s.y), node_key(s.y), node_prune_limit(s.y, prune)), prune)

RootBranchesGone(s) ==
    IF node_is_empty(s.root) THEN Step(s.root, s.rootVal, s.y, FALSE) ELSE Step(NewNode, s.rootVal, s.y, TRUE)
RemoveBranches(s, prune) ==
    IF node_key(s.y) = <<>> THEN RootBranchesGone(s)
    ELSE Removed(s, node_remove_all_branches(Top(s.root, s.y), node_key(s.y), node_prune_limit(s.y, prune)), prune)

\* The branches went with b, the value after them.
AnyGone(b, r) == [r EXCEPT !.ret = b.ret \/ @ # NoVal]
ValGoneToo(b, key, limit) == AnyGone(b, node_remove_val(b.node, key, limit))
RemoveSubtrie(s, prune) ==
    IF node_key(s.y) = <<>> THEN AnyGone(RootBranchesGone(s), RootValGone(RootBranchesGone(s)))
    ELSE Removed(s, ValGoneToo(node_remove_all_branches(Top(s.root, s.y), node_key(s.y), NoPrune),
                               node_key(s.y), node_prune_limit(s.y, prune)), prune)

\* take_focus: the node that was below the focus, or the sentinel.
TakeResult(s, t, prune) ==
    IF t.some THEN Removed(s, [node |-> t.node, ret |-> t.of], prune)
    ELSE Step(PutTop(s.root, s.y, t.node), s.rootVal, s.y, NoNode)
TakeFocus(s, prune) ==
    IF node_key(s.y) = <<>> THEN Step(NewNode, s.rootVal, s.y, s.root)
    ELSE TakeResult(s, take_node_at_key(Top(s.root, s.y), node_key(s.y), node_prune_limit(s.y, prune)), prune)

\* graft_internal: a node takes the place of all below the focus.
GraftNode(s, of) ==
    CASE node_is_empty(of) -> RemoveBranches(s, FALSE)
      [] ~node_is_empty(of) /\ node_key(s.y) = <<>> -> Step(of, s.rootVal, s.y, NoVal)
      [] OTHER -> InTop(s, node_set_branch(node_remove_all_branches(Top(s.root, s.y), node_key(s.y), NoPrune).node,
                                           node_key(s.y), of))

\* A mutated form of GraftWithVal: a map without a root value leaves the old one.
SetValIf(s, v) == IF v # NoVal THEN SetValHere(s, v) ELSE s
GraftWithVal_KeepsVal(s, of, v) == SetValIf(GraftNode(s, of), v)
ReplaceVal(s, v) == IF v # NoVal THEN SetValHere(s, v) ELSE RemoveVal(s, FALSE)
GraftWithVal(s, of, v) == ReplaceVal(GraftNode(s, of), v)

\* A map goes to one child of the focus: its root node and its root value, if it has them.
ValAtChild(s, b, v) == IF v = NoVal THEN s ELSE with_node_at_path(s, <<b>>, PutVal(v))
GraftChild(s, b, m) ==
    ValAtChild(IF node_is_empty(m.node) THEN s ELSE with_node_at_path(s, <<b>>, PutNode(m.node)), b, m.val)

\* Many maps that replace all children make up a byte node; otherwise they go one by one.
GraftChildren(s, f, remove_unset) ==
    LET B == {b \in DOMAIN f : ~node_is_empty(f[b].node) \/ f[b].val # NoVal}
        cell(m) == [rec |-> IF node_is_empty(m.node) THEN NoLink ELSE m.node, val |-> m.val]
        cleared == IF remove_unset THEN RemoveBranches(s, FALSE) ELSE s
    IN IF Cardinality(DOMAIN f) > 2 /\ remove_unset
       THEN GraftNode(s, ByteNode([b \in B |-> cell(f[b])]))
       ELSE FoldLeft(LAMBDA t, b : GraftChild(t, b, f[b]), cleared, SetToSortSeq(DOMAIN f, <))

\* get_focus().into_option(), the sentinel when there is nothing there.
SomeNode(g) == IF g.some /\ ~node_is_empty(g.of) THEN g.of ELSE NoNode
FocusNode(s) ==
    SomeNode(get_node_at_key(Top(s.root, s.y), node_key(s.y)))

----------------------------------------------------------------------------
(* The calls.                                                              *)

\* What readers find of a node and a root value at the paths P.
Found(at) == [paths |-> {p \in DOMAIN at : PathIn(at[p])}, val |-> [p \in DOMAIN at |-> ValIn(at[p])]]
WithRootVal(f, v) == [f EXCEPT !.val = (<<>> :> v) @@ @]
OnlyVals(f) == [f EXCEPT !.val = Restrict(@, {p \in DOMAIN @ : @[p] # NoVal})]
Reading(P, n, v) == OnlyVals(WithRootVal(Found([p \in P |-> node_along_path(n, p)]), v))
TrieIn(n, v) == Reading(client.within, n, v)

\* The bound, on what is put at a path.
Fits(n, at) == \A p \in Path : PathExistsAt(n, p) => at \o p \in client.within

Now == Step(root, rootVal, z, NoVal)
Here == z.buf

Commit(op, s) ==
    /\ root' = s.root
    /\ rootVal' = s.rootVal
    /\ z' = s.y
    /\ seen' = TrieIn(s.root, s.rootVal)
    /\ Result(op, s.ret)

Move(op, y, ret) == z' = y /\ Result(op, ret) /\ UNCHANGED <<root, rootVal, seen>>

Init ==
    /\ client \in Clients
    /\ root = NewNode
    /\ rootVal = NoVal
    /\ z = Closed
    /\ last = [op |-> "new", ret |-> NoVal]
    /\ seen = TrieIn(NewNode, NoVal)

\* write_zipper (p = <<>>) and write_zipper_at_path.
Open(p) ==
    /\ ~z.open
    /\ Move("open", [open |-> TRUE, origin |-> Len(p), rks |-> Along(root, p, TRUE), buf |-> p, idx |-> <<>>], NoVal)

Close == z.open /\ Move("close", Closed, NoVal)

descend_to(p) ==
    /\ z.open
    /\ IsStrictPrefix(z.buf, p)
    /\ Move("descend_to", descend_to_internal(root, [z EXCEPT !.buf = p]), NoVal)

ascend(n) ==
    /\ z.open
    /\ LET a == AscendBy(z, n) IN Move("ascend", ascend_across_nodes(a.y), n - a.left)

AscendUntil(op, valsToo) ==
    /\ z.open
    /\ LET y == IF at_root(z) THEN z ELSE AscendToStop(root, rootVal, z, valsToo)
       IN Move(op, y, Len(z.buf) - Len(y.buf))

reset == z.open /\ Move("reset", [z EXCEPT !.buf = Take(@, z.origin), !.idx = <<>>], NoVal)

set_val_at(k, v) == z.open /\ Here \o k \in client.within /\ Commit("set_val_at", SetVal(Now, k, v))
remove_val(prune) == z.open /\ Commit("remove_val", RemoveVal(Now, prune))
remove_branches(prune) == z.open /\ Commit("remove_branches", RemoveBranches(Now, prune))
remove_subtrie(prune) == z.open /\ Commit("remove_subtrie", RemoveSubtrie(Now, prune))

\* What is left of the child at key is `below`.
LinkLeft(n, key, below, limit) ==
    IF node_is_empty(below) THEN node_remove_all_branches(node_replace_child(n, key, below), key, limit).node
    ELSE node_replace_child(n, key, below)
Unmasked(n, key, c, mask, limit) ==
    IF key # <<>> /\ c.len > 0
    THEN LinkLeft(n, Take(key, c.len),
                  node_remove_unmasked_branches(c.of, Drop(key, c.len), mask, SatSub(limit, c.len)), limit)
    ELSE node_remove_unmasked_branches(n, key, mask, limit)
UnmaskedIn(n, key, mask, limit) == Unmasked(n, key, node_get_child_mut(n, key), mask, limit)
remove_unmasked_branches(mask, prune) ==
    /\ z.open
    /\ Commit("remove_unmasked_branches",
              Removed(Now, [node |-> UnmaskedIn(Top(root, z), node_key(z), mask, node_prune_limit(z, prune)),
                            ret  |-> NoVal], prune))

\* The map is made of the node taken and of the value that r has removed.
MapOf(r, t) == [t EXCEPT !.ret = TrieIn(@, r.ret)]
TakeMap(r, prune) == MapOf(r, TakeFocus(r, prune))
take_map(prune) == z.open /\ Commit("take_map", TakeMap(RemoveVal(Now, prune), prune))

create_path ==
    /\ z.open
    /\ Commit("create_path",
              IF node_key(z) = <<>> THEN [Now EXCEPT !.ret = FALSE]
              ELSE InTop(Now, node_create_dangling(Top(root, z), node_key(z))))

BytesGone(s, n, p) == Step(p.root, s.rootVal, p.y, Max({n, p.bytes}))
DanglingGone(s, r) == BytesGone(s, r.ret, Pruned(PutTop(s.root, s.y, r.node), s.y, r.ret > 0))
PrunePath(s) ==
    IF node_key(s.y) = <<>> THEN [s EXCEPT !.ret = 0]
    ELSE DanglingGone(s, node_remove_dangling(Top(s.root, s.y), node_key(s.y), SatSub(s.y.origin, node_key_start(s.y))))

prune_path == z.open /\ Commit("prune_path", PrunePath(Now))
AscendGone(s) == [s EXCEPT !.y = AscendBy(@, s.ret).y]
prune_ascend == z.open /\ Commit("prune_ascend", AscendGone(PrunePath(Now)))

graft_map(m) == z.open /\ Fits(m.node, Here) /\ Commit("graft_map", [GraftWithVal(Now, m.node, m.val) EXCEPT !.ret = NoVal])

insert_prefix(k) ==
    /\ z.open
    /\ LET of == FocusNode(Now)
       IN /\ Fits(of, Here \o k)
          /\ Commit("insert_prefix",
                    IF of = NoNode THEN [Now EXCEPT !.ret = FALSE]
                    ELSE [GraftNode(Now, node_set_branch(NewNode, k, of).node) EXCEPT !.ret = TRUE])

graft_child_maps(f, remove_unset) ==
    /\ z.open
    /\ \A b \in DOMAIN f : Fits(f[b].node, Append(Here, b))
    /\ Commit("graft_child_maps", [GraftChildren(Now, f, remove_unset) EXCEPT !.ret = NoVal])

\* What is below the focus moves up n bytes, and the zipper with it.
remove_prefix(n) ==
    LET up == AscendBy(z, n)
    IN z.open /\ Commit("remove_prefix", [GraftNode([Now EXCEPT !.y = up.y], FocusNode(Now)) EXCEPT !.ret = up.left = 0])

\* PathMap::set_val_at, in the node at path `at`
MapStep(at, r) == Step(Put(root, at, r.node), rootVal, z, r.ret)
MapPut(at, p, v) == MapStep(at, node_set_val(NodeAt(root, at), Drop(p, Len(at)), v))
MapSetVal(p, v) ==
    /\ ~z.open
    /\ Commit("map.set_val_at",
              IF p = <<>> THEN Step(root, v, z, rootVal) ELSE MapPut(Take(p, Along(root, p, TRUE)), p, v))

Call ==
    \/ \E p \in client.opens : Open(p)
    \/ Close
    \/ \E p \in client.moves : descend_to(p)
    \/ \E n \in 1..3 : ascend(n)
    \/ reset
    \/ AscendUntil("ascend_until", TRUE)
    \/ AscendUntil("ascend_until_branch", FALSE)
    \/ \E k \in client.sets, v \in Val : set_val_at(k, v)
    \/ \E prune \in BOOLEAN : remove_val(prune)
    \/ \E prune \in BOOLEAN : remove_branches(prune)
    \/ \E prune \in BOOLEAN : remove_subtrie(prune)
    \/ \E prune \in BOOLEAN, mask \in client.masks : remove_unmasked_branches(mask, prune)
    \/ \E prune \in BOOLEAN : take_map(prune)
    \/ create_path
    \/ prune_path
    \/ prune_ascend
    \/ \E n \in 1..2 : remove_prefix(n)
    \/ \E f \in client.childMaps, remove_unset \in BOOLEAN : graft_child_maps(f, remove_unset)
    \/ \E m \in client.maps : graft_map(m)
    \/ \E k \in client.sets \ {<<>>} : insert_prefix(k)
    \/ \E p \in client.moves, v \in Val : MapSetVal(p, v)

Next == Call /\ UNCHANGED client

Spec == Init /\ [][Next]_vars

----------------------------------------------------------------------------
(* Properties.                                                             *)

\* The root is a node, the zipper stands inside the bounds and never above its root
\* (KeyFields::prefix_buf and root_key_start).
TypeOK ==
    /\ root.tag \in {"list", "byte"}
    /\ rootVal \in Val \cup {NoVal}
    /\ z.open => /\ 0 <= z.rks /\ z.rks <= Len(z.buf) /\ z.origin <= Len(z.buf)
                 /\ z.buf \in client.within

\* After any sequence of calls every list node is what validate_node asks for: two
\* keys that fit the buffer, in order, of which no reader could take the wrong one.
NodesOk ==
    /\ AllNodesOk(root)

\* Whatever an operation has split, upgraded, replaced or pruned, every entry of the
\* zipper's node stack still begins where a node of the trie begins.
StackOnNodes ==
    z.open => \A i \in {z.rks} \cup Range(z.idx) :
                 i <= Len(z.buf) /\ Along(root, Take(z.buf, i), FALSE) = i

\* Every call leaves the top of the stack at the last node that begins before the focus:
\* only at the root of the map is the focus the beginning of the top node.
StackDescended ==
    z.open => /\ node_key(z) = <<>> => z.buf = <<>>
              /\ descend_step_internal(root, z) = z

Abs == INSTANCE ZipperSpec WITH
    trie <- seen,
    origin <- IF z.open THEN Take(z.buf, z.origin) ELSE NoVal,
    focus <- IF z.open THEN z.buf ELSE <<>>,
    MapTries <- UNION {{Reading(Path, m.node, m.val) : m \in c.maps} : c \in Clients},
    ChildTries <- UNION {{[b \in DOMAIN f |-> Reading(Path, f[b].node, f[b].val)] : f \in c.childMaps} : c \in Clients},
    Masks <- UNION {c.masks : c \in Clients},
    Nil <- NoVal

\* Every call of the zipper changes what readers find, moves the focus and answers as the
\* call promises, however nodes have been laid out by the calls before it.
ImplementsSpec == Abs!Spec

\* set_val_at "sets the value at a path relative to the zipper's focus": readers find it there.
SetsAtPath ==
    [][\A k \in client.sets \ {<<>>}, v \in Val : set_val_at(k, v) => ValAt(root', z.buf \o k) = v]_vars
=============================================================================
