------------------------------ MODULE ArenaBuild ------------------------------
(***************************************************************************)
(* The builders of src/src/arena_compact.rs that walk a zipper: the folds  *)
(* of build_arena_tree and dump_arena_tree, the builder that uses shared   *)
(* nodes again (build_arena_tree_cached), and the merge of a zipper into   *)
(* an arena that is there (ZipperMerger).                                  *)
(***************************************************************************)
EXTENDS Arena

CONSTANTS serialize_value(_), de(_),
          child_count(_), child_mask(_), is_val(_), get_val(_), at_root(_), origin_path(_), shared_node_id(_),
          reset(_), descend_first_byte(_), descend_indexed_byte(_, _), descend_until(_, _),
          descend_to_byte(_, _), ascend_byte(_), ascend_until(_)

F == INSTANCE Morphism WITH alg_f <- arena_alg

\* A fold that makes the trie again, as a set of paths and of values at paths.
Lifted(k, t) == [paths |-> Within(k) \cup AllBelow(k, t.paths), vals |-> Valued(k, t.vals)]
Joint(mask, children, val) ==
    [paths |-> {<<>>} \cup UNION {AllBelow(<<Sorted(mask)[i]>>, children[i].paths) : i \in DOMAIN children},
     vals |-> (IF val = NoVal THEN {} ELSE {<< <<>>, val>>}) \cup
              UNION {Valued(<<Sorted(mask)[i]>>, children[i].vals) : i \in DOMAIN children}]
trie_alg(acc, mask, children, jump, val, path) ==
    [acc |-> acc, w |-> Lifted(Suffix(path, Len(path) - jump), Joint(mask, children, val))]
G == INSTANCE Morphism WITH alg_f <- trie_alg
Folds(z, cached, jumping) ==
    IF cached THEN G!cata_cached(z, 0, jumping).w ELSE G!cata_side_effect(z, 0, jumping).w

L == INSTANCE Serialization
W == INSTANCE Morphism WITH alg_f <- L!line_alg
write_trie(z) == L!FileOf(W!cata_side_effect(z, L!NewCtx, TRUE))

Finished(r) == finalize(set_root(r.acc, r.w))
build_arena_tree(z) == Finished(F!cata_side_effect(z, new_arena(Unlimited), TRUE))
dump_arena_tree(z) == build_arena_tree(z)

----------------------------------------------------------------------------
(* build_arena_tree_cached: the cache is asked one byte below a fork, and  *)
(* at the fork that is reached by jumping from there.                      *)

NoNode == [tag |-> "none"]
Up(z, acc, cache, w) == [z |-> z, acc |-> acc, cache |-> cache, w |-> w]
cache_insert(cache, id, node) == F!Insert(cache, id, node)

\* The node for the focus, written apart so that it can be used again ...
Apart(prefix, r, cache, id) == LET p == prefix_node(r.acc, prefix, r.w) IN [p |-> p, cache |-> cache_insert(cache, id, r.w)]
\* ... or together with the prefix: a node that has one is not that of the focus.
Together(prefix, r, cache, id) == [p |-> r, cache |-> IF prefix = <<>> THEN cache_insert(cache, id, r.w) ELSE cache]
NodeFor(acc, cache, prefix, node, id, mask, children, val) ==
    CASE node # NoNode -> [p |-> prefix_node(acc, prefix, node), cache |-> cache]
      [] node = NoNode /\ id # F!NoId /\ prefix # <<>> /\ children # <<>> ->
           Apart(prefix, make_node(acc, mask, children, <<>>, val), cache, id)
      [] OTHER -> Together(prefix, make_node(acc, mask, children, prefix, val), cache, id)

RECURSIVE ascend_to_fork(_, _, _, _, _, _, _)
ChainByte(z, u) == origin_path(z)[Len(origin_path(z)) - F!Jumped(z, u)]
UpTo(z, u, n) ==
    IF child_count(u) # 1 \/ at_root(u) THEN Up(u, n.p.acc, n.cache, n.p.w)
    ELSE ascend_to_fork(u, n.p.acc, n.cache, NoNode, F!NoId, {ChainByte(z, u)}, <<n.p.w>>)
UpBy(z, u, acc, cache, node, id, mask, children) ==
    UpTo(z, u, NodeFor(acc, cache, Suffix(origin_path(z), Len(origin_path(z)) - F!Jumped(z, u)),
                       node, id, mask, children, get_val(z)))
ascend_to_fork(z, acc, cache, node, id, mask, children) ==
    UpBy(z, ascend_until(z).z, acc, cache, node, id, mask, children)

Frame(z) == [child_idx |-> 0, child_cnt |-> child_count(z), child_addr |-> F!NoId, fork_addr |-> shared_node_id(z)]
\* The node for the child of the top frame.
ChildDone(s, r, kept) ==
    [s EXCEPT !.z = r.z, !.acc = r.acc, !.cache = cache_insert(r.cache, F!Top(s).child_addr, r.w),
              !.children = Append(kept, r.w)]
\* A mutated form: the root is written also where it is only passed through.
Root_Always(s) == make_node(s.acc, child_mask(s.z), s.children, <<>>, get_val(s.z))
Root(s) ==
    IF F!Top(s).child_cnt = 1 /\ ~is_val(s.z) THEN [acc |-> s.acc, w |-> Last(s.children)]
    ELSE make_node(s.acc, child_mask(s.z), s.children, <<>>, get_val(s.z))

RECURSIVE SharedFrom(_)
Above(s) == [s EXCEPT !.stack = Front(@)]
ForkDone(s) ==
    ChildDone(Above(s), ascend_to_fork(s.z, s.acc, s.cache, NoNode, F!Top(s).fork_addr, child_mask(s.z), F!Folded(s)), F!Kept(s))
AtFork(s, z) ==
    IF shared_node_id(z) \in DOMAIN s.cache
    THEN ChildDone(s, ascend_to_fork(z, s.acc, s.cache, s.cache[shared_node_id(z)], F!NoId, {}, <<>>), s.children)
    ELSE [s EXCEPT !.z = z, !.stack = Append(@, Frame(z))]
SharedAt(s, d) ==
    IF d.leaf THEN ChildDone(s, ascend_to_fork(d.z, s.acc, s.cache, NoNode, F!NoId, child_mask(d.z), <<>>), s.children)
    ELSE AtFork(s, d.z)
SharedBelow(s) == IF F!Known(s) THEN F!Reuse(s) ELSE SharedAt(s, F!ToForkOrLeaf(s.z))
SharedFrom(s) ==
    CASE ~F!Exhausted(s) -> SharedFrom(SharedBelow(F!Entered(s)))
      [] F!Exhausted(s) /\ Len(s.stack) = 1 -> Root(s)
      [] OTHER -> SharedFrom(ForkDone(s))
SharedStart(z) == [z |-> z, acc |-> new_arena(Unlimited), stack |-> <<Frame(z)>>, children |-> <<>>, cache |-> <<>>]
build_arena_tree_cached(z) == Finished(SharedFrom(SharedStart(reset(z))))

----------------------------------------------------------------------------
(* merge_zipper_into_file: the zipper and the old nodes in lockstep.  What *)
(* does not change is used as it is; a node that is to lie in a new run of *)
(* children is copied there, and refers to what is below it.               *)

Reuse(id) == [old |-> id]
Fresh(node) == [fresh |-> node]
IsFresh(m) == "fresh" \in DOMAIN m
Nothing == [nothing |-> TRUE]       \* the zipper adds nothing
NodeOf(a, m) == IF IsFresh(m) THEN m.fresh ELSE get_node(a, m.old)
NodesOf(a, ms) == [i \in DOMAIN ms |-> NodeOf(a, ms[i])]
add_line_data(a, bytes) == push(a, Data(bytes))
Some(v, or) == IF v # NoVal THEN v ELSE or
\* What a part of the merge comes to: where the arena is then, and the node.
Part(a, m) == [a |-> a, m |-> m]
OverAll(c, mask, val) == Part(c.a, Fresh(Branch(mask, c.id, val)))
FreshBranch(a, mask, ms, val) == OverAll(PushAll(a, NodesOf(a, ms)), mask, val)

\* fresh_subtree: what only the zipper has, with a line for each chain.
RECURSIVE fresh_subtree(_, _), FreshAll(_, _, _, _), ChainEnd(_)
ChainEnd(z) ==
    IF is_val(z) \/ child_count(z) # 1 THEN z ELSE ChainEnd(descend_to_byte(z, CHOOSE b \in child_mask(z) : TRUE))
\* The nodes for the bytes of `todo`, each one's descendants before the next one's.
FreshAll(a, z, todo, nodes) ==
    IF todo = <<>> THEN [a |-> a, nodes |-> nodes]
    ELSE LET n == fresh_subtree(a, descend_to_byte(z, todo[1])) IN FreshAll(n.a, z, Tail(todo), Append(nodes, n.m))
InSegment(p, c, mask, val, node) ==
    IF mask = {} THEN Part(p.a, Fresh(Line(p.id, val, NoId)))
    ELSE LET d == push(p.a, node) IN Part(d.a, Fresh(Line(p.id, NoVal, d.id)))
FreshNode(c, segment, mask, val) ==
    IF segment = <<>> THEN OverAll(c, mask, val)
    ELSE InSegment(add_line_data(c.a, segment), c, mask, val, Branch(mask, c.id, val))
FreshUnder(r, segment, mask, val) == FreshNode(PushAll(r.a, NodesOf(r.a, r.nodes)), segment, mask, val)
FreshAt(a, z, e) ==
    FreshUnder(FreshAll(a, e, Sorted(child_mask(e)), <<>>), Suffix(origin_path(e), Len(origin_path(z))), child_mask(e), get_val(e))
fresh_subtree(a, z) == FreshAt(a, z, ChainEnd(z))

RECURSIVE merge_node(_, _, _), merge_line_from(_, _, _, _), MergeChildren(_, _, _, _, _, _), Scan(_, _, _)
Unchanged(p) == p.m = Nothing

\* merge_branch: the union of the children.
OldChild(node, b) == nth_node(node.first, index_of(node.mask, b))
MergedChild(a, z, node, b) ==
    CASE b \in node.mask /\ b \notin child_mask(z) -> Part(a, Reuse(OldChild(node, b)))
      [] b \in node.mask /\ b \in child_mask(z) -> merge_node(a, descend_to_byte(z, b), OldChild(node, b))
      [] OTHER -> fresh_subtree(a, descend_to_byte(z, b))
MergeChildren(a, z, node, todo, ms, changed) ==
    IF todo = <<>> THEN [a |-> a, ms |-> ms, changed |-> changed]
    ELSE LET p == MergedChild(a, z, node, todo[1])
         IN MergeChildren(p.a, z, node, Tail(todo), Append(ms, p.m), changed \/ IsFresh(p.m))
\* A mutated form of MergedBranch: the zipper's value does not win.
MergedBranch_OldVal(r, z, id, node) ==
    LET val == Some(node.val, get_val(z))
    IN IF ~r.changed /\ val = node.val THEN Part(r.a, Reuse(id)) ELSE FreshBranch(r.a, node.mask \cup child_mask(z), r.ms, val)
MergedBranch(r, z, id, node) ==
    LET val == Some(get_val(z), node.val)
    IN IF ~r.changed /\ val = node.val THEN Part(r.a, Reuse(id)) ELSE FreshBranch(r.a, node.mask \cup child_mask(z), r.ms, val)
merge_branch(a, z, id, node) ==
    MergedBranch(MergeChildren(a, z, node, Sorted(node.mask \cup child_mask(z)), <<>>, FALSE), z, id, node)

OrOld(p, id) == IF Unchanged(p) THEN Part(p.a, Reuse(id)) ELSE p
merge_node(a, z, id) ==
    IF IsLine(get_node(a, id)) THEN OrOld(merge_line_from(a, z, get_node(a, id), 0), id)
    ELSE merge_branch(a, z, id, get_node(a, id))

\* merge_line_from: as far as the zipper follows the line, then the zipper at the end
\* of it or where it parts from it.
Scan(z, data, j) ==
    IF j < Len(data) /\ ~is_val(z) /\ child_mask(z) = {data[j + 1]}
    THEN Scan(descend_to_byte(z, data[j + 1]), data, j + 1) ELSE [z |-> z, j |-> j]

ChangedOnly(p) == IF IsFresh(p.m) THEN p ELSE Part(p.a, Nothing)
LeafMerged(r, z, line) ==
    IF Some(get_val(z), line.val) = line.val /\ child_mask(z) = {} THEN Part(r.a, Nothing)
    ELSE FreshBranch(r.a, child_mask(z), r.nodes, Some(get_val(z), line.val))
AtLineEnd(a, z, line) ==
    IF line.child # NoId THEN ChangedOnly(merge_node(a, z, line.child))
    ELSE LeafMerged(FreshAll(a, z, Sorted(child_mask(z)), <<>>), z, line)

\* tail_child: the rest of the old line, in a node of its own.
RestOfLine(p, line) == Part(p.a, Fresh(Line(p.id, IF line.child = NoId THEN line.val ELSE NoVal, line.child)))
tail_child(a, line, data, k) ==
    CASE k = Len(data) /\ line.child # NoId -> Part(a, Reuse(line.child))
      [] k = Len(data) /\ line.child = NoId -> Part(a, Fresh(Branch({}, NoId, line.val)))
      [] OTHER -> RestOfLine(add_line_data(a, Suffix(data, k)), line)
\* The children of the branch that is put there: the line's rest among the zipper's.
RECURSIVE Parting(_, _, _, _, _, _)
Parting(a, z, todo, old, m, ms) ==
    CASE todo = <<>> -> [a |-> a, ms |-> ms]
      [] todo # <<>> /\ todo[1] = old -> Parting(a, z, Tail(todo), old, m, Append(ms, m))
      [] OTHER -> LET n == fresh_subtree(a, descend_to_byte(z, todo[1]))
                  IN Parting(n.a, z, Tail(todo), old, m, Append(ms, n.m))
PartBranch(r, z, old) == FreshBranch(r.a, child_mask(z) \cup {old}, r.ms, get_val(z))
PartAt(p, z, old) == PartBranch(Parting(p.a, z, Sorted(child_mask(z) \cup {old}), old, p.m, <<>>), z, old)
Continued(c, line, data, j) == IF Unchanged(c) THEN tail_child(c.a, line, data, j + 1) ELSE c
PartedFrom(c, z, line, data, j) ==
    IF Unchanged(c) /\ ~is_val(z) /\ child_mask(z) \subseteq {data[j + 1]} THEN c
    ELSE PartAt(Continued(c, line, data, j), z, data[j + 1])
Parted(a, z, line, data, j) ==
    PartedFrom(IF data[j + 1] \in child_mask(z) THEN merge_line_from(a, descend_to_byte(z, data[j + 1]), line, j + 1)
               ELSE Part(a, Nothing), z, line, data, j)

\* The bytes that both have, in a line above what the merge came to.
MatchedPath(a, line, data, k, j) ==
    IF k = 0 /\ j = Len(data) THEN Ids(a, line.path) ELSE add_line_data(a, SubSeq(data, k + 1, j))
LineAbove(p, m) ==
    IF IsFresh(m) /\ ~IsLine(m.fresh) /\ m.fresh.mask = {} THEN Part(p.a, Fresh(Line(p.id, m.fresh.val, NoId)))
    ELSE LET c == push(p.a, NodeOf(p.a, m)) IN Part(c.a, Fresh(Line(p.id, NoVal, c.id)))
PartingAt(p, line, data, k, j) ==
    IF Unchanged(p) \/ j = k THEN p ELSE LineAbove(MatchedPath(p.a, line, data, k, j), p.m)
MergedLine(a, s, line, data, k) ==
    PartingAt(IF s.j = Len(data) THEN AtLineEnd(a, s.z, line) ELSE Parted(a, s.z, line, data, s.j), line, data, k, s.j)
merge_line_from(a, z, line, k) == MergedLine(a, Scan(z, get_line(a, line.path), k), line, get_line(a, line.path), k)

\* The old root stays where it is, and what is appended ends with a note of it and of
\* the note before.
previous_suffix(a) == IF Last(a.objs).tag = "trailer" THEN Len(a.objs) ELSE NoId
NewRoot(n, suffix, root) == [push(n.a, Trailer(suffix, root)).a EXCEPT !.root = n.id]
Merged(a, p) == IF IsFresh(p.m) THEN NewRoot(push(p.a, p.m.fresh), previous_suffix(a), a.root) ELSE a
\* The line map is not there for a file that is mapped.
merge_zipper_into(a, z) == Merged(a, merge_node([a EXCEPT !.line_map = <<>>], z, a.root))

RECURSIVE Roots(_, _)
Roots(a, off) ==
    IF a.objs[off].tag # "trailer" THEN <<>>
    ELSE <<a.objs[off].previous_root>> \o
         (IF a.objs[off].previous_suffix = NoId THEN <<>> ELSE Roots(a, a.objs[off].previous_suffix))
\* From the newest to the first.
root_history(a) == <<a.root>> \o Roots(a, Len(a.objs))
===============================================================================
