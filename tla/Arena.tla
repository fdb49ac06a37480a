--------------------------------- MODULE Arena ---------------------------------
(***************************************************************************)
(* ArenaCompactTree (src/src/arena_compact.rs): a trie in one piece of     *)
(* memory or file.  Nodes and the bytes of lines are appended one after    *)
(* the other and refer to what is before them; the children of a branch    *)
(* lie side by side, so that it refers to the first only.  An id is the    *)
(* place of an object here, the offset of its first byte in the code.      *)
(***************************************************************************)
EXTENDS Integers, SequencesExt, FiniteSetsExt, TLC

CONSTANT NoVal

NoId == 0
Unlimited == -1
Branch(mask, first, val) == [tag |-> "branch", mask |-> mask, first |-> first, val |-> val]
Line(data, val, child) == [tag |-> "line", path |-> data, val |-> val, child |-> child]
Data(bytes) == [tag |-> "data", bytes |-> bytes]
\* What a file ends with: the zeros of finalize, or what a merge leaves there.
Padding == [tag |-> "padding"]
Trailer(suffix, root) == [tag |-> "trailer", previous_suffix |-> suffix, previous_root |-> root]

\* line_map: where lines are, for as many as are kept.
new_arena(entries) == [objs |-> <<>>, root |-> NoId, line_map |-> <<>>, entries |-> entries]
Position(a) == Len(a.objs) + 1

get_node(a, id) == a.objs[id]
get_line(a, id) == a.objs[id].bytes
\* The n-th from id on, of those that lie side by side.
nth_node(id, n) == id + n
IsLine(node) == node.tag = "line"
children_of(node) == IF IsLine(node) THEN (IF node.child = NoId THEN 0 ELSE 1) ELSE Cardinality(node.mask)
index_of(mask, b) == Cardinality({c \in mask : c < b})

Suffix(k, n) == SubSeq(k, n + 1, Len(k))
RECURSIVE ValFrom(_, _, _)
ValInLine(a, line, data, k) ==
    CASE ~IsPrefix(data, k) -> NoVal
      [] IsPrefix(data, k) /\ data = k /\ line.val # NoVal -> line.val
      [] IsPrefix(data, k) /\ ~(data = k /\ line.val # NoVal) /\ line.child = NoId -> NoVal
      [] OTHER -> ValFrom(a, get_node(a, line.child), Suffix(k, Len(data)))
ValInBranch(a, node, k) ==
    CASE k = <<>> -> node.val
      [] k # <<>> /\ k[1] \notin node.mask -> NoVal
      [] OTHER -> ValFrom(a, get_node(a, nth_node(node.first, index_of(node.mask, k[1]))), Tail(k))
ValFrom(a, node, k) == IF IsLine(node) THEN ValInLine(a, node, get_line(a, node.path), k) ELSE ValInBranch(a, node, k)
get_val_at(a, k) == ValFrom(a, get_node(a, a.root), k)

----------------------------------------------------------------------------
(* Writing.                                                                *)

Ids(a, id) == [a |-> a, id |-> id]
push(a, obj) == Ids([a EXCEPT !.objs = Append(@, obj)], Position(a))
\* Side by side; the answer is the first.
PushAll(a, nodes) == Ids([a EXCEPT !.objs = @ \o nodes], IF nodes = <<>> THEN NoId ELSE Position(a))
RootAt(p) == [p.a EXCEPT !.root = p.id]
set_root(a, node) == RootAt(push(a, node))
finalize(a) == push(a, Padding).a

\* add_path: a line that is already there is used again.  A full cache is emptied.
Full(a) == a.entries # Unlimited /\ Cardinality(DOMAIN a.line_map) >= a.entries
Known(a, line, id) ==
    IF a.entries = 0 THEN <<>> ELSE (line :> id) @@ (IF Full(a) THEN <<>> ELSE a.line_map)
NewPath(p, line) == [p EXCEPT !.a.line_map = Known(p.a, line, p.id)]
add_path(a, line) ==
    IF line \in DOMAIN a.line_map THEN Ids(a, a.line_map[line]) ELSE NewPath(push(a, Data(line)), line)

Made(p, w) == [acc |-> p, w |-> w]
LineOver(node, p, c) == Made(c.a, Line(p.id, NoVal, c.id))
\* A mutated form: a leaf's value is left in the branch that is not written.
LineTo_NoVal(node, leaf, p) ==
    IF leaf THEN Made(p.a, Line(p.id, NoVal, NoId)) ELSE LineOver(node, p, push(p.a, node))
LineTo(node, leaf, p) ==
    IF leaf THEN Made(p.a, Line(p.id, node.val, NoId)) ELSE LineOver(node, p, push(p.a, node))
\* A node with `prefix` above it: the children, then the prefix, then the node itself
\* when there is a line above it and it has children.
NodeOver(c, mask, prefix, val) ==
    IF prefix = <<>> THEN Made(c.a, Branch(mask, c.id, val))
    ELSE LineTo(Branch(mask, c.id, val), c.id = NoId, add_path(c.a, prefix))
make_node(a, mask, children, prefix, val) == NodeOver(PushAll(a, children), mask, prefix, val)

\* What build_arena_tree and dump_arena_tree do at each step of the fold.
arena_alg(a, mask, children, jump, val, path) == make_node(a, mask, children, Suffix(path, Len(path) - jump), val)

\* A node that is already there, with `prefix` above it.
LineToNode(p, c) == Made(c.a, Line(p.id, NoVal, c.id))
PrefixedBy(p, node) == LineToNode(p, push(p.a, node))
prefix_node(a, prefix, node) == IF prefix = <<>> THEN Made(a, node) ELSE PrefixedBy(add_path(a, prefix), node)

----------------------------------------------------------------------------
(* ACTOutputStream: a tree is written while its paths arrive in order.     *)
(* There is a frame for each byte of the last path.                        *)

NewFrame == [mask |-> {}, children |-> <<>>, val |-> NoVal]
is_passthrough(f) == f.mask = {} /\ f.val = NoVal
new_stream(entries) == [act |-> new_arena(entries), stack |-> <<NewFrame>>, prev_path |-> <<>>, count |-> 0]

seal(a, f) == LET c == PushAll(a, f.children) IN Made(c.a, Branch(f.mask, c.id, f.val))

\* How many frames are left when the ones that are only passed through are taken too.
RECURSIVE Passed(_, _)
Passed(stack, target) ==
    IF Len(stack) - 1 > target /\ is_passthrough(Last(stack)) THEN Passed(Front(stack), target) ELSE stack
\* The node of the frame at `top`, seen from the frame at `start`.
InLine(p, node) ==
    IF node.mask = {} THEN Made(p.a, Line(p.id, node.val, NoId)) ELSE LineToNode(p, push(p.a, node))
Chained(n, prev, start, top) ==
    IF top - start >= 2 THEN InLine(add_path(n.acc, SubSeq(prev, start + 2, top)), n.w) ELSE n
Attached(f, b, w) == [f EXCEPT !.mask = @ \cup {b}, !.children = Append(@, w)]
RECURSIVE collapse_to(_, _)
CollapseInto(s, target, stack, n) ==
    collapse_to([s EXCEPT !.act = n.acc, !.stack = Append(Front(stack), Attached(Last(stack), s.prev_path[Len(stack)], n.w))],
                target)
CollapsePast(s, target, stack) ==
    CollapseInto(s, target, stack, Chained(seal(s.act, Last(s.stack)), s.prev_path, Len(stack) - 1, Len(s.stack) - 1))
collapse_to(s, target) ==
    IF Len(s.stack) - 1 > target THEN CollapsePast(s, target, Passed(Front(s.stack), target)) ELSE s

Common(p, q) == Max({n \in 0..Min({Len(p), Len(q)}) : SubSeq(p, 1, n) = SubSeq(q, 1, n)})
Before(p, q) ==     \* in byte order
    LET n == Common(p, q) IN p # q /\ (n = Len(p) \/ (n < Len(q) /\ p[n + 1] < q[n + 1]))
Extended(s, path, common, val) ==
    LET frames == s.stack \o [i \in 1..(Len(path) - common) |-> NewFrame]
    IN [s EXCEPT !.stack = [frames EXCEPT ![Len(frames)].val = val], !.prev_path = path, !.count = @ + 1]
InOrder(s, path) == s.count = 0 \/ Before(s.prev_path, path)
\* A path out of order is refused, and the stream goes on as if it had not come.
push_val(s, path, val) ==
    IF ~InOrder(s, path) THEN s
    ELSE Extended(collapse_to(s, Common(path, s.prev_path)), path, Common(path, s.prev_path), val)
RootNode(n) == finalize(set_root(n.acc, n.w))
Sealed(s) == RootNode(seal(s.act, Last(s.stack)))
finish(s) == Sealed(collapse_to(s, 0))

\* A client that writes these paths and values.
RECURSIVE Streamed(_, _)
Streamed(s, pairs) == IF pairs = <<>> THEN finish(s) ELSE Streamed(push_val(s, pairs[1][1], pairs[1][2]), Tail(pairs))
stream(pairs, entries) == Streamed(new_stream(entries), pairs)

----------------------------------------------------------------------------
(* What an arena holds below a node.                                       *)

RECURSIVE PathsUnder(_, _), ValsUnder(_, _)
Sorted(mask) == SetToSortSeq(mask, <)
Child(node, i) == nth_node(node.first, i - 1)
AllBelow(k, below) == {k \o p : p \in below}
Within(k) == {SubSeq(k, 1, n) : n \in 0..Len(k)}
PathsUnder(a, id) ==
    LET node == get_node(a, id)
    IN IF IsLine(node)
       THEN Within(get_line(a, node.path)) \cup
            (IF node.child = NoId THEN {} ELSE AllBelow(get_line(a, node.path), PathsUnder(a, node.child)))
       ELSE {<<>>} \cup UNION {AllBelow(<<Sorted(node.mask)[i]>>, PathsUnder(a, Child(node, i))) : i \in 1..Cardinality(node.mask)}
Valued(k, below) == {<<k \o p[1], p[2]>> : p \in below}
ValsUnder(a, id) ==
    LET node == get_node(a, id)
    IN IF IsLine(node)
       THEN (IF node.val = NoVal THEN {} ELSE {<<get_line(a, node.path), node.val>>}) \cup
            (IF node.child = NoId THEN {} ELSE Valued(get_line(a, node.path), ValsUnder(a, node.child)))
       ELSE (IF node.val = NoVal THEN {} ELSE {<< <<>>, node.val>>}) \cup
            UNION {Valued(<<Sorted(node.mask)[i]>>, ValsUnder(a, Child(node, i))) : i \in 1..Cardinality(node.mask)}
TrieUnder(a, id) == [paths |-> PathsUnder(a, id), val |-> ValsUnder(a, id)]
================================================================================
