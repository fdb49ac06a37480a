------------------------------ MODULE ReadZipper ------------------------------
(***************************************************************************)
(* ReadZipperCore (src/src/zipper.rs): a zipper over the nodes of a map.   *)
(* It stands on a node, at a key inside that node; the nodes it came       *)
(* through are on a stack, each with the length of the path up to the next *)
(* one.  Where the focus is the end of a node's key that has a link, the   *)
(* focus node is the linked one (the regularized form).  Iteration keeps a *)
(* token for the place inside each node, so that it need not search it.    *)
(***************************************************************************)
EXTENDS NodeIter

CONSTANTS
    ChunkSize,     \* CHUNK_SIZE of descend_to_existing
    SharedNodes,   \* nodes that are referred to from more than one place; its index is the id of one
    Panicked       \* the answer of a call that does not return

None == -1
Ans(z, ret) == [z |-> z, ret |-> ret]
Obs(z, ret, obs) == [z |-> z, ret |-> ret, obs |-> obs]

----------------------------------------------------------------------------
(* Where the zipper is.                                                    *)

node_key_start(z) == IF z.ancestors = <<>> THEN z.root_key_start ELSE Last(z.ancestors).at

Root(z) == IF z.ancestors = <<>> THEN z.focus_node ELSE z.ancestors[1].node

\* The origin path is read where the buffer has not been filled yet.
Buffer(z) == IF z.prefix_buf # <<>> THEN z.prefix_buf ELSE z.origin_path
node_key(z) == Drop(Buffer(z), node_key_start(z))
path(z) == Drop(Buffer(z), Len(z.origin_path))
depth(z) == Len(path(z))
at_root(z) == Len(z.prefix_buf) <= Len(z.origin_path)
focus_byte(z) == IF z.prefix_buf = <<>> THEN None ELSE Last(z.prefix_buf)
excess_key_len(z) ==
    Len(z.prefix_buf) - (IF z.ancestors = <<>> THEN Len(z.origin_path) ELSE Last(z.ancestors).at)
parent_key(z) ==
    LET from == IF Len(z.ancestors) > 1 THEN z.ancestors[Len(z.ancestors) - 1].at ELSE z.root_key_start
    IN SubSeq(z.prefix_buf, from + 1, node_key_start(z))

path_exists(z) == node_key(z) = <<>> \/ node_contains_partial_key(z.focus_node, node_key(z))
child_mask(z) == node_branches_mask(z.focus_node, node_key(z))
child_count(z) == count_branches(z.focus_node, node_key(z))

\* A mutated form of get_val: the node the focus came through is not asked.
get_val_NotParent(z) == IF node_key(z) # <<>> THEN node_get_val(z.focus_node, node_key(z)) ELSE z.root_val

\* The value at the end of a node's key is in that node, also when the focus is the next one.
get_val(z) ==
    CASE node_key(z) # <<>> -> node_get_val(z.focus_node, node_key(z))
      [] node_key(z) = <<>> /\ z.ancestors # <<>> -> node_get_val(Last(z.ancestors).node, parent_key(z))
      [] OTHER -> z.root_val
is_val(z) == get_val(z) # NoVal

ValsFrom(g) == IF g.some THEN node_val_count(g.of) ELSE 0
val_count(z) == (IF is_val(z) THEN 1 ELSE 0) + ValsFrom(get_node_at_key(z.focus_node, node_key(z)))

\* A value is not in the node that is shared: a place with one is not that node.
is_shared(z) == node_key(z) = <<>> /\ z.focus_node \in ToSet(SharedNodes)
shared_node_id(z) ==
    IF is_shared(z) /\ ~is_val(z) THEN SelectInSeq(SharedNodes, LAMBDA n : n = z.focus_node) ELSE 0
origin_path(z) == Buffer(z)

is_regularized(z) == node_key(z) # <<>> => node_get_child(z.focus_node, node_key(z)).len = 0

----------------------------------------------------------------------------
(* Making a zipper.                                                        *)

\* new_with_node_and_path_internal_in: a path that leads to a link of the node is followed.
NewAt(root, origin, start, val) ==
    [origin_path |-> origin, root_key_start |-> start, root_val |-> val, prepared |-> FALSE,
     prefix_buf |-> <<>>, focus_node |-> root, ancestors |-> <<>>, token |-> NODE_ITER_INVALID]
Regular(root, c, origin, start, val) ==
    IF c.len > 0 THEN NewAt(c.of, origin, start + c.len, val) ELSE NewAt(root, origin, start, val)
new_internal(root, origin, start, val) ==
    Regular(root, node_get_child(root, Drop(origin, start)), origin, start, val)

\* node_along_path from a node, with the value at the end of the path.
RECURSIVE Located(_, _, _)
LocatedFrom(n, c, key, val) ==
    CASE c.len > 0 /\ c.len < Len(key) -> Located(c.of, Drop(key, c.len), val)
      [] c.len > 0 /\ c.len = Len(key) -> [node |-> c.of, key |-> <<>>, val |-> node_get_val(n, key)]
      [] OTHER -> [node |-> n, key |-> key, val |-> val]
Located(n, key, val) == LocatedFrom(n, node_get_child(n, key), key, val)
NewLocated(l, origin) == new_internal(l.node, origin, Len(origin) - Len(l.key), l.val)
new_with_node_and_path(root, origin, start, val) == NewLocated(Located(root, Drop(origin, start), val), origin)

\* With buffers of its own, made when the zipper is; otherwise at the first movement.
Invalid(z) == [z EXCEPT !.token = NODE_ITER_INVALID]
prepare_buffers(z) == IF z.prepared THEN z ELSE [z EXCEPT !.prepared = TRUE, !.prefix_buf = z.origin_path]
make_static_path(z) == Invalid(prepare_buffers(z))
new_with_node_and_cloned_path(root, origin, start, val) == make_static_path(new_with_node_and_path(root, origin, start, val))

\* The zippers of a map; the value at the root is not one of a node.
RootVal(m, k) == IF k = <<>> THEN m.val ELSE NoVal
read_zipper(m) == new_internal(m.root, <<>>, 0, m.val)
read_zipper_at_borrowed_path(m, k) == new_with_node_and_path(m.root, k, 0, RootVal(m, k))
read_zipper_at_path(m, k) == new_with_node_and_cloned_path(m.root, k, 0, RootVal(m, k))
ReadZipperOwned(m, k) == new_with_node_and_cloned_path(m.root, k, 0, m.val)

\* A zipper of a head has a root of its own, which no writer reaches: the node that begins
\* at its path, made up where the path ends inside a node.  Where nothing is, the last byte
\* of the path stays a key of the node, so that it is not there.
SomeOrEmpty(f) == IF f.some /\ ~node_is_empty(f.of) THEN f.of ELSE NoNode
IsolatedAt(n, key, origin) ==
    new_internal(SomeOrEmpty(get_node_at_key(n, key)), origin,
                 IF node_contains_partial_key(n, key) THEN Len(origin) ELSE Len(origin) - 1, node_get_val(n, key))
Isolate(l, origin) ==
    IF l.key = <<>> THEN new_internal(l.node, origin, Len(origin), l.val) ELSE IsolatedAt(l.node, l.key, origin)
new_isolated(root, origin, val) ==
    IF origin = <<>> THEN new_with_node_and_path(root, origin, 0, val) ELSE Isolate(Located(root, origin, val), origin)
new_isolated_cloned_path(root, origin, val) == make_static_path(new_isolated(root, origin, val))

\* What a combinator takes over; a clone begins without a token.
take_core(z) == make_static_path(z)
clone(z) == Invalid(z)

\* fork_read_zipper: from the focus node, with the whole path as its origin.
fork_read_zipper(z) == new_internal(z.focus_node, Buffer(z), Len(Buffer(z)) - Len(node_key(z)), get_val(z))

----------------------------------------------------------------------------
(* Going down.                                                             *)

\* Into a node, `tok` being the place it leaves in the one before.
Push(z, tok, at, node) ==
    [z EXCEPT !.ancestors = Append(@, [node |-> z.focus_node, token |-> tok, at |-> at]),
              !.focus_node = node, !.token = NODE_ITER_INVALID]
Enter(z, node) == IF node = NoLink THEN z ELSE Push(z, z.token, Len(z.prefix_buf), node)

\* descend_to_internal: through every link along the path.
RECURSIVE Follow(_)
\* A mutated form of FollowInto: the next node is taken to begin where the path ends.
FollowInto_WholeKey(z, c) == IF c.len = 0 THEN z ELSE Follow(Push(z, NODE_ITER_INVALID, Len(z.prefix_buf), c.of))
FollowInto(z, c) ==
    IF c.len = 0 THEN z ELSE Follow(Push(z, NODE_ITER_INVALID, node_key_start(z) + c.len, c.of))
Follow(z) == FollowInto(z, node_get_child(z.focus_node, node_key(z)))

descend_to_internal(z, k) == Follow([z EXCEPT !.prefix_buf = @ \o k, !.token = NODE_ITER_INVALID])

descend_to(z, k) == IF k = <<>> THEN z ELSE descend_to_internal(prepare_buffers(z), k)
Checked(z) == Ans(z, path_exists(z))
descend_to_check(z, k) == Checked(descend_to(z, k))

LinkAt(z) == LET c == node_get_child(z.focus_node, node_key(z)) IN IF c.len = 0 THEN NoLink ELSE c.of
Pushed(z, b) == [z EXCEPT !.prefix_buf = Append(@, b), !.token = NODE_ITER_INVALID]
Linked(z) == Enter(z, LinkAt(z))

\* A mutated form of descend_to_byte: a link at the byte is not followed.
descend_to_byte_NoLink(z, b) == Pushed(prepare_buffers(z), b)
descend_to_byte(z, b) == Linked(Pushed(prepare_buffers(z), b))

\* The token of the place the zipper stays at is not lost.
ExistingByte(z, d) == IF path_exists(d) THEN Ans(Linked(d), TRUE) ELSE Ans(z, FALSE)
ExistingFrom(z, b) == ExistingByte(z, Pushed(z, b))
descend_to_existing_byte(z, b) == ExistingFrom(prepare_buffers(z), b)

\* A mutated form of ByStep: there is taken to be such a child.
ByStep_Unchecked(z, s) == Ans(Enter(Pushed(z, s.byte), s.node), s.byte)
ByStep(z, s) == IF s.byte = None THEN Ans(z, None) ELSE Ans(Enter(Pushed(z, s.byte), s.node), s.byte)
IndexedFrom(z, i) == ByStep(z, nth_child_from_key(z.focus_node, node_key(z), i))
descend_indexed_byte(z, i) == IndexedFrom(prepare_buffers(z), i)
descend_last_byte(z) == IF child_count(z) = 0 THEN Ans(z, None) ELSE descend_indexed_byte(z, child_count(z) - 1)

\* The token of the focus, looked up when there is none.
Tokened(z) ==
    IF z.token = NODE_ITER_INVALID THEN [z EXCEPT !.token = iter_token_for_path(z.focus_node, node_key(z))] ELSE z

\* A mutated form of FirstItem: an item beside the focus is taken for one below it.
FirstItem_Foreign(z, it) ==
    CASE it.tok = NODE_ITER_FINISHED \/ Len(it.key) <= Len(node_key(z)) -> Ans(z, None)
      [] OTHER ->
           Ans([z EXCEPT !.prefix_buf = Append(@, it.key[Len(node_key(z)) + 1]), !.token = NODE_ITER_INVALID],
               it.key[Len(node_key(z)) + 1])

\* One byte towards item `it`, which may lie beside the focus rather than below it.
Entered(z, it, b) ==
    IF it.child = NoLink THEN [z EXCEPT !.prefix_buf = Append(@, b), !.token = it.tok]
    ELSE [Push([z EXCEPT !.prefix_buf = Append(@, b)], it.tok, Len(z.prefix_buf) + 1, it.child)
            EXCEPT !.token = new_iter_token(it.child)]
Partway(z, it, b, left) ==
    [z EXCEPT !.prefix_buf = Append(@, b), !.token = ascend_iter_token(z.focus_node, it.tok, left)]
TowardsItem(z, it, b, left) == Ans(IF left = 0 THEN Entered(z, it, b) ELSE Partway(z, it, b, left), b)
FirstItem(z, it) ==
    IF it.tok = NODE_ITER_FINISHED \/ ~IsStrictPrefix(node_key(z), it.key) THEN Ans(z, None)
    ELSE TowardsItem(z, it, it.key[Len(node_key(z)) + 1], Len(it.key) - Len(node_key(z)) - 1)
FirstFrom(z) == IF z.token.miss THEN Ans(z, None) ELSE FirstItem(z, next_items(z.focus_node, z.token, FALSE))
descend_first_byte(z) == FirstFrom(Tokened(prepare_buffers(z)))

\* descend_first: the whole way to the next node or branch, telling the observer.
RECURSIVE DescendFirst(_, _)
Went(z, k) == [z EXCEPT !.prefix_buf = @ \o k, !.token = IF k = <<>> THEN @ ELSE NODE_ITER_INVALID]
AlongWay(z, w, obs) ==
    IF w.node # NoLink /\ w.key = <<>> THEN DescendFirst(Enter(z, w.node), obs)
    ELSE Obs(Enter(Went(z, w.key), w.node), TRUE, obs \o w.key)
FirstWay(z) == first_child_from_key(z.focus_node, node_key(z))
DescendFirst(z, obs) == AlongWay(prepare_buffers(z), FirstWay(z), obs)

RECURSIVE UntilFrom(_)
UntilBranch(d) == IF is_val(d.z) THEN d ELSE UntilFrom(d)
UntilFrom(d) == IF child_count(d.z) = 1 THEN UntilBranch(DescendFirst(d.z, d.obs)) ELSE d
descend_until(z, obs) == UntilFrom(Obs(z, FALSE, obs))

\* descend_until_max_bytes_observed: a way longer than what remains is cut.
RECURSIVE AtMost(_, _)
CutWay(z, k, left, obs) == Obs(Went(z, Take(k, left)), TRUE, obs \o Take(k, left))
FullWay(d, node, left) == [d EXCEPT !.z = Enter(@, node)]
NextWay(d, left) == IF is_val(d.z) THEN d ELSE AtMost(d, left)
ByWay(d, w, left) ==
    CASE w.key = <<>> /\ w.node # NoLink -> AtMost(Obs(Enter(d.z, w.node), TRUE, d.obs), left)
      [] w.key = <<>> /\ w.node = NoLink -> d
      [] w.key # <<>> /\ left < Len(w.key) -> CutWay(d.z, w.key, left, d.obs)
      [] OTHER -> NextWay(FullWay(CutWay(d.z, w.key, Len(w.key), d.obs), w.node, left), left - Len(w.key))
AtMost(d, left) ==
    IF child_count(d.z) = 1 /\ left > 0
    THEN ByWay([d EXCEPT !.z = prepare_buffers(@)], FirstWay(d.z), left) ELSE d
descend_until_max_bytes(z, max, obs) == AtMost(Obs(z, FALSE, obs), max)

\* descend_to_existing: chunk by chunk, then back to what exists in the last node.
RECURSIVE Chunks(_, _)
FirstChunk(k) == Take(k, Min({Len(k), ChunkSize}))
Kept(z) == IF node_key(z) = <<>> THEN 0 ELSE node_key_overlap(z.focus_node, node_key(z))
TrimTo(z) == [z EXCEPT !.prefix_buf = Take(@, node_key_start(z) + Kept(z))]
AfterChunk(z, d, rest) == IF node_key_start(d) = node_key_start(z) THEN d ELSE Chunks(d, rest)
Chunks(z, k) ==
    IF k = <<>> THEN z ELSE AfterChunk(z, descend_to_internal(z, FirstChunk(k)), Drop(k, ChunkSize))
Descended(z, d) == Ans(d, Len(d.prefix_buf) - Len(z.prefix_buf))
ToExisting(z, k) ==
    IF ~path_exists(z) THEN Ans(z, 0) ELSE Descended(z, TrimTo(Chunks(z, k)))
descend_to_existing(z, k) == IF k = <<>> THEN Ans(z, 0) ELSE ToExisting(prepare_buffers(z), k)

----------------------------------------------------------------------------
(* Going up.                                                               *)

reascend_iter_token(z, count) ==
    CASE z.token = NODE_ITER_INVALID -> z
      [] z.token # NODE_ITER_INVALID /\ z.token.miss -> Invalid(z)
      [] OTHER -> [z EXCEPT !.token = ascend_iter_token(z.focus_node, @, count)]
Pop(z) == [z EXCEPT !.focus_node = Last(z.ancestors).node, !.token = Last(z.ancestors).token,
                    !.ancestors = Front(@)]
Cut(z, count) == [z EXCEPT !.prefix_buf = Take(@, Len(@) - count)]
UpBy(z, count) == IF count = 0 THEN z ELSE reascend_iter_token(Cut(z, count), count)
\* Out of the focus node when the focus is where it begins.
Out(z) == IF excess_key_len(z) = 0 /\ z.ancestors # <<>> THEN Pop(z) ELSE z

RECURSIVE AscendFrom(_, _, _)
AscendWithin(z, left, done) ==
    IF excess_key_len(z) = 0 THEN Ans(z, done)
    ELSE AscendFrom(UpBy(z, Min({left, excess_key_len(z)})), left - Min({left, excess_key_len(z)}),
                    done + Min({left, excess_key_len(z)}))
AscendFrom(z, left, done) == IF left = 0 THEN Ans(z, done) ELSE AscendWithin(Out(z), left, done)
ascend(z, steps) == IF at_root(z) THEN Ans(z, 0) ELSE AscendFrom(z, steps, 0)

AscendOne(z) == IF excess_key_len(z) = 0 THEN Ans(z, FALSE) ELSE Ans(UpBy(z, 1), TRUE)
ascend_byte(z) == IF at_root(z) THEN Ans(z, FALSE) ELSE AscendOne(Out(z))

ascend_across_nodes(z) == IF z.ancestors = <<>> THEN Invalid(z) ELSE Pop(z)
deregularize(z) == IF node_key(z) = <<>> THEN ascend_across_nodes(z) ELSE z
regularize(z) == IF node_key(z) = <<>> THEN z ELSE Linked(z)

\* Back to the last branch or value above the focus in its node, not above the root.
Above(z, prior) == Max({Len(z.origin_path), node_key_start(z) + Len(prior)})
ascend_within_node(z) == UpBy(z, Len(z.prefix_buf) - Above(z, prior_branch_key(z.focus_node, node_key(z))))
RECURSIVE UntilAbove(_, _)
StopAbove(u, vals) ==
    IF child_count(u) > 1 \/ (vals /\ is_val(u)) \/ at_root(u) THEN u ELSE UntilAbove(u, vals)
UntilAbove(z, vals) == StopAbove(ascend_within_node(deregularize(z)), vals)
Ascended(z, u) == Ans(u, Len(z.prefix_buf) - Len(u.prefix_buf))
ascend_until(z) == IF at_root(z) THEN Ans(z, 0) ELSE Ascended(z, UntilAbove(z, TRUE))
ascend_until_branch(z) == IF at_root(z) THEN Ans(z, 0) ELSE Ascended(z, UntilAbove(z, FALSE))

reset(z) ==
    [z EXCEPT !.focus_node = IF z.ancestors = <<>> THEN @ ELSE Head(z.ancestors).node, !.ancestors = <<>>,
              !.token = NODE_ITER_INVALID, !.prefix_buf = Take(@, Min({Len(@), Len(z.origin_path)}))]

----------------------------------------------------------------------------
(* Going across.                                                           *)

WithLast(z, b) == [z EXCEPT !.prefix_buf = Append(Front(@), b)]

\* The next item counts if it parts from the focus at its last byte.
IsSibling(key, it) ==
    it.tok # NODE_ITER_FINISHED /\ Len(it.key) >= Len(key) /\ IsPrefix(Front(key), it.key) /\ it.key[Len(key)] > Last(key)
SiblingToken(z, it, left) == IF left = 0 THEN it.tok ELSE ascend_iter_token(z.focus_node, it.tok, left)
EnterItem(z, it) == IF it.child = NoLink THEN z ELSE Push(z, it.tok, Len(z.prefix_buf), it.child)
ToSibling(z, it, key) ==
    IF Len(it.key) = Len(key)
    THEN Ans(EnterItem([WithLast(z, it.key[Len(key)]) EXCEPT !.token = it.tok], it), it.key[Len(key)])
    ELSE Ans([WithLast(z, it.key[Len(key)]) EXCEPT !.token = SiblingToken(z, it, Len(it.key) - Len(key))], it.key[Len(key)])
NextFrom(z, it) == IF IsSibling(node_key(z), it) THEN ToSibling(z, it, node_key(z)) ELSE Ans(regularize(z), None)
NextSibling(z) == NextFrom(z, next_items(z.focus_node, z.token, TRUE))
to_next_sibling_byte(z) == IF at_root(z) THEN Ans(z, None) ELSE NextSibling(Tokened(deregularize(z)))

\* The previous sibling may be in the focus node's parent: the focus node is exchanged or left.
InNode(z, s) == IF s.byte = None THEN Ans(z, None) ELSE Ans(Enter(Invalid(WithLast(z, s.byte)), s.node), s.byte)
ForgetToken(z) == [z EXCEPT !.ancestors[Len(z.ancestors)].token = NODE_ITER_INVALID]
InParent(z, s) ==
    CASE s.byte = None -> Ans(z, None)
      [] s.byte # None /\ s.node # NoLink -> Ans([ForgetToken(Invalid(WithLast(z, s.byte))) EXCEPT !.focus_node = s.node], s.byte)
      [] OTHER -> Ans(Pop(ForgetToken(WithLast(z, s.byte))), s.byte)
PrevSibling(z) ==
    CASE node_key(z) # <<>> -> InNode(z, get_prev_sibling(z.focus_node, node_key(z)))
      [] node_key(z) = <<>> /\ z.ancestors # <<>> -> InParent(z, get_prev_sibling(Last(z.ancestors).node, parent_key(z)))
      [] OTHER -> Ans(z, None)
to_prev_sibling_byte(z) == IF at_root(z) THEN Ans(z, None) ELSE PrevSibling(prepare_buffers(z))

----------------------------------------------------------------------------
(* Iteration.  The buffer goes back to where the focus node begins, and    *)
(* then on by an item's key.  The observer starts at the zipper's root, so *)
(* of an item that begins above the root it is told only what is below.    *)

Truncate(obs, n) == Take(obs, Len(obs) - n)
BelowRoot(z) == Max({0, Len(z.origin_path) - node_key_start(z)})     \* obs_skip
\* The observer goes back to where the focus node begins, or to the root, then along key.
Follows(z, obs, key) ==
    Truncate(obs, Len(z.prefix_buf) - Max({node_key_start(z), Len(z.origin_path)})) \o Drop(key, BelowRoot(z))

Item(z, it) ==
    [z EXCEPT !.prefix_buf = Take(@, node_key_start(z)) \o it.key, !.token = it.tok]
ThroughItem(z, it) ==
    IF it.child = NoLink THEN z ELSE [Push(z, it.tok, Len(z.prefix_buf), it.child) EXCEPT !.token = new_iter_token(it.child)]
ToRoot(z, obs) ==
    Obs([Invalid(z) EXCEPT !.prefix_buf = Take(@, Len(z.origin_path))], FALSE, Truncate(obs, Len(z.prefix_buf) - Len(z.origin_path)))

\* A branch that forks off above the root is not followed.
Outside(z, it) ==
    /\ node_key_start(z) < Len(z.origin_path)
    /\ ~IsPrefix(SubSeq(z.prefix_buf, node_key_start(z) + 1, Len(z.origin_path)), it.key)

\* to_next_get_val_observed
RECURSIVE NextVal(_, _)
PopNode(z) == [Pop(z) EXCEPT !.prefix_buf = Take(@, Last(z.ancestors).at)]
PopObs(z, obs) == Truncate(obs, Len(z.prefix_buf) - Last(z.ancestors).at)
OnItem(z, it, obs) ==
    IF it.val # NoVal THEN Obs(ThroughItem(Item(z, it), it), TRUE, obs) ELSE NextVal(ThroughItem(Item(z, it), it), obs)
ValItem(z, it, obs) ==
    CASE it.tok # NODE_ITER_FINISHED /\ Outside(z, it) -> ToRoot(z, obs)
      [] it.tok # NODE_ITER_FINISHED /\ ~Outside(z, it) -> OnItem(z, it, Follows(z, obs, it.key))
      [] it.tok = NODE_ITER_FINISHED /\ z.ancestors # <<>> -> NextVal(PopNode(z), PopObs(z, obs))
      [] OTHER -> ToRoot(z, obs)
ItemAfter(z) == IF z.token.at = LastAt THEN Exhausted ELSE next_items(z.focus_node, z.token, FALSE)
ValFrom(z, obs) == ValItem(z, ItemAfter(z), obs)
NextVal(z, obs) == ValFrom(Tokened(z), obs)
to_next_val(z, obs) == NextVal(prepare_buffers(z), obs)

\* k_path_internal: the next path of `target` bytes of buffer that leaves the first `base` as they are.
RECURSIVE KPath(_, _, _, _, _)
BackToBase(z, base, obs) ==
    Obs(UpBy(z, Len(z.prefix_buf) - base), FALSE, Truncate(obs, Len(z.prefix_buf) - base))
OffBase(z, it, base) ==
    node_key_start(z) < base /\ ~IsPrefix(SubSeq(z.prefix_buf, node_key_start(z) + 1, base), it.key)
Trimmed(z, it, excess) == [Cut(Item(z, it), excess) EXCEPT !.token = ascend_iter_token(z.focus_node, it.tok, excess)]
OrOn(z, target, base, obs) ==
    IF Len(z.prefix_buf) = target THEN Obs(z, TRUE, obs) ELSE KPath(z, target, base, FALSE, obs)
KOnItem(z, it, target, base, obs) ==
    IF node_key_start(z) + Len(it.key) > target
    THEN Obs(Trimmed(z, it, node_key_start(z) + Len(it.key) - target), TRUE,
             Follows(z, obs, Take(it.key, target - node_key_start(z))))
    ELSE OrOn(ThroughItem(Item(z, it), it), target, base, Follows(z, obs, it.key))
KItem(z, it, target, base, obs) ==
    CASE it.tok # NODE_ITER_FINISHED /\ OffBase(z, it, base) -> BackToBase(z, base, obs)
      [] it.tok # NODE_ITER_FINISHED /\ ~OffBase(z, it, base) -> KOnItem(z, it, target, base, obs)
      [] it.tok = NODE_ITER_FINISHED /\ node_key_start(z) <= base -> BackToBase(z, base, obs)
      [] it.tok = NODE_ITER_FINISHED /\ node_key_start(z) > base /\ z.ancestors # <<>> ->
           KPath(PopNode(z), target, base, FALSE, PopObs(z, obs))
      [] OTHER -> ToRoot(z, obs)
KPath(z, target, base, after, obs) ==
    KItem(Tokened(z), next_items(z.focus_node, Tokened(z).token, after \/ z.token = NODE_ITER_INVALID), target, base, obs)

KFirst(z, k, obs) ==
    KPath([z EXCEPT !.token = iter_token_for_path(z.focus_node, node_key(z))],
          Len(z.prefix_buf) + k, Len(z.prefix_buf), FALSE, obs)
descend_first_k_path(z, k, obs) == IF k = 0 THEN Obs(z, FALSE, obs) ELSE KFirst(prepare_buffers(z), k, obs)

\* The path's length is taken from the buffer, which is shorter than the origin
\* path until it is filled: the subtraction overflows.
Overflows(z) == Len(z.prefix_buf) < Len(z.origin_path)
KNext(z, k, obs) ==
    IF depth(z) < k THEN Obs(reset(z), FALSE, Truncate(obs, depth(z)))
    ELSE KPath(deregularize(z), Len(z.prefix_buf), Len(z.prefix_buf) - k, TRUE, obs)
to_next_k_path(z, k, obs) == IF Overflows(z) THEN Obs(z, Panicked, obs) ELSE KNext(z, k, obs)

----------------------------------------------------------------------------
(* What it takes from the traits as they provide it.                       *)

Moving == INSTANCE ZipperMoving
Iteration == INSTANCE ZipperIteration WITH descend_until <- descend_until
descend_to_val(z, k) == Moving!descend_to_val(z, k)
move_to_path(z, q) == Moving!move_to_path(z, q)
to_next_step(z, obs) == Iteration!provided_to_next_step(z, obs)
descend_last_path(z, obs) == Iteration!provided_descend_last_path(z, obs)
LastVal == INSTANCE ZipperLastVal
descend_last_val(z, obs) == LastVal!provided_descend_last_val(z, obs)

----------------------------------------------------------------------------
(* Iterators: everything a zipper comes to from where it is.               *)

RECURSIVE ItemsAfter(_), EndsAfter(_)
ItemsFrom(r) == IF r.ret THEN << <<path(r.z), get_val(r.z)>> >> \o ItemsAfter(r.z) ELSE <<>>
ItemsAfter(z) == ItemsFrom(to_next_val(z, path(z)))
into_iter(z) == (IF is_val(z) THEN << <<path(z), get_val(z)>> >> ELSE <<>>) \o ItemsAfter(z)

EndAt(z) == IF path_exists(z) /\ child_count(z) = 0 THEN <<path(z)>> ELSE <<>>
EndsFrom(r) == IF r.ret THEN EndAt(r.z) \o EndsAfter(r.z) ELSE <<>>
EndsAfter(z) == EndsFrom(to_next_step(z, path(z)))
into_path_iter(z) == EndsAfter(z)

----------------------------------------------------------------------------
(* What every zipper satisfies.                                            *)

\* Which node each node on the stack leads to.
ReachesNext(z, i) ==
    LET from == IF i = 1 THEN z.root_key_start ELSE z.ancestors[i - 1].at
        next == IF i = Len(z.ancestors) THEN z.focus_node ELSE z.ancestors[i + 1].node
    IN node_get_child(z.ancestors[i].node, SubSeq(z.prefix_buf, from + 1, z.ancestors[i].at))
         = [len |-> z.ancestors[i].at - from, of |-> next]
StackLeadsToFocus(z) == \A i \in DOMAIN z.ancestors : ReachesNext(z, i)

\* A node has one token for each of its paths, however the zipper came to it.
CanonicalAt(n, tok, key) == tok # NODE_ITER_INVALID => tok = iter_token_for_path(n, key)
KeyOn(z, i) ==
    SubSeq(z.prefix_buf, (IF i = 1 THEN z.root_key_start ELSE z.ancestors[i - 1].at) + 1, z.ancestors[i].at)
TokensCanonical(z) ==
    /\ CanonicalAt(z.focus_node, z.token, node_key(z))
    /\ \A i \in DOMAIN z.ancestors : CanonicalAt(z.ancestors[i].node, z.ancestors[i].token, KeyOn(z, i))
=============================================================================
