----------------------------- MODULE ZipperCalls -----------------------------
(***************************************************************************)
(* A client calls the methods of a zipper, of any of the kinds there are,  *)
(* in any order, and follows its path by what the calls answer and by what *)
(* they tell an observer.                                                  *)
(***************************************************************************)
EXTENDS AnyZipper

CONSTANTS
    Keys,           \* the keys clients descend by
    Steps,          \* the numbers of bytes they move by
    MaxDepth,       \* how far below the origin a zipper goes
    ArchiveDepth,   \* and one over an archive
    Everywhere,     \* also the calls that are known not to keep the promise
    Maps,           \* maps, each a root node and a root value; read zippers are made at each of Keys
    Wrapped,        \* maps whose read zippers are behind the enum of PolyZipper
    Prefixed,       \* for prefix zippers: a map, a prefix and how much of it is above the root
    Overlaid,       \* for overlay zippers: pairs of maps
    Subtracted,     \* for subtract zippers: pairs of maps, and where in them the zipper is made
    Multiplied,     \* for both product zippers: sequences of maps
    Enrolled,       \* for dependent zippers: a map, and a map for each of some paths
    Archived,       \* the nodes whose maps are archived
    Updates,        \* maps that are merged into archives
    MaxMerges,      \* how often one is
    Opened          \* the paths at which archives are opened

VARIABLES
    z,          \* the zipper: its kind and its state
    obs,        \* the path its client has followed
    trie,       \* what it is a zipper over
    answer,     \* the last call
    turn        \* alternates with each call

vars == <<turn, z, obs, trie, answer>>

Arenas == INSTANCE Arena

----------------------------------------------------------------------------
(* The tries that product zippers stand for (src/src/product_zipper.rs,    *)
(* src/src/dependent_zipper.rs): where a path of one factor ends the next  *)
(* begins.  A value at the root of a factor counts for nothing, the one at *)
(* the end of the path before it does.                                     *)

PathEnds(t) == {p \in t.paths : C!MaskAt(t, p) = {}}
PairsOf(t) == {<<p, t.val[p]>> : p \in DOMAIN t.val}
ByPath(V) == [p \in {v[1] : v \in V} |-> (CHOOSE v \in V : v[1] = p)[2]]

\* The tries of u, a function from path ends of t, each behind its own.
Behind(u) == UNION {{e \o q : q \in u[e].paths} : e \in DOMAIN u}
ValsBehind(u) == UNION {{<<e \o v[1], v[2]>> : v \in {w \in PairsOf(u[e]) : w[1] # <<>>}} : e \in DOMAIN u}
Joined(t, u) == [paths |-> t.paths \cup Behind(u), val |-> ByPath(PairsOf(t) \cup ValsBehind(u))]

\* The same trie behind every end; or one chosen by the whole path up to it.
ProductOf(tries) == FoldRight(LAMBDA t, rest : Joined(t, [e \in PathEnds(t) |-> rest]), Front(tries), Last(tries))
RECURSIVE DependentFrom(_, _, _)
DependentFrom(t, base, chosen) ==
    Joined(t, [e \in {p \in PathEnds(t) : base \o p \in DOMAIN chosen} |->
                   DependentFrom(chosen[base \o e], base \o e, chosen)])
DependentOn(t, chosen) == DependentFrom(t, <<>>, chosen)

\* The depths at which the path q goes from one factor into the next.
RECURSIVE JoinsAlong(_, _, _)
AfterEnd(e, q, tries, base) ==
    <<base + Len(e)>> \o JoinsAlong(SubSeq(q, Len(e) + 1, Len(q)), Tail(tries), base + Len(e))
JoinsAlong(q, tries, base) ==
    LET ends == {e \in PathEnds(Head(tries)) : IsPrefix(e, q)}
    IN IF Len(tries) = 1 \/ ends = {} THEN <<>> ELSE AfterEnd(C!Longest(ends), q, tries, base)

----------------------------------------------------------------------------
\* The paths and the values that a node holds.
RECURSIVE NodePaths(_), NodeVals(_)
Under(k, below) == {k \o p : p \in below}
SlotPaths(x) == Prefixes(x.key) \cup (IF x.child THEN Under(x.key, NodePaths(x.of)) ELSE {})
CellPaths(b, c) == {<<b>>} \cup (IF c.rec # R!NoLink THEN Under(<<b>>, NodePaths(c.rec)) ELSE {})
NodePaths(n) ==
    CASE n.tag = "list" -> {<<>>} \cup UNION {SlotPaths(n.slots[i]) : i \in DOMAIN n.slots}
      [] n.tag = "byte" -> {<<>>} \cup UNION {CellPaths(b, n.cells[b]) : b \in DOMAIN n.cells}
      [] OTHER -> {<<>>}
Pairs(k, below) == {<<k \o p[1], p[2]>> : p \in below}
SlotVals(x) == IF x.child THEN Pairs(x.key, NodeVals(x.of)) ELSE {<<x.key, x.of>>}
CellVals(b, c) ==
    (IF c.val # NoVal THEN {<< <<b>>, c.val>>} ELSE {}) \cup (IF c.rec # R!NoLink THEN Pairs(<<b>>, NodeVals(c.rec)) ELSE {})
NodeVals(n) ==
    CASE n.tag = "list" -> UNION {SlotVals(n.slots[i]) : i \in DOMAIN n.slots}
      [] n.tag = "byte" -> UNION {CellVals(b, n.cells[b]) : b \in DOMAIN n.cells}
      [] OTHER -> {}
RootVals(m) == IF m.val = NoVal THEN {} ELSE {<< <<>>, m.val>>}
TrieIn(m) == [paths |-> NodePaths(m.root), val |-> ByPath(NodeVals(m.root) \cup RootVals(m))]
NodeTrie(n) == [paths |-> NodePaths(n), val |-> ByPath(NodeVals(n))]

----------------------------------------------------------------------------
(* Zippers of every kind, and the tries they are zippers over.             *)

Over(m) == C!new_cursor(TrieIn(m))
Tries(s) == [i \in DOMAIN s |-> TrieIn(s[i])]
Begin(kind, of, t) == z = [kind |-> kind, of |-> of] /\ trie = t
Product(s) == P!new(R!take_core(R!read_zipper(s[1])), [i \in 1..(Len(s) - 1) |-> s[i + 1].root])
Generic(s) == G!new(Over(s[1]), [i \in 1..(Len(s) - 1) |-> Over(s[i + 1])], <<>>)
Dependent(w) == D!new(Over(w.map), <<>>, [p \in DOMAIN w.after |-> Over(w.after[p])])

Started ==
    \/ \E m \in Maps, p \in Keys :
         Begin("read", R!read_zipper_at_borrowed_path(m, p), C!SubtrieAt(TrieIn(m), p))
    \/ \E m \in Wrapped, p \in Keys :
         \E y \in {R!read_zipper_at_path(m, p), R!ReadZipperOwned(m, p), R!new_isolated_cloned_path(m.root, p, m.val)} :
             Begin("read", y, C!SubtrieAt(TrieIn(m), p))
    \/ \E m \in Wrapped : Begin("poly", R!read_zipper(m), TrieIn(m))
    \/ \E w \in Prefixed :
         Begin("prefix", X!new(w.prefix, Over(w.map), w.origin), X!TrieOver(w.prefix, TrieIn(w.map), w.origin))
    \/ \E w \in Overlaid :
         Begin("overlay", O!new(Over(w[1]), Over(w[2])), O!TrieOver(TrieIn(w[1]), TrieIn(w[2])))
    \/ \E w \in Subtracted :
         Begin("subtract", S!new(Over(w.lhs), Over(w.rhs), w.at), C!SubtrieAt(S!TrieOver(TrieIn(w.lhs), TrieIn(w.rhs)), w.at))
    \/ \E s \in Multiplied : Begin("product", Product(s), ProductOf(Tries(s)))
    \/ \E s \in Multiplied : Begin("generic", Generic(s), ProductOf(Tries(s)))
    \/ \E w \in Enrolled :
         Begin("dependent", Dependent(w), DependentOn(TrieIn(w.map), [p \in DOMAIN w.after |-> TrieIn(w.after[p])]))
    \/ Begin("empty", E!new_at_path(<<>>), [paths |-> {}, val |-> <<>>])

----------------------------------------------------------------------------
(* Calls.  The client keeps the path by what it is told.                   *)

Nothing == [none |-> TRUE]
NoByte == -1
Byte == {Last(k) : k \in Keys \ {<<>>}}
Back(n) == SubSeq(obs, 1, Len(obs) - n)
Beside(b) == IF b = NoByte THEN obs ELSE Append(Back(1), b)
Below(b) == IF b = NoByte THEN obs ELSE Append(obs, b)

Init ==
    /\ Started
    /\ obs = <<>>
    /\ answer = [op |-> "new", arg |-> Nothing, ret |-> Nothing]
    /\ turn = FALSE

Answered(op, arg, ret) == answer' = [op |-> op, arg |-> arg, ret |-> ret] /\ turn' = ~turn
Answer(op, arg, ret) == Answered(op, arg, ret) /\ UNCHANGED trie
Moved(op, arg, y, o) == z' = y /\ obs' = o /\ Answer(op, arg, Nothing)
Did(op, arg, r, o) == z' = r.z /\ obs' = o /\ Answer(op, arg, r.ret)
Watched(op, arg, r) == z' = r.z /\ obs' = r.obs /\ Answer(op, arg, r.ret)
DidBelow(op, arg, r) == z' = r.z /\ obs' = Below(r.ret) /\ Answer(op, arg, r.ret)
DidBeside(op, r) == z' = r.z /\ obs' = Beside(r.ret) /\ Answer(op, Nothing, r.ret)
DidUp(op, arg, r) == z' = r.z /\ obs' = Back(r.ret) /\ Answer(op, arg, r.ret)
DidIf(op, arg, r, o) == z' = r.z /\ obs' = (IF r.ret THEN o ELSE obs) /\ Answer(op, arg, r.ret)
DidSome(op, k, r) == z' = r.z /\ obs' = obs \o SubSeq(k, 1, r.ret) /\ Answer(op, k, r.ret)

\* Where the promise is not kept (see the README): read zippers go on by no bytes, or
\* before their buffer is filled; prefix zippers off the prefix; subtract zippers
\* do not find a path of k bytes, or go on by more bytes than there are; product
\* zippers are asked for no bytes where the focus does not exist; overlays do not
\* look past a path of one source without a value, nor stop at branches that
\* neither source has.
UntilKept == Everywhere \/ (z.kind = "overlay" => ~O!HasLooseEnds(z.of))
BranchKept == Everywhere \/ (z.kind = "overlay" => O!BranchesAreOwn(z.of))
CheckKept(k) == Everywhere \/ (z.kind = "product" => k # <<>>)
NextKKept(n) ==
    \/ Everywhere
    \/ /\ z.kind \in ByNodes => n > 0 /\ ~R!Overflows(z.of)
       /\ z.kind = "subtract" => n <= depth(z)
FirstKKept(n) == Everywhere \/ (z.kind = "subtract" => S!descend_first_k_path(z.of, n, obs).ret)
OnPrefix == Everywhere \/ (z.kind = "prefix" => ~X!is_invalid(z.of))
NextValKept == Everywhere \/ (z.kind = "empty" => at_root(z))

DepthBound == IF z.kind = "act" THEN ArchiveDepth ELSE MaxDepth
Room(k) == Depth(z) + Len(k) <= DepthBound
DescendTo(k) == Room(k) /\ Moved("descend_to", k, descend_to(z, k), obs \o k)
DescendToCheck(k) == CheckKept(k) /\ Room(k) /\ Did("descend_to_check", k, descend_to_check(z, k), obs \o k)
DescendToExisting(k) == DidSome("descend_to_existing", k, descend_to_existing(z, k))
DescendToVal(k) == DidSome("descend_to_val", k, descend_to_val(z, k))
MoveToPath(k) == Depth(z) - depth(z) + Len(k) <= DepthBound /\ Did("move_to_path", k, move_to_path(z, k), k)
DescendToByte(b) == Room(<<b>>) /\ Moved("descend_to_byte", b, descend_to_byte(z, b), Below(b))
DescendToExistingByte(b) == DidIf("descend_to_existing_byte", b, descend_to_existing_byte(z, b), Below(b))
DescendIndexedByte(n) == DidBelow("descend_indexed_byte", n, descend_indexed_byte(z, n))
DescendFirstByte == DidBelow("descend_first_byte", Nothing, descend_first_byte(z))
DescendLastByte == DidBelow("descend_last_byte", Nothing, descend_last_byte(z))
DescendUntil == UntilKept /\ Watched("descend_until", Nothing, descend_until(z, obs))
DescendUntilMaxBytes(n) == UntilKept /\ Watched("descend_until_max_bytes", n, descend_until_max_bytes(z, n, obs))
Ascend(n) == DidUp("ascend", n, ascend(z, n))
AscendByte == DidIf("ascend_byte", Nothing, ascend_byte(z), Back(1))
AscendUntil == BranchKept /\ DidUp("ascend_until", Nothing, ascend_until(z))
AscendUntilBranch == BranchKept /\ DidUp("ascend_until_branch", Nothing, ascend_until_branch(z))
ToNextSiblingByte == OnPrefix /\ DidBeside("to_next_sibling_byte", to_next_sibling_byte(z))
ToPrevSiblingByte == OnPrefix /\ DidBeside("to_prev_sibling_byte", to_prev_sibling_byte(z))
ToNextStep == OnPrefix /\ Watched("to_next_step", Nothing, to_next_step(z, obs))
Reset == Moved("reset", Nothing, reset(z), <<>>)
ToNextVal == NextValKept /\ Watched("to_next_val", Nothing, to_next_val(z, obs))
DescendLastPath == Watched("descend_last_path", Nothing, descend_last_path(z, obs))
DescendLastVal == Watched("descend_last_val", Nothing, descend_last_val(z, obs))
DescendFirstKPath(n) == FirstKKept(n) /\ Watched("descend_first_k_path", n, descend_first_k_path(z, n, obs))
ToNextKPath(n) == OnPrefix /\ NextKKept(n) /\ Watched("to_next_k_path", n, to_next_k_path(z, n, obs))

\* An ACTZipper counts from its root, wherever it is.
CountKept == Everywhere \/ (z.kind = "act" => at_root(z))
ValCount == CountKept /\ z.kind \in Counts /\ OnPrefix /\ Did("val_count", Nothing, val_count(z), obs)

\* The client goes on with a zipper of its own, rooted where this one stands.
Fork ==
    /\ forkable(z) /\ path(z) # <<>>
    /\ z' = fork_read_zipper(z) /\ obs' = <<>>
    /\ trie' = C!SubtrieAt(trie, path(z))
    /\ Answered("fork_read_zipper", Nothing, Nothing)

\* A copy of the zipper goes on instead of it.
Clone == z.kind = "read" /\ Moved("clone", Nothing, [z EXCEPT !.of = R!clone(z.of)], obs)

----------------------------------------------------------------------------
(* Archives.  The client goes on with a read zipper of an arena.           *)

\* An arena, whether it is as a fold without sharing makes it, and the tries that its
\* roots are to read as.
Archive(tree, plain, before) == [kind |-> "act", of |-> Z!from_tree(tree), plain |-> plain, before |-> before]
Plain(op) == op = "from_zipper" \/ (op = "from_zipper_cached" /\ z.kind = "act")
\* The root of an arena is always there.
Rooted(t) == [t EXCEPT !.paths = @ \cup {<<>>}]
OnlyVals(t) == Rooted([t EXCEPT !.paths = UNION {C!Prefixes(p) : p \in DOMAIN t.val}])
Union(t, u) == [paths |-> t.paths \cup u.paths, val |-> u.val @@ t.val]

InArchive(op, arg, tree, before, t) ==
    z' = Archive(tree, Plain(op), before) /\ obs' = <<>> /\ trie' = t /\ Answered(op, arg, Nothing)
Whole == z.kind = "act" /\ z.of.origin_depth = 0
ToArchive ==
    CASE z.kind = "read" -> R!Root(z.of) \in Archived /\ z.of.origin_path = <<>>
      [] z.kind = "product" -> R!Root(z.of.core) \in Archived
      [] OTHER -> Whole
\* A fold begins with a reset; it is called at the root and one byte below that of a map.
Near == foldable(z) /\ Len(obs) <= IF z.kind = "act" THEN 0 ELSE 1
FromZipper == Near /\ ToArchive /\ InArchive("from_zipper", Nothing, from_zipper(z), <<Rooted(trie)>>, Rooted(trie))
FromZipperCached ==
    Near /\ ToArchive /\ InArchive("from_zipper_cached", Nothing, from_zipper_cached(z), <<Rooted(trie)>>, Rooted(trie))

\* The values in order, and all of them again, which are refused.
ValuesOf(t) == LET less(p, q) == Arenas!Before(p[1], q[1]) IN SetToSortSeq({<<p, t.val[p]>> : p \in DOMAIN t.val}, less)
Stream ==
    /\ z.kind = "read" /\ ToArchive /\ trie.val # <<>>
    /\ InArchive("stream", Nothing, Arenas!stream(ValuesOf(trie) \o ValuesOf(trie), 1), <<OnlyVals(trie)>>, OnlyVals(trie))

\* A root is kept for each merge that changed something.
Roots(u) == IF Union(z.before[1], u) = z.before[1] THEN z.before ELSE <<Union(z.before[1], u)>> \o z.before
Merge(m) ==
    /\ Whole /\ Len(z.before) <= MaxMerges
    /\ InArchive("merge", TrieIn(m), FoldRead!merge_zipper_into(z.of.tree, R!read_zipper(m)),
                  Roots(TrieIn(m)), Union(trie, TrieIn(m)))

\* read_zipper_at_path, also where nothing is.
OpenAt(k) ==
    /\ Whole
    /\ z' = [z EXCEPT !.of = Z!read_zipper_at_path(z.of.tree, k)] /\ obs' = <<>>
    /\ trie' = C!SubtrieAt(trie, k)
    /\ Answered("read_zipper_at_path", k, Nothing)

\* The folds that a client's algebra is given to; this one makes the trie again.
Cata(cached, jumping) == Near /\ Answer("cata", <<cached, jumping>>, cata(z, cached, jumping)) /\ UNCHANGED <<z, obs>>

\* The same in a file: what is read from it again, and its metadata. The promise is not kept
\* where a line that was taken back is longer than what has been written over it.
FileKept(file) == Everywhere \/ ~file.tail
WriteTrie ==
    /\ Near /\ ToArchive
    /\ \E file \in {write_trie(z)} :
       /\ FileKept(file)
       /\ Answer("write_trie", Nothing, [read |-> File!deserialize_file(file), val_count |-> file.val_count, max_len |-> file.max_len])
    /\ UNCHANGED <<z, obs>>

\* The paths to the values from the focus on, read in pieces of n bytes.
StreamPaths(n) ==
    /\ n > 0 /\ (obs = <<>> \/ (Len(obs) = 1 /\ z.kind \in ByNodes)) /\ OnPrefix /\ z.kind # "empty"
    /\ \E out \in {serialize_paths_with_auxdata(z)} :
       Answer("serialize_paths", n, File!deserialize_paths_with_auxdata(out.stream, n, out.aux).vals)
    /\ UNCHANGED <<z, obs>>

\* Unordered paths, each of them twice, sorted with little memory.
SortMemory(n) == [bytes |-> 3 * n, entries |-> n, max_path |-> n + 1]
Unordered == LET s == [i \in DOMAIN ValuesOf(trie) |-> ValuesOf(trie)[i][1]] IN Reverse(s) \o s
SortPaths(n) ==
    /\ n > 0 /\ z.kind = "read" /\ obs = <<>>
    /\ \E s \in {File!sort_paths(Unordered, SortMemory(n))} :
       Answer("sort_paths", n, [ok |-> s.ok, paths |-> s.final, bounded |-> s.peak <= 2 * File!OnDisk(Unordered)])
    /\ UNCHANGED <<z, obs>>

Archives ==
    \/ WriteTrie
    \/ \E n \in Steps : StreamPaths(n) \/ SortPaths(n)
    \/ \E cached, jumping \in BOOLEAN : Cata(cached, jumping)
    \/ FromZipper \/ FromZipperCached \/ Stream
    \/ \E m \in Updates : Merge(m)
    \/ \E k \in Opened : OpenAt(k)

Next ==
    \/ Archives
    \/ \E k \in Keys :
         \/ DescendTo(k) \/ DescendToCheck(k) \/ DescendToExisting(k) \/ DescendToVal(k) \/ MoveToPath(k)
    \/ \E b \in Byte : DescendToByte(b) \/ DescendToExistingByte(b)
    \/ \E n \in Steps :
         \/ DescendIndexedByte(n) \/ DescendUntilMaxBytes(n) \/ Ascend(n)
         \/ DescendFirstKPath(n) \/ ToNextKPath(n)
    \/ DescendFirstByte \/ DescendLastByte \/ DescendUntil
    \/ AscendByte \/ AscendUntil \/ AscendUntilBranch
    \/ ToNextSiblingByte \/ ToPrevSiblingByte \/ ToNextStep \/ Reset
    \/ ToNextVal \/ DescendLastPath \/ DescendLastVal
    \/ ValCount \/ Fork \/ Clone

Spec == Init /\ [][Next]_vars

----------------------------------------------------------------------------
Here == [trie |-> trie, focus |-> path(z)]
ValAt(t, p) == IF p \in DOMAIN t.val THEN t.val[p] ELSE NoVal

\* The paths are paths, the trie is closed under prefixes, and the zipper stays
\* within the bound: no call leaves a byte in a path buffer that is not one.
TypeOK ==
    /\ z.kind \in {"read", "poly", "prefix", "overlay", "subtract", "product", "generic", "dependent", "act", "empty"}
    /\ {obs, path(z)} \cup trie.paths \subseteq Path
    /\ Len(obs) <= MaxDepth
    /\ \A p \in trie.paths : C!Prefixes(p) \subseteq trie.paths
    /\ DOMAIN trie.val \subseteq trie.paths

\* A client that only follows the answers and the PathObserver knows where the
\* zipper is: what a walk reports (zipper.rs, the _observed methods) is exactly the
\* movement it made, also where it overshoots and goes back.
ObserverInStep == obs = path(z)

\* A reference reads as the trie does, and so do what is made of it: a map, a zipper.
RefReads(t, p) ==
    LET there == [trie |-> trie, focus |-> p] IN
    /\ TR!Seen(t) = [path_exists |-> C!path_exists(there), val |-> ValAt(trie, p),
                     child_count |-> C!child_count(there), child_mask |-> C!child_mask(there)]
    /\ TR!get_val_with_witness(t, TR!witness(t)) = ValAt(trie, p)
    /\ TrieIn(TR!make_map(t)) = Rooted(C!SubtrieAt(trie, p))
    /\ TR!is_valid(t) =>
         LET f == TR!fork_read_zipper(t) IN
         R!path_exists(f) /\ R!get_val(f) = ValAt(trie, p) /\ R!child_mask(f) = C!child_mask(there)
RefsOf(y, k) == {TR!TrackedAt(y, k), TR!UntrackedAt(y, k)}
\* From a reference at the focus, further ones are reached as from the zipper; a reference
\* of the map below the focus reads the same, if there is a node in it.
RefsRead(y) ==
    /\ \A k \in Keys : \A t \in RefsOf(y, k) : RefReads(t, path(z) \o k)
    /\ \A k \in Keys : \A t \in RefsOf(y, <<>>) :
         /\ TR!val_at(t, k) = ValAt(trie, path(z) \o k)
         /\ TR!Seen(TR!trie_ref_at_path(t, k)) = TR!Seen(TR!UntrackedAt(y, k))
         /\ TR!into_option(TR!get_focus_at(t, k)) = TR!into_option(TR!FocusAt(y, k))
    /\ \A t \in RefsOf(y, <<>>) :
         /\ TR!make_map(t) = TR!MapAt(y)
         /\ TR!into_option(TR!get_focus(t)) = TR!MapAt(y).root
         /\ TR!shared_node_id(t) = R!shared_node_id(y)
         /\ TR!try_borrow_focus(t) = (IF path_exists(z) THEN TR!BorrowFocus(y) ELSE TR!NoLink)
    /\ TR!BorrowFocus(y) = (IF R!node_key(y) = <<>> THEN y.focus_node ELSE TR!NoLink)
    /\ TR!MapAt(y).root # TR!NoNode => RefReads(TR!FromMap(TR!MapAt(y)), path(z))
    /\ \A k \in Keys : TR!Seen(TR!AtPathOf(TR!MapAt(y), k)).val = TR!GetValAt(y, k)
    /\ \A owned \in BOOLEAN : TR!ValWithWitness(y, TR!ZipperWitness(y, owned)) = R!get_val(y)
\* What the iterators go through, in order.
InOrder(s) == SetToSortSeq(s, Arenas!Before)
Iterates(y) ==
    /\ R!into_iter(y) = ValuesOf(trie)
    /\ R!into_path_iter(y) = InOrder({p \in trie.paths \ {<<>>} : C!child_mask([trie |-> trie, focus |-> p]) = {}})

\* Whatever calls led there, path_exists, val, child_mask, child_count, at_root and
\* focus_byte answer for the trie that the zipper stands for, also in a place where
\* nothing is, and from caches that movements kept.  References to the places around it
\* (trie_ref_at_path, get_trie_ref, val_at) answer for it as well, also where key and path
\* together are longer than the buffer of a reference; so do iterators from the root.
Reads ==
    /\ path_exists(z) = C!path_exists(Here)
    /\ is_val(z) = C!is_val(Here)
    /\ get_val(z) = (IF C!is_val(Here) THEN trie.val[path(z)] ELSE NoVal)
    /\ child_mask(z) = C!child_mask(Here)
    /\ child_count(z) = C!child_count(Here)
    /\ at_root(z) = (path(z) = <<>>)
    /\ at_root(z) \/ focus_byte(z) = C!focus_byte(Here)
    /\ z.kind = "act" => \A k \in Keys : Z!get_value_at(z.of, k) = ValAt(trie, path(z) \o k)
    /\ z.kind = "read" => RefsRead(z.of) /\ (at_root(z) => Iterates(z.of))

\* The stack of a ReadZipperCore is a way through the nodes: each entry's key in its
\* node leads to the node of the next, and the last to the focus node.
StackLeadsToFocus ==
    /\ z.kind \in ByNodes => R!StackLeadsToFocus(z.of) /\ R!is_regularized(z.of)
    /\ z.kind = "act" => Z!StackLeadsToFocus(z.of)
\* What the focus went through.
FactorTries ==
    CASE z.kind = "product" -> <<NodeTrie(R!Root(z.of.core))>> \o [i \in DOMAIN z.of.secondaries |-> NodeTrie(z.of.secondaries[i])]
      [] z.kind = "generic" -> <<z.of.primary.trie>> \o [i \in DOMAIN z.of.secondary |-> z.of.secondary[i].trie]
FactorsOnPath == z.of.factor_paths = JoinsAlong(path(z), FactorTries, 0)

\* The zippers that a combinator is made of stand where its focus is: at its own
\* path (overlay, subtract), past the prefix, or where each factor's part leads.  A
\* product zipper has entered exactly the factors that its path goes through, at the
\* depths where they join: it leaves and re-enters them as the focus moves.
SourcesAligned ==
    /\ z.kind = "prefix" => X!PositionOk(z.of)
    /\ z.kind = "overlay" => O!Aligned(z.of)
    /\ z.kind = "subtract" => S!Aligned(z.of)
    /\ z.kind = "generic" => G!FactorsAligned(z.of)
    /\ z.kind = "dependent" => D!FactorsAligned(z.of)
    /\ z.kind \in {"product", "generic"} => FactorsOnPath

\* A SubtractZipper shows a byte exactly if the subtraction of what is below is not
\* empty, as subtree_has_difference (subtract_zipper.rs:741) is to find out.
ChildrenHaveDifference == z.kind = "subtract" => child_mask(z) = C!child_mask(Here)

\* What a zipper keeps besides its focus is still so at the place it has moved to since:
\* the token of a ReadZipperCore for a node, through descents, ascents and re-entries
\* (reascend_iter_token), is the one that iter_token_for_path finds there afresh; what a
\* SubtractZipper found out (probes of children, the survival witness, the count) holds;
\* and the next child that a frame of an ACTZipper knows of is the one after the last.
CachesHold ==
    /\ z.kind \in ByNodes => R!TokensCanonical(z.of)
    /\ z.kind = "subtract" => S!FactsHold(z.of, trie)
    /\ z.kind = "act" => Z!NextKnown(z.of)

\* What an arena's roots (root_history) read as is what was archived and what was
\* merged: a merge reuses what is there and leaves the old roots as they were, shared
\* nodes are written once, and a merge that adds nothing leaves no root.
ArenaHolds ==
    z.kind = "act" =>
        LET roots == FoldRead!root_history(z.of.tree) IN
        /\ Len(roots) = Len(z.before)
        /\ \A p \in z.before[1].paths : Arenas!get_val_at(z.of.tree, p) = ValAt(z.before[1], p)
        /\ \A i \in DOMAIN roots : Arenas!TrieUnder(z.of.tree, roots[i]) = [paths |-> z.before[i].paths,
                                      val |-> {<<p, z.before[i].val[p]>> : p \in DOMAIN z.before[i].val}]

\* The documentation of from_zipper and from_zipper_cached (arena_compact.rs:893, 916): an
\* arena made of an arena's own zipper is the same arena again, whichever builder makes it.
SameArchive ==
    [][answer'.op \in {"from_zipper", "from_zipper_cached"} /\ z.kind = "act" /\ z.plain => z'.of.tree = z.of.tree]_vars

Promised == INSTANCE CursorSpec WITH focus <- path(z)

\* Every call moves the focus and answers as the traits Zipper, ZipperMoving and
\* ZipperIteration promise (Cursor), for every kind of zipper and after any calls.
KeepsPromises == Promised!CursorSpec
==============================================================================
