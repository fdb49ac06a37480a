------------------------------ MODULE MapAlgebra -------------------------------
(***************************************************************************)
(* The algebra of maps (src/src/trie_map.rs) and that of write zippers     *)
(* (src/src/write_zipper.rs) over the nodes of NodeAlgebra.  A map is a    *)
(* cell: its root node, absent as long as nothing has been put into it,    *)
(* and its root value.  The other operand is read at its root, or by a     *)
(* zipper that stands somewhere in another map: a node, a place where      *)
(* nothing is, or a path that dangles, and a value.                        *)
(***************************************************************************)
EXTENDS NodeAlgebra

CONSTANTS
    MaxKey,     \* MAX_NODE_KEY_BYTES
    Path,       \* the paths a map may come to have
    Operands,   \* the other maps
    Foci,       \* what else a reader may stand on
    Places,     \* where zippers are opened and moved: pairs of a root and a path below it
    MaxPaths    \* a map with more paths takes part in no further operation

VARIABLES map,    \* the map
          z,      \* its write zipper, as in WriteZipper, or Closed
          last,   \* the last call: what it was given, as tries, and its answer
          seen    \* what readers find in the map

vars == <<map, z, last, seen, shares>>

W == INSTANCE WriteZipper WITH
    Val <- {}, Clients <- {}, client <- NoVal, root <- map.rec, rootVal <- map.val

EmptyMap == NoCell

----------------------------------------------------------------------------
(* PathMap: two halves, the root nodes and the root values.                *)

map_pjoin(l, r) == merge(opt_rec_pjoin(l.rec, r.rec), opt_val_pjoin(l.val, r.val), l, r, FALSE, FALSE)
map_pmeet(l, r) == merge(opt_rec_pmeet(l.rec, r.rec), opt_val_pmeet(l.val, r.val), l, r, FALSE, FALSE)
map_psubtract(l, r) == merge(opt_rec_psubtract(l.rec, r.rec), opt_val_psubtract(l.val, r.val), l, r, FALSE, FALSE)
map_prestrict(l, r) == cofree_prestrict(l, r)

\* A mutated form of result_into_map: the other operand is preferred.
result_into_map_Counter(r, mine, theirs) ==
    Resolve(IF r.is = "identity" THEN invert_identity(r) ELSE r, mine, theirs, EmptyMap)
result_into_map(r, mine, theirs) == Resolve(r, mine, theirs, EmptyMap)

map_restrict(l, r) ==
    CASE r.val # NoVal -> l
      [] r.val = NoVal /\ (l.rec = NoLink \/ r.rec = NoLink) -> EmptyMap
      [] OTHER -> CellOf(Resolve(prestrict_dyn(l.rec, r.rec), l.rec, l.rec, NoLink), NoVal)
map_subtract(l, r) == Pair(opt_rec_psubtract(l.rec, r.rec), opt_val_psubtract(l.val, r.val), l, l)

into_root(m) == CellOf(NonEmptyRec(m), m.val)
get_or_init_root(m) == IF m.rec = NoLink THEN [m EXCEPT !.rec = NewNode] ELSE m
is_empty(m) == NoNodeIn(m) /\ m.val = NoVal
RootInto(m, r) ==
    IF r.rec = NoLink THEN Joined(IF is_empty(m) THEN "none" ELSE "identity", m.rec)
    ELSE join_into_dyn(get_or_init_root(m).rec, r.rec)
map_join_into(m, r) == HalvesInto(RootInto(m, r), HalfInto(m.val, r.val, NoVal, val_join_into(m.val, r.val)))

----------------------------------------------------------------------------
(* A write zipper: what is below its focus, and what takes its place.      *)

Now == W!Step(map.rec, map.val, z, NoVal)

Focus(s) == get_node_at_key(W!Top(s.root, s.y), W!node_key(s.y))
FocusLink(s) == IF Focus(s).some THEN Focus(s).of ELSE NoLink
FocusVal(s) ==
    IF W!node_key(s.y) = <<>> THEN s.rootVal ELSE node_get_val(W!Top(s.root, s.y), W!node_key(s.y))

Nothing(link) == link = NoLink \/ node_is_empty(link)
into_option(link) == IF Nothing(link) THEN NoNode ELSE link
Told(s, ret) == [s EXCEPT !.ret = ret]
graft_internal(s, link, ret) == Told(W!GraftNode(s, into_option(link)), ret)

\* What an answer about the focus and src makes of the focus.
Settled(s, r, src) ==
    IF IsIdentity(r, Self) THEN Told(s, "identity")
    ELSE graft_internal(s, Resolve(r, NoLink, src, NoLink), IF r = None THEN "none" ELSE "element")
PruneIfNone(s, prune) == IF prune /\ s.ret = "none" THEN Told(W!PrunePath(s), "none") ELSE s

\* The two halves of a call answer for it together.
Halves(s, val, nodeNone, valNone) == Told(s, status_merge(s.ret, val, nodeNone, valNone))

join_into_focus(s, src) ==
    IF Nothing(src) THEN Told(s, IF Nothing(FocusLink(s)) THEN "none" ELSE "identity")
    ELSE Settled(s, IF Nothing(FocusLink(s)) THEN Identity({Counter}) ELSE pjoin_dyn(FocusLink(s), src), src)

JoinedVal(s, src) ==
    CASE FocusVal(s) # NoVal /\ src # NoVal ->
           LET j == val_join_into(FocusVal(s), src) IN Told(W!SetValHere(s, j.node), j.status)
      [] FocusVal(s) = NoVal /\ src # NoVal -> Told(W!SetValHere(s, src), "element")
      [] OTHER -> Told(s, IF FocusVal(s) = NoVal THEN "none" ELSE "identity")
JoinedNode(s, src) ==
    IF src = NoLink THEN Told(s, IF FocusLink(s) = NoLink THEN "none" ELSE "identity")
    ELSE Settled(s, IF FocusLink(s) = NoLink THEN Identity({Counter}) ELSE pjoin_dyn(FocusLink(s), src), src)
AndVal(s, src) == Halves(JoinedNode(s, src), s.ret, TRUE, TRUE)
join_map_focus(s, m) == AndVal(JoinedVal(s, m.val), into_root(m).rec)

\* src has been taken from where it was.
TakenInto(s, j) == graft_internal(s, j.node, j.status)
IntoTaken(t, src) == TakenInto(t, IF node_is_empty(t.ret) THEN Joined("element", src) ELSE join_into(t.ret, src))
join_taken_focus(s, src) ==
    IF Nothing(src) THEN Told(s, IF FocusLink(s) = NoLink THEN "none" ELSE "identity")
    ELSE IntoTaken(W!TakeFocus(s, FALSE), src)

\* Meeting and subtracting values: an answer that is an identity leaves the value.
ValSettled(s, r, prune) ==
    CASE r.is = "element" -> Told(W!SetValHere(s, r.of), "element")
      [] r.is = "identity" -> Told(s, "identity")
      [] OTHER -> Told(W!RemoveVal(s, prune), "none")
MetVal(s, src, prune) ==
    IF FocusVal(s) = NoVal THEN Told(s, "none")
    ELSE ValSettled(s, IF src = NoVal THEN None ELSE val_pmeet(FocusVal(s), src), prune)
SubtractedVal(s, src, prune) ==
    IF FocusVal(s) = NoVal THEN Told(s, "none")
    ELSE ValSettled(s, IF src = NoVal THEN Identity({Self}) ELSE val_psubtract(FocusVal(s), src), prune)

\* The nodes' half finds the zipper as the value's half has left it.
MetNode(s, src, prune) ==
    PruneIfNone(IF Nothing(FocusLink(s)) THEN Told(s, "none")
                ELSE Settled(s, IF src = NoLink THEN None ELSE pmeet_dyn(FocusLink(s), src), src), prune)
SubtractedNode(s, src, prune) ==
    PruneIfNone(IF Nothing(FocusLink(s)) THEN Told(s, "none")
                ELSE Settled(s, IF src = NoLink THEN Identity({Self}) ELSE psubtract_dyn(FocusLink(s), src), src), prune)
meet_focus(s, src, prune) ==
    LET v == MetVal(s, src.val, prune)
    IN Halves(MetNode(v, src.rec, prune), v.ret, Nothing(FocusLink(v)), FocusVal(s) = NoVal)
subtract_focus(s, src, prune) ==
    LET v == SubtractedVal(s, src.val, prune)
    IN Halves(SubtractedNode(v, src.rec, prune), v.ret, Nothing(FocusLink(v)), FocusVal(s) = NoVal)

restrict_focus(s, src) ==
    IF src # NoLink /\ FocusLink(s) = NoLink THEN Told(s, "none")
    ELSE Settled(s, IF src = NoLink THEN None ELSE prestrict_dyn(FocusLink(s), src), src)
restricting_focus(s, src) ==
    IF src = NoLink \/ FocusLink(s) = NoLink THEN Told(s, FALSE)
    ELSE Told(graft_internal(s, Resolve(prestrict_dyn(src, FocusLink(s)), src, src, NoLink), NoVal), TRUE)

\* The destination is not looked at.
meet_2_focus(s, a, b) ==
    LET met == IF a = NoLink \/ b = NoLink THEN NoLink ELSE Resolve(pmeet_dyn(a, b), a, b, NoLink)
    IN graft_internal(s, met, IF Nothing(met) THEN "none" ELSE "element")

----------------------------------------------------------------------------
(* Joining and meeting what is below the paths of k bytes.                 *)

PruneIfFalse(s, prune) == IF prune /\ ~s.ret THEN Told(W!PrunePath(s), FALSE) ELSE s
Dropped(s, link) == graft_internal(s, link, ~Nothing(link))
join_k_path(s, k, prune) ==
    PruneIfFalse(CASE Nothing(FocusLink(s)) -> Told(s, FALSE)
                   [] ~Nothing(FocusLink(s)) /\ k = 0 -> Told(s, TRUE)
                   [] OTHER -> Dropped(s, drop_head_dyn(FocusLink(s), k)), prune)

\* The map at each of them is taken out in turn and met with what the ones before
\* it left.  The search stops, where it is, once that is empty.
AtPath(s, buf) == [s EXCEPT !.y = W!descend_to_internal(s.root, [@ EXCEPT !.buf = buf])]
\* A mutated form of BackTo: the stack stays as it was below.
BackTo_KeepsStack(s, len) == [s EXCEPT !.y.buf = Take(@, len)]
BackTo(s, len) == [s EXCEPT !.y = W!ascend_across_nodes(W!AscendBy(@, Len(@.buf) - len).y)]
take_map(s) == LET v == W!RemoveVal(s, FALSE) t == W!TakeFocus(v, FALSE)
               IN Told(t, CellOf(IF node_is_empty(t.ret) THEN NoLink ELSE t.ret, v.ret))
MetWith(met, m) == IF met = NoVal THEN m ELSE result_into_map(map_pmeet(met, m), met, m)
Taking(s, met, t) == [s |-> BackTo(t, Len(s.y.buf)), met |-> MetWith(met, t.ret)]
TakeAndMeet(a, q) ==
    IF a.met # NoVal /\ is_empty(a.met) THEN a ELSE Taking(a.s, a.met, take_map(AtPath(a.s, a.s.y.buf \o q)))
PathsBelow(s, k) == {q \in Path : Len(q) = k /\ PathExistsAt(into_option(FocusLink(s)), q)}
BytewiseBefore(p, q) == \E i \in DOMAIN p : p[i] < q[i] /\ \A j \in 1..(i - 1) : p[j] = q[j]
AllMet(s, k) == FoldLeft(TakeAndMeet, [s |-> s, met |-> NoVal], SetToSortSeq(PathsBelow(s, k), BytewiseBefore))
MetBelow(a, prune) ==
    IF a.met = NoVal \/ is_empty(a.met) THEN Told(W!RemoveBranches(a.s, prune), FALSE)
    ELSE Told(W!GraftWithVal(a.s, into_option(a.met.rec), a.met.val), TRUE)
meet_k_path(s, k, prune) == MetBelow(AllMet(s, k), prune)

----------------------------------------------------------------------------
(* The calls.                                                              *)

NodePaths(n) == {p \in Path : PathExistsAt(n, p)}
\* What readers find in a cell.
CellPaths(m) == {<<>>} \cup NodePaths(into_option(m.rec))
CellVal(m, p) == IF p = <<>> THEN m.val ELSE ValAt(into_option(m.rec), p)
TrieOfCell(m) ==
    [paths |-> CellPaths(m),
     val   |-> [p \in {q \in CellPaths(m) : CellVal(m, q) # NoVal} |-> CellVal(m, p).set]]

Call(op, with, also, k, prune, ret) ==
    /\ last' = [op |-> op, with |-> TrieOfCell(with), also |-> TrieOfCell(also), k |-> k, prune |-> prune, ret |-> ret]
    /\ seen' = TrieOfCell(map')

\* The bound on what operations are applied to.
Small == map \in Operands \/ Cardinality(seen.paths) <= MaxPaths + 1

Init ==
    /\ map \in Operands
    /\ shares \in BOOLEAN
    /\ z = W!Closed
    /\ seen = TrieOfCell(map)
    /\ last = [op |-> "new", with |-> TrieOfCell(EmptyMap), also |-> TrieOfCell(EmptyMap), k |-> 0, prune |-> FALSE, ret |-> NoVal]

OnMap(op, o, m, ret) ==
    /\ map' = m
    /\ Call(op, o, EmptyMap, 0, FALSE, ret)
    /\ UNCHANGED <<z, shares>>
\* The answer without the nodes it holds.
Reply(r) == IF r.is = "element" THEN [is |-> "element"] ELSE r
Join(o) == OnMap("join", o, result_into_map(map_pjoin(map, o), map, o), Reply(map_pjoin(map, o)))
Meet(o) == OnMap("meet", o, result_into_map(map_pmeet(map, o), map, o), Reply(map_pmeet(map, o)))
Subtract(o) == OnMap("subtract", o, map_subtract(map, o), Reply(map_psubtract(map, o)))
RestrictBy(o) == OnMap("restrict", o, map_restrict(map, o), Reply(map_prestrict(map, o)))
JoinInto(o) ==
    LET j == map_join_into(map, into_root(o)) IN OnMap("map.join_into", o, j.node, j.status)

\* write_zipper_at_path, which makes the root node, and descend_to.
Open(p) ==
    LET m == get_or_init_root(map)
        y == [open |-> TRUE, origin |-> Len(p[1]), rks |-> Along(m.rec, p[1], TRUE), buf |-> p[1] \o p[2], idx |-> <<>>]
    IN /\ map' = m
       /\ z' = W!descend_to_internal(m.rec, y)
       /\ Call("open", EmptyMap, EmptyMap, 0, FALSE, NoVal)
       /\ UNCHANGED shares
Close == z' = W!Closed /\ UNCHANGED <<map, shares>> /\ Call("close", EmptyMap, EmptyMap, 0, FALSE, NoVal)

\* The bound, on what is put at the focus.
Fits(o) == \A p \in CellPaths(o) : z.buf \o p \in Path
OnZipper(op, o, also, k, prune, s) ==
    /\ Fits(o)
    /\ map' = CellOf(s.root, s.rootVal)
    /\ z' = s.y
    /\ Call(op, o, also, k, prune, s.ret)
    /\ UNCHANGED shares

ZipperCall(o) ==
    \/ OnZipper("join_into", o, EmptyMap, 0, FALSE, join_into_focus(Now, o.rec))
    \/ OnZipper("join_into_take", o, EmptyMap, 0, FALSE, join_taken_focus(Now, o.rec))
    \/ OnZipper("restrict", o, EmptyMap, 0, FALSE, restrict_focus(Now, o.rec))
    \/ OnZipper("restricting", o, EmptyMap, 0, FALSE, restricting_focus(Now, o.rec))
    \/ \E prune \in BOOLEAN : OnZipper("meet_into", o, EmptyMap, 0, prune, meet_focus(Now, o, prune))
    \/ \E prune \in BOOLEAN : OnZipper("subtract_into", o, EmptyMap, 0, prune, subtract_focus(Now, o, prune))
KPathCall(k, prune) ==
    \/ OnZipper("join_k_path_into", EmptyMap, EmptyMap, k, prune, join_k_path(Now, k, prune))
    \/ k > 0 /\ OnZipper("meet_k_path_into", EmptyMap, EmptyMap, k, prune, meet_k_path(Now, k, prune))

MapNext ==
    \/ \E o \in Operands : Join(o) \/ Meet(o) \/ Subtract(o) \/ RestrictBy(o) \/ JoinInto(o)
    \/ \E p \in Places : Open(p)
ZipperNext ==
    \/ \E o \in Operands \cup Foci : ZipperCall(o)
    \/ \E o \in Operands : OnZipper("join_map_into", o, EmptyMap, 0, FALSE, join_map_focus(Now, o))
    \/ \E a \in Foci, b \in Operands \cup Foci : OnZipper("meet_2", a, b, 0, FALSE, meet_2_focus(Now, a.rec, b.rec))
    \/ \E k \in 0..2, prune \in BOOLEAN : KPathCall(k, prune)

Next ==
    \/ ~z.open /\ Small /\ MapNext
    \/ z.open /\ Small /\ ZipperNext
    \/ z.open /\ Close

Spec == Init /\ [][Next]_vars

----------------------------------------------------------------------------
(* Properties.                                                             *)

Abs == INSTANCE LatticeSpec WITH
    trie <- seen,
    origin <- IF z.open THEN Take(z.buf, z.origin) ELSE NoVal,
    focus <- IF z.open THEN z.buf ELSE <<>>,
    call <- last,
    Nil <- NoVal

\* Whatever the nodes of the two maps look like, and wherever the zipper stands, the
\* result is the lattice's, the rest of the map is as it was, and the answer (None,
\* Identity and its mask, Element, or a status) is what the caller may act upon.
ImplementsLattice == Abs!Lattice

\* A map that comes of an operation holds only nodes that validate_node admits.
NodesOk ==
    /\ AllNodesOk(map.rec)

\* merge_list_nodes asserts that no entry takes part in two merges: an entry that did
\* would be in the result twice.
MergesOnce ==
    \A o \in Operands : map.rec.tag = "list" /\ o.rec.tag = "list" => EachMergesOnce(Merges(map.rec.slots, o.rec.slots))

\* A call that has grafted, pruned, taken or dropped below the zipper leaves its stack on
\* nodes that the map still has, as deep as the focus allows.
ZipperAtNode == W!StackOnNodes /\ W!StackDescended

\* trie_map.rs:514 says of join that it returns "the union of the paths in `self` and the
\* paths in `other`".
JoinsAreUnions == [][last'.op = "join" => seen' = Abs!Join(seen, last'.with)]_vars
=============================================================================
