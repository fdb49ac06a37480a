----------------------------- MODULE NodeAlgebra -----------------------------
(***************************************************************************)
(* The lattice algebra of trie nodes: join (pjoin, join_into), meet        *)
(* (pmeet), subtract (psubtract), restrict (prestrict) and drop_head, for  *)
(* the two kinds of node of TrieNodes in every pairing, with the answers   *)
(* of src/src/ring.rs: None when nothing is left, Identity when the result *)
(* is one of the operands (the mask says which, both when they are equal), *)
(* and Element for a new node.  A wrong mask is a wrong trie: the caller   *)
(* keeps an operand and never looks at the nodes.                          *)
(*                                                                         *)
(* A value is a nonempty set under union, intersection and difference,     *)
(* wrapped in a record: Elems(S).                                          *)
(***************************************************************************)
EXTENDS TrieNodes

VARIABLE shares     \* are equal subtries one node in memory (ptr_eq) or copies of it?

Self == "self"          \* SELF_IDENT
Counter == "counter"    \* COUNTER_IDENT

None == [is |-> "none"]
Identity(mask) == [is |-> "identity", mask |-> mask]
Element(x) == [is |-> "element", of |-> x]

IsIdentity(r, who) == r.is = "identity" /\ who \in r.mask
Mapped(r, F(_)) == IF r.is = "element" THEN Element(F(r.of)) ELSE r

\* What an answer stands for: Identity prefers self (mask.trailing_zeros()).
Resolve(r, mine, theirs, none) ==
    CASE r.is = "element" -> r.of
      [] r.is = "identity" -> IF Self \in r.mask THEN mine ELSE theirs
      [] OTHER -> none

Swapped(who) == IF who = Self THEN Counter ELSE Self
invert_identity(r) == IF r.is = "identity" THEN Identity({Swapped(who) : who \in r.mask}) ELSE r

\* What an operation in place reports: Identity only when self did not change.
status(r) == IF r.is = "identity" /\ Self \notin r.mask THEN "element" ELSE r.is
from_status(s, x) == CASE s = "none" -> None [] s = "identity" -> Identity({Self}) [] OTHER -> Element(x)
\* A mutated form of status_merge: an identity stands for both halves.
status_merge_Either(a, b, self_none, b_none) ==
    CASE a = b -> a [] a = "identity" \/ b = "identity" -> "identity" [] OTHER -> "element"
status_merge(a, b, self_none, b_none) ==
    CASE a = b -> a
      [] a = "none" /\ b = "identity" /\ self_none -> b
      [] a = "identity" /\ b = "none" /\ b_none -> a
      [] OTHER -> "element"

\* The answer for a pair of operands when it is known which of them the result is.
AnswerOf(mask, empty, x) == CASE empty -> None [] ~empty /\ mask # {} -> Identity(mask) [] OTHER -> Element(x)
MaskIf(mine, theirs) == (IF mine THEN {Self} ELSE {}) \cup (IF theirs THEN {Counter} ELSE {})

----------------------------------------------------------------------------
(* Values, and operands that may be absent.                                *)

Elems(S) == [set |-> S]
ValAnswer(a, b, S) == AnswerOf(MaskIf(S = a.set, S = b.set), S = {}, Elems(S))
val_pjoin(a, b) == ValAnswer(a, b, a.set \cup b.set)
val_pmeet(a, b) == ValAnswer(a, b, a.set \cap b.set)
val_psubtract(a, b) == AnswerOf(MaskIf(a.set \cap b.set = {}, FALSE), a.set \subseteq b.set, Elems(a.set \ b.set))

\* Option<T>: `both` is the answer when both are there.
opt_pjoin(a, b, none, both) ==
    CASE a = none /\ b = none -> None
      [] a = none /\ b # none -> Identity({Counter})
      [] a # none /\ b = none -> Identity({Self})
      [] OTHER -> both
opt_pmeet(a, b, none, both) == IF a = none \/ b = none THEN None ELSE both
opt_psubtract(a, b, none, both) == CASE a = none -> None [] a # none /\ b = none -> Identity({Self}) [] OTHER -> both

opt_val_pjoin(a, b) == opt_pjoin(a, b, NoVal, val_pjoin(a, b))
opt_val_pmeet(a, b) == opt_pmeet(a, b, NoVal, val_pmeet(a, b))
opt_val_psubtract(a, b) == opt_psubtract(a, b, NoVal, val_psubtract(a, b))

----------------------------------------------------------------------------
(* Links (TrieNodeODRc).                                                   *)

RECURSIVE pjoin_dyn(_, _)
RECURSIVE join_into_dyn(_, _)
RECURSIVE pmeet_dyn(_, _)
RECURSIVE psubtract_dyn(_, _)
RECURSIVE prestrict_dyn(_, _)

\* The sentinel is one object, whatever shares says.
ptr_eq(m, n) == m = n /\ (shares \/ m = NoNode)

pjoin(m, n) == IF ptr_eq(m, n) THEN Identity({Self, Counter}) ELSE pjoin_dyn(m, n)
pmeet(m, n) == IF ptr_eq(m, n) THEN Identity({Self, Counter}) ELSE pmeet_dyn(m, n)
psubtract(m, n) == IF ptr_eq(m, n) THEN None ELSE psubtract_dyn(m, n)
prestrict(m, n) == prestrict_dyn(m, n)

Joined(s, n) == [status |-> s, node |-> n]
join_into(m, n) ==
    CASE node_is_empty(n) -> Joined(IF m = NoNode THEN "none" ELSE "identity", m)
      [] ~node_is_empty(n) /\ m = NoNode -> Joined("element", n)
      [] OTHER -> join_into_dyn(m, n)

opt_rec_pjoin(a, b) == opt_pjoin(a, b, NoLink, pjoin(a, b))
opt_rec_pmeet(a, b) == opt_pmeet(a, b, NoLink, pmeet(a, b))
opt_rec_psubtract(a, b) == opt_psubtract(a, b, NoLink, psubtract(a, b))

----------------------------------------------------------------------------
(* Cells (CoFree): a link and a value, either may be absent.               *)

CellOf(rec, val) == [rec |-> rec, val |-> val]
Pair(a, b, l, r) == CellOf(Resolve(a, l.rec, r.rec, NoLink), Resolve(b, l.val, r.val, NoVal))

\* AlgebraicResult::merge.  noRec, noVal: self has no link, the other has no value.
merge(a, b, l, r, noRec, noVal) ==
    CASE a = None /\ b = None -> None
      [] a = None /\ b.is = "identity" /\ noRec -> b
      [] b = None /\ a.is = "identity" /\ noVal -> a
      [] a.is = "identity" /\ b.is = "identity" /\ a.mask \cap b.mask # {} -> Identity(a.mask \cap b.mask)
      [] OTHER -> Element(Pair(a, b, l, r))

\* combine_algebraic_results: an absent part is the operand's own when the operand has none.
\* A mutated form of PartMask: a part that is gone is nobody's change.
PartMask_AbsentIsBoth(a, mine, theirs, none) ==
    CASE a.is = "identity" -> a.mask [] a = None -> {Self, Counter} [] OTHER -> {}
PartMask(a, mine, theirs, none) ==
    CASE a.is = "identity" -> a.mask [] a = None -> MaskIf(mine = none, theirs = none) [] OTHER -> {}
CombinedMask(a, b, l, r) == PartMask(a, l.rec, r.rec, NoLink) \cap PartMask(b, l.val, r.val, NoVal)
combine_algebraic_results(a, b, l, r) ==
    AnswerOf(CombinedMask(a, b, l, r), a = None /\ b = None, Pair(a, b, l, r))

cofree_pjoin(l, r) ==
    merge(opt_rec_pjoin(l.rec, r.rec), opt_val_pjoin(l.val, r.val), l, r, l.rec = NoLink, r.val = NoVal)

\* Each half joins in place and reports on its own.
HalfInto(mine, theirs, none, joined) ==
    CASE mine # none /\ theirs # none -> joined
      [] mine # none /\ theirs = none -> Joined("identity", mine)
      [] OTHER -> Joined(IF theirs = none THEN "none" ELSE "element", theirs)
val_join_into(a, b) == Joined(status(val_pjoin(a, b)), Resolve(val_pjoin(a, b), a, b, a))
HalvesInto(a, b) == Joined(status_merge(a.status, b.status, TRUE, TRUE), CellOf(a.node, b.node))
cofree_join_into(l, r) ==
    HalvesInto(HalfInto(l.rec, r.rec, NoLink, join_into(l.rec, r.rec)),
               HalfInto(l.val, r.val, NoVal, val_join_into(l.val, r.val)))

cofree_pmeet(l, r) ==
    IF l = NoCell \/ r = NoCell THEN Identity(MaskIf(l = NoCell, r = NoCell))
    ELSE combine_algebraic_results(opt_rec_pmeet(l.rec, r.rec), opt_val_pmeet(l.val, r.val), l, r)

NonEmptyRec(c) == IF NoNodeIn(c) THEN NoLink ELSE c.rec
cofree_psubtract(l, r) ==
    combine_algebraic_results(opt_rec_psubtract(NonEmptyRec(l), r.rec), opt_val_psubtract(l.val, r.val), l, r)

\* A value in the other validates the cell; otherwise only what is below can be.
WithoutVal(r, l) ==
    CASE r = None -> None
      [] r.is = "identity" /\ l.val = NoVal -> r
      [] OTHER -> Element(CellOf(Resolve(r, l.rec, l.rec, NoLink), NoVal))
cofree_prestrict(l, r) ==
    CASE r.val # NoVal -> Identity({Self})
      [] r.val = NoVal /\ (l.rec = NoLink \/ r.rec = NoLink) -> None
      [] OTHER -> WithoutVal(prestrict(l.rec, r.rec), l)

----------------------------------------------------------------------------
(* Byte nodes against byte nodes.  at: the answer for each byte looked at. *)

Kept(at) == {b \in DOMAIN at : at[b] # None}
Keeps(at, cells, who) == DOMAIN cells = DOMAIN at /\ \A b \in DOMAIN at : IsIdentity(at[b], who)
CellsAnswer(at, mine, theirs, mask) ==
    AnswerOf(mask, Kept(at) = {}, ByteNode([b \in Kept(at) |-> Resolve(at[b], mine[b], theirs[b], NoCell)]))
SelfCells(at, m) == CellsAnswer(at, m.cells, m.cells, MaskIf(Keeps(at, m.cells, Self), FALSE))

\* In a join a byte both leave dangling (None) stays, and changes neither.
\* A mutated form of JoinKeeps: only the bytes of both nodes count.
JoinKeeps_Shared(at, cells, all, who) == \A b \in DOMAIN at : at[b] = None \/ IsIdentity(at[b], who)
JoinKeeps(at, cells, all, who) == DOMAIN cells = all /\ \A b \in DOMAIN at : at[b] = None \/ IsIdentity(at[b], who)
JoinedCell(at, b, m, n) ==
    CASE b \in DOMAIN at -> Resolve(at[b], m.cells[b], n.cells[b], NoCell)
      [] b \in DOMAIN m.cells \ DOMAIN at -> m.cells[b]
      [] OTHER -> n.cells[b]
JoinCells(at, all, m, n) ==
    AnswerOf(MaskIf(JoinKeeps(at, m.cells, all, Self), JoinKeeps(at, n.cells, all, Counter)), all = {},
             ByteNode([b \in all |-> JoinedCell(at, b, m, n)]))
byte_pjoin(m, n) ==
    JoinCells([b \in DOMAIN m.cells \cap DOMAIN n.cells |-> cofree_pjoin(m.cells[b], n.cells[b])],
              DOMAIN m.cells \cup DOMAIN n.cells, m, n)

JoinCellsInto(at, m, n) ==
    Joined(CASE DOMAIN m.cells \cup DOMAIN n.cells = {} -> "none"
             [] DOMAIN m.cells # {} /\ DOMAIN at = DOMAIN n.cells /\ (\A b \in DOMAIN at : at[b].status # "element") -> "identity"
             [] OTHER -> "element",
           ByteNode([b \in DOMAIN m.cells \cup DOMAIN n.cells |->
                       IF b \in DOMAIN at THEN at[b].node ELSE IF b \in DOMAIN m.cells THEN m.cells[b] ELSE n.cells[b]]))
byte_join_into(m, n) ==
    JoinCellsInto([b \in DOMAIN m.cells \cap DOMAIN n.cells |-> cofree_join_into(m.cells[b], n.cells[b])], m, n)

MeetCells(at, m, n) ==
    CellsAnswer(at, m.cells, n.cells, MaskIf(Keeps(at, m.cells, Self), Keeps(at, n.cells, Counter)))
byte_pmeet(m, n) ==
    MeetCells([b \in DOMAIN m.cells \cap DOMAIN n.cells |-> cofree_pmeet(m.cells[b], n.cells[b])], m, n)

byte_psubtract(m, n) ==
    SelfCells([b \in DOMAIN m.cells |->
                 IF b \in DOMAIN n.cells THEN cofree_psubtract(m.cells[b], n.cells[b]) ELSE Identity({Self})], m)
byte_prestrict(m, n) ==
    SelfCells([b \in DOMAIN m.cells \cap DOMAIN n.cells |-> cofree_prestrict(m.cells[b], n.cells[b])], m)

----------------------------------------------------------------------------
(* Byte nodes against list nodes.                                          *)

\* What the other node holds at one byte, as a cell.
CellAt(n, b) ==
    CellOf(IF get_node_at_key(n, <<b>>).some THEN get_node_at_key(n, <<b>>).of ELSE NoLink, node_get_val(n, <<b>>))

\* psubtract_abstract: an empty link is left out without counting as a change.
SubtractedCell(l, rec, val) ==
    AnswerOf(MaskIf((NonEmptyRec(l) = NoLink \/ rec.is = "identity") /\ (l.val = NoVal \/ val.is = "identity"), FALSE),
             Pair(rec, val, l, l) = NoCell, Pair(rec, val, l, l))
subtract_cell(l, r) ==
    SubtractedCell([l EXCEPT !.rec = NonEmptyRec(l)],
                   opt_psubtract(NonEmptyRec(l), r.rec, NoLink, psubtract_dyn(l.rec, r.rec)),
                   opt_val_psubtract(l.val, r.val))
Visited(m, n) == {b \in DOMAIN m.cells : node_contains_partial_key(n, <<b>>)}
SubtractedCells(at, m, visited) ==
    CellsAnswer(at, [b \in DOMAIN m.cells |-> IF b \in visited THEN [m.cells[b] EXCEPT !.rec = NonEmptyRec(m.cells[b])]
                                              ELSE m.cells[b]],
                m.cells, MaskIf(Keeps(at, m.cells, Self), FALSE))
psubtract_abstract(m, n) ==
    SubtractedCells([b \in DOMAIN m.cells |-> IF b \in Visited(m, n) THEN subtract_cell(m.cells[b], CellAt(n, b))
                                              ELSE Identity({Self})], m, Visited(m, n))
prestrict_abstract(m, n) ==
    SelfCells([b \in Visited(m, n) |-> cofree_prestrict(m.cells[b], CellAt(n, b))], m)

\* Joining one entry into a byte node in place.
LinkInto(n, b, half) == Joined(half.status, SetCell(n, b, [Cell(n, b) EXCEPT !.rec = half.node]))
ValInto(n, b, half) == Joined(half.status, SetCell(n, b, [Cell(n, b) EXCEPT !.val = half.node]))
join_child_into(n, b, of) ==
    LinkInto(n, b, IF Cell(n, b).rec = NoLink THEN Joined("element", of) ELSE join_into(Cell(n, b).rec, of))
join_val_into(n, b, of) ==
    ValInto(n, b, IF Cell(n, b).val = NoVal THEN Joined("element", of) ELSE val_join_into(Cell(n, b).val, of))
join_payload_into(n, x) ==
    IF Len(x.key) = 1 /\ ~x.child THEN join_val_into(n, x.key[1], x.of)
    ELSE join_child_into(n, x.key[1], IF Len(x.key) = 1 THEN x.of ELSE Remainder(x, 1))

\* merge_from_list_node.  A slot the list node does not use changes nothing.
NoSlot(n) == IF DOMAIN n.cells = {} THEN "none" ELSE "identity"
SlotInto(a, x) ==
    LET j == join_payload_into(a.node, x) IN [node |-> j.node, statuses |-> Append(a.statuses, j.status)]
BothSlots(a, unused) ==
    LET of == a.statuses \o <<unused, unused>> IN Joined(status_merge(of[1], of[2], TRUE, TRUE), a.node)
merge_from_list_node(n, list) ==
    BothSlots(FoldLeft(SlotInto, [node |-> n, statuses |-> <<>>], list.slots), NoSlot(n))

----------------------------------------------------------------------------
(* Two entries of list nodes whose keys share their first o bytes.         *)
(* beside: does a value share its node and its key with the slot?          *)

ValueBeside(s, i, key) == Len(key) = 1 /\ ValueIn(s, 3 - i, key)

\* A node of its own for two entries, in order.
TwoSlots(x, y) ==
    LET first == IF Len(x.key) < KeyCap THEN x ELSE SplitSlot(<<x>>, 1, KeyCap \div 2)[1]
    IN ListNode(<<first, Fitting(KeyCap - Len(first.key), y.key, y.child, y.of)>>)
Before(x, y) == IF x.key[1] = y.key[1] THEN Len(x.key) < Len(y.key) ELSE x.key[1] < y.key[1]
\* A mutated form of PairNode: the entries in the order they came in.
PairNode_AsGiven(x, y) == TwoSlots(x, y)
PairNode(x, y) == IF Before(x, y) THEN TwoSlots(x, y) ELSE TwoSlots(y, x)
Cut(x, len) == Slot(Drop(x.key, len), x.child, x.of)
Below(key, of) == Slot(key, TRUE, of)
PairBelow(o, x, y) == IF o = 0 THEN None ELSE Element(Below(Take(x.key, o), PairNode(Cut(x, o), Cut(y, o))))

\* A mutated form of LinksMerged: a dangling link yields to nothing.
LinksMerged_NoYield(x, y, r, besideX, besideY) ==
    CASE r = None -> Identity({Self, Counter})
      [] r.is = "element" -> Element(Below(x.key, r.of))
      [] OTHER -> r
\* Two links at one key.  A dangling one yields to the value it sits beside.
LinksMerged(x, y, r, besideX, besideY) ==
    CASE r = None -> Identity({Self, Counter})
      [] \/ IsIdentity(r, Counter) /\ besideY /\ x.of = NoNode
         \/ IsIdentity(r, Self) /\ besideX /\ y.of = NoNode -> None
      [] r.is = "element" -> Element(Below(x.key, r.of))
      [] OTHER -> r

\* A link whose key is used up, and an entry that goes on below it.
OnwardMerged(link, key, onward, r, beside, who) ==
    CASE r.is = "element" -> Element(Below(key, r.of))
      [] IsIdentity(r, Self) -> Identity({who})
      [] ~IsIdentity(r, Self) /\ beside /\ link.of = NoNode -> None
      [] OTHER -> Element(Below(key, onward))

\* The node that goes on below a link at the end of the shared bytes.
BelowLink(o, x) == IF Len(x.key) = o THEN x.of ELSE Remainder(x, o)
LinkEnds(o, x) == x.child /\ Len(x.key) = o
LinkFirst(o, x, y) == IF LinkEnds(o, x) THEN <<x.of, BelowLink(o, y)>> ELSE <<y.of, BelowLink(o, x)>>
LinkWith(o, x, y, r, besideX, besideY) ==
    CASE LinkEnds(o, x) /\ LinkEnds(o, y) -> LinksMerged(x, y, r, besideX, besideY)
      [] LinkEnds(o, x) /\ ~LinkEnds(o, y) -> OnwardMerged(x, Take(y.key, o), Remainder(y, o), r, besideY, Self)
      [] OTHER -> OnwardMerged(y, Take(x.key, o), Remainder(x, o), r, besideX, Counter)
JoinLink(o, x, y, nodes, besideX, besideY) == LinkWith(o, x, y, pjoin(nodes[1], nodes[2]), besideX, besideY)

merge_guts(o, x, y, besideX, besideY) ==
    LET endX == Len(x.key) = o  endY == Len(y.key) = o
    IN CASE endX /\ endY /\ ~x.child /\ ~y.child ->
              Mapped(val_pjoin(x.of, y.of), LAMBDA v : Slot(x.key, FALSE, v))
         [] endX /\ endY /\ IsSentinel(x) /\ ~y.child -> Element([y EXCEPT !.key = x.key])
         [] endX /\ endY /\ ~x.child /\ IsSentinel(y) -> Element(x)
         [] \/ endX /\ x.child /\ (~endY \/ y.child)
            \/ endY /\ y.child /\ ~endX -> JoinLink(o, x, y, LinkFirst(o, x, y), besideX, besideY)
         [] OTHER -> PairBelow(IF endX \/ endY THEN o - 1 ELSE o, x, y)

MergeIfOverlap(o, s, i, t, j) ==
    IF o = 0 THEN None ELSE merge_guts(o, s[i], t[j], ValueBeside(s, i, t[j].key), ValueBeside(t, j, s[i].key))
try_merge(s, i, t, j) ==
    IF i \in DOMAIN s /\ j \in DOMAIN t THEN MergeIfOverlap(Overlap(s[i].key, t[j].key), s, i, t, j) ELSE None

----------------------------------------------------------------------------
(* List nodes against list nodes: every slot is tried against every other, *)
(* the slots that merge with none stay.                                    *)

Entry(x, mask) == [slot |-> x, mask |-> mask]
MergedEntry(r, x, y) ==
    IF r.is = "element" THEN Entry(r.of, {}) ELSE Entry(IF Self \in r.mask THEN x ELSE y, r.mask)
SlotPairs == << <<1, 1>>, <<1, 2>>, <<2, 1>>, <<2, 2>> >>
Merges(s, t) == [p \in ToSet(SlotPairs) |-> try_merge(s, p[1], t, p[2])]
Matched(merges) == {p \in DOMAIN merges : merges[p] # None}
Unmatched(s, used, who) ==
    LET left == SelectSeq(<<1, 2>>, LAMBDA i : i \in DOMAIN s /\ i \notin used)
    IN [k \in DOMAIN left |-> Entry(s[left[k]], {who})]
Entries(merges, s, t) ==
    LET pairs == SelectSeq(SlotPairs, LAMBDA p : p \in Matched(merges))
    IN [k \in DOMAIN pairs |-> MergedEntry(merges[pairs[k]], s[pairs[k][1]], t[pairs[k][2]])]
       \o Unmatched(s, {p[1] : p \in Matched(merges)}, Self)
       \o Unmatched(t, {p[2] : p \in Matched(merges)}, Counter)

\* No slot takes part in two merges.
EachMergesOnce(merges) ==
    \A p, q \in Matched(merges) : p # q => p[1] # q[1] /\ p[2] # q[2]

\* More than two entries need a byte node.
EntryIntoByte(n, e) == IF Len(e.slot.key) > 1 THEN join_payload_into(n, e.slot).node ELSE IntoCell(n, e.slot)
EntriesInOrder(x, y) == IF should_swap_keys(x.key, y.key) THEN TwoSlots(y, x) ELSE TwoSlots(x, y)
JoinedEntries(e) ==
    CASE e = <<>> -> None
      [] Len(e) = 1 -> AnswerOf(e[1].mask, FALSE, ListNode(<<e[1].slot>>))
      [] Len(e) = 2 -> AnswerOf(e[1].mask \cap e[2].mask, FALSE, EntriesInOrder(e[1].slot, e[2].slot))
      [] OTHER -> Element(FoldLeft(EntryIntoByte, ByteNode(<<>>), e))
merge_list_nodes(s, t) == JoinedEntries(Entries(Merges(s, t), s, t))

merge_into_list_nodes(m, n, r) ==
    CASE r.is = "element" -> Joined("element", r.of)
      [] IsIdentity(r, Self) -> Joined("identity", m)
      [] IsIdentity(r, Counter) /\ ~IsIdentity(r, Self) -> Joined("element", n)

----------------------------------------------------------------------------
(* Join, by the kinds of the two nodes.                                    *)

ListIntoByte(m, n) == merge_from_list_node(IF m.tag = "byte" THEN m ELSE n, IF m.tag = "list" THEN m ELSE n)
MixedJoin(r) == IF r.status = "identity" THEN Identity({Counter}) ELSE from_status(r.status, r.node)
list_pjoin_dyn(m, n) ==
    ByKind(n, merge_list_nodes(m.slots, n.slots), MixedJoin(ListIntoByte(m, n)), Identity({Self}))
byte_pjoin_dyn(m, n) ==
    LET r == ListIntoByte(m, n) IN ByKind(n, from_status(r.status, r.node), byte_pjoin(m, n), Identity({Self}))
empty_pjoin_dyn(n) == IF node_is_empty(n) THEN None ELSE Identity({Counter})
pjoin_dyn(m, n) ==
    IF ptr_eq(m, n) THEN Identity({Self, Counter})
    ELSE ByKind(m, list_pjoin_dyn(m, n), byte_pjoin_dyn(m, n), empty_pjoin_dyn(n))

list_join_into_dyn(m, n) ==
    ByKind(n, merge_into_list_nodes(m, n, merge_list_nodes(m.slots, n.slots)),
           Joined("element", ListIntoByte(m, n).node), Joined("identity", m))
byte_join_into_dyn(m, n) ==
    IF node_is_empty(n) THEN Joined("identity", m) ELSE ByKind(n, ListIntoByte(m, n), byte_join_into(m, n), Joined("identity", m))
empty_join_into_dyn(n) == IF node_is_empty(n) THEN Joined("none", NoNode) ELSE Joined("element", n)
join_into_dyn(m, n) == ByKind(m, list_join_into_dyn(m, n), byte_join_into_dyn(m, n), empty_join_into_dyn(n))

----------------------------------------------------------------------------
(* Meet of a list node with any node: pmeet_generic.  The slots are looked *)
(* up in the other node, all of them at once, and those that go on below   *)
(* one and the same link are looked up there together.                     *)

\* A request: the slot, and what is left of its key.
Request(x) == [slot |-> x, key |-> x.key]
Answer(len, at, of) == [len |-> len, at |-> at, of |-> of]
NoAnswer == Answer(0, 0, NoNode)

\* node_get_payloads of a list node: the last slot that matches answers.
Answers(x, q) ==
    /\ IsPrefix(x.key, q.key)
    /\ IF x.child THEN q.slot.child \/ Len(x.key) < Len(q.key) ELSE ~q.slot.child /\ x.key = q.key
Answering(s, q) == {i \in DOMAIN s : Answers(s[i], q)}
SlotAnswer(s, I) == IF I = {} THEN NoAnswer ELSE Answer(Len(s[Max(I)].key), Max(I), s[Max(I)].of)
list_get_payloads(s, Q) ==
    [answers |-> [k \in DOMAIN Q |-> SlotAnswer(s, Answering(s, Q[k]))],
     all |-> \A i \in DOMAIN s : \E k \in DOMAIN Q : Answers(s[i], Q[k])]

\* Of a byte node: a cell with a link and a value is answered in full only when the
\* link is asked for first and the value right after it.
ByteScan == [answers |-> <<>>, stashed |-> FALSE, last |-> 0, half |-> FALSE, left |-> {}]
Moved(a, b) ==
    IF a.last \in {0, b} THEN a ELSE [a EXCEPT !.half = @ \/ a.stashed, !.stashed = FALSE, !.last = 0]
ExactVal(q) == Len(q.key) = 1 /\ ~q.slot.child
CellAnswer(c, q) ==
    CASE ExactVal(q) /\ c.val # NoVal -> Answer(1, q.key[1], c.val)
      [] ~ExactVal(q) /\ c.rec # NoLink -> Answer(1, q.key[1], c.rec)
      [] OTHER -> NoAnswer
Scanned(a, c, q) ==
    IF a.stashed /\ ExactVal(q) THEN [a EXCEPT !.answers = Append(@, CellAnswer(c, q)), !.stashed = FALSE]
    ELSE LET stash == c.val # NoVal /\ ~ExactVal(q) /\ a.last = 0
         IN [answers |-> Append(a.answers, CellAnswer(c, q)), left |-> a.left \ {q.key[1]},
             half |-> a.half \/ (ExactVal(q) /\ c.rec # NoLink),
             stashed |-> a.stashed \/ stash, last |-> IF stash THEN q.key[1] ELSE a.last]
byte_get_payloads(n, Q) ==
    LET end == FoldLeft(LAMBDA a, q : Scanned(Moved(a, q.key[1]), Cell(n, q.key[1]), q),
                        [ByteScan EXCEPT !.left = DOMAIN n.cells], Q)
    IN [answers |-> end.answers, all |-> ~end.half /\ ~end.stashed /\ end.left = {}]

node_get_payloads(n, Q) ==
    ByKind(n, list_get_payloads(n.slots, Q), byte_get_payloads(n, Q),
           [answers |-> [k \in DOMAIN Q |-> NoAnswer], all |-> TRUE])

\* FatAlgebraicResult: the mask and, whatever it says, the payload; NoVal for none.
Fat(mask, of) == [mask |-> mask, of |-> of]
from_binary_op_result(r, mine, theirs) == Fat(IF r.is = "identity" THEN r.mask ELSE {}, Resolve(r, mine, theirs, NoVal))

\* into_option: an empty node at the end of a key is no node.
NodeAtKey(n, key) ==
    LET found == get_node_at_key(n, key)
    IN IF found.some /\ ~node_is_empty(found.of) THEN found.of ELSE NoNode
AbsentLink(x, n, key) ==
    IF x.of = NoNode /\ node_get_val(n, key) # NoVal THEN Fat({Self}, NoNode) ELSE Fat({Counter}, NoVal)
Unanswered(x, n, key, at) ==
    CASE ~x.child -> Fat({Counter}, NoVal)
      [] x.child /\ at # NoNode -> from_binary_op_result(pmeet_dyn(x.of, at), x.of, at)
      [] OTHER -> AbsentLink(x, n, key)
Arrived(x, of) == from_binary_op_result(IF x.child THEN pmeet(x.of, of) ELSE val_pmeet(x.of, of), x.of, of)

Onward(q, a) == 0 < a.len /\ a.len < Len(q.key)
Advanced(q, a) == [q EXCEPT !.key = Drop(@, a.len)]
RECURSIVE pmeet_internal(_, _)
OnwardMeet(Q, answers, k) ==      \* the requests that continue below the link of request k
    LET group == SelectSeq(<<1, 2>>, LAMBDA j : j \in DOMAIN Q /\ Onward(Q[j], answers[j]) /\ answers[j].at = answers[k].at)
        below == pmeet_internal([j \in DOMAIN group |-> Advanced(Q[group[j]], answers[group[j]])], answers[k].of)
    IN [fat |-> below.fats[CHOOSE j \in DOMAIN group : group[j] = k], all |-> below.all]
RequestMeet(Q, answers, k, n) ==
    CASE answers[k].len = 0 -> [fat |-> Unanswered(Q[k].slot, n, Q[k].key, NodeAtKey(n, Q[k].key)), all |-> TRUE]
      [] Onward(Q[k], answers[k]) -> OnwardMeet(Q, answers, k)
      [] OTHER -> [fat |-> Arrived(Q[k].slot, answers[k].of), all |-> TRUE]
MeetOf(Q, got, n) ==
    LET met == [k \in DOMAIN Q |-> RequestMeet(Q, got.answers, k, n)]
    IN [fats |-> [k \in DOMAIN Q |-> met[k].fat], all |-> got.all /\ \A k \in DOMAIN Q : met[k].all]
pmeet_internal(Q, n) == MeetOf(Q, node_get_payloads(n, Q), n)

\* clone_with_updated_payloads: the slots that have a payload left, under their keys.
UpdatedSlots(s, payloads) ==
    LET left == SelectSeq(<<1, 2>>, LAMBDA i : i \in DOMAIN s /\ payloads[i] # NoVal)
    IN ListNode([k \in DOMAIN left |-> [s[left[k]] EXCEPT !.of = payloads[left[k]]]])

\* A mutated form of FatMask: what the slots were not looked up for is forgotten.
FatMask_AsksNoMore(met) == {who \in {Self, Counter} : \A k \in DOMAIN met.fats : who \in met.fats[k].mask}
FatMask(met) ==
    {who \in {Self, Counter} : (who = Counter => met.all) /\ \A k \in DOMAIN met.fats : who \in met.fats[k].mask}
ListMeet(s, met) ==
    AnswerOf(FatMask(met), \A k \in DOMAIN met.fats : met.fats[k].of = NoVal,
             UpdatedSlots(s, [k \in DOMAIN met.fats |-> met.fats[k].of]))
list_pmeet(s, n) == ListMeet(s, pmeet_internal([k \in DOMAIN s |-> Request(s[k])], n))

\* The keys of self are what is looked up, so a list node meets any node.
list_pmeet_dyn(m, n) == IF m.slots = <<>> THEN None ELSE list_pmeet(m.slots, n)
byte_pmeet_dyn(m, n) == ByKind(n, invert_identity(pmeet_dyn(n, m)), byte_pmeet(m, n), None)
empty_pmeet_dyn(n) == Identity(MaskIf(TRUE, node_is_empty(n)))
pmeet_dyn(m, n) ==
    IF ptr_eq(m, n) THEN Identity({Self, Counter})
    ELSE ByKind(m, list_pmeet_dyn(m, n), byte_pmeet_dyn(m, n), empty_pmeet_dyn(n))

----------------------------------------------------------------------------
(* Subtract and restrict of a list node: each slot on its own.             *)

\* follow_path: the node that holds key, and what is left of the key there.
Nowhere_ == [some |-> FALSE, node |-> NoNode, key |-> <<>>]
RECURSIVE follow_path(_, _)
FollowFrom(n, key, c) ==
    CASE 0 < c.len /\ c.len < Len(key) -> follow_path(c.of, Drop(key, c.len))
      [] c.len = Len(key) \/ (c.len = 0 /\ node_contains_partial_key(n, key)) -> [some |-> TRUE, node |-> n, key |-> key]
      [] OTHER -> Nowhere_
follow_path(n, key) == FollowFrom(n, key, node_get_child(n, key))

\* follow_path_to_value: a value at key or above it ends the walk.
RECURSIVE value_along_path(_, _)
ValueFrom(n, key, c) ==
    \/ node_first_val_depth_along_key(n, key) # NoDepth
    \/ (0 < c.len /\ c.len < Len(key) /\ value_along_path(c.of, Drop(key, c.len)))
value_along_path(n, key) == ValueFrom(n, key, node_get_child(n, key))

LinkLess(x, at) == IF at = NoNode THEN Identity({Self}) ELSE psubtract_dyn(x.of, at)
SlotLess(x, f) ==
    CASE ~f.some -> Identity({Self})
      [] f.some /\ x.child -> IF node_is_empty(x.of) THEN None ELSE LinkLess(x, NodeAtKey(f.node, f.key))
      [] OTHER -> opt_val_psubtract(x.of, node_get_val(f.node, f.key))
subtract_from_slot_contents(x, n) == SlotLess(x, follow_path(n, x.key))

LinkWithin(x, at) == IF at = NoNode THEN None ELSE prestrict_dyn(x.of, at)
SlotWithin(x, f) == IF f.some /\ x.child THEN LinkWithin(x, NodeAtKey(f.node, f.key)) ELSE None
restrict_slot_contents(x, n) ==
    IF value_along_path(n, x.key) THEN Identity({Self}) ELSE SlotWithin(x, follow_path(n, x.key))

combine_slot_results(s, at) ==
    AnswerOf(MaskIf(\A i \in DOMAIN at : IsIdentity(at[i], Self), FALSE), \A i \in DOMAIN at : at[i] = None,
             UpdatedSlots(s, [i \in DOMAIN at |-> Resolve(at[i], s[i].of, s[i].of, NoVal)]))

list_psubtract_dyn(m, n) ==
    combine_slot_results(m.slots, [i \in DOMAIN m.slots |-> subtract_from_slot_contents(m.slots[i], n)])
byte_psubtract_dyn(m, n) == ByKind(n, psubtract_abstract(m, n), byte_psubtract(m, n), Identity({Self}))
psubtract_dyn(m, n) ==
    IF ptr_eq(m, n) THEN None ELSE ByKind(m, list_psubtract_dyn(m, n), byte_psubtract_dyn(m, n), None)

list_prestrict_dyn(m, n) ==
    combine_slot_results(m.slots, [i \in DOMAIN m.slots |-> restrict_slot_contents(m.slots[i], n)])
byte_prestrict_dyn(m, n) == ByKind(n, prestrict_abstract(m, n), byte_prestrict(m, n), None)
prestrict_dyn(m, n) == ByKind(m, list_prestrict_dyn(m, n), byte_prestrict_dyn(m, n), None)

----------------------------------------------------------------------------
(* drop_head: every path loses its first k bytes and what then coincides   *)
(* is joined.  NoLink when nothing is left.                                *)

RECURSIVE drop_head_dyn(_, _)
DropOnward(of, k) == CASE of = NoNode -> NoLink [] of # NoNode /\ k = 0 -> of [] OTHER -> drop_head_dyn(of, k)

\* One slot under key, and an answer that stands for both slots of the node.
OneSlot(key, x) == ListNode(<<[x EXCEPT !.key = key]>>)
factor_prefix(s) ==
    LET o == Overlap(s[1].key, s[2].key)
        r == merge_guts(o, s[1], s[2], ValueBeside(s, 1, s[2].key), ValueBeside(s, 2, s[1].key))
    IN CASE o = 0 -> ListNode(s)
         [] o = 1 /\ Len(s[1].key) = 1 /\ ~s[1].child ->
              ListNode(IF Len(s[2].key) = 1 /\ IsSentinel(s[2]) THEN <<s[1]>> ELSE s)
         [] o = 1 /\ Len(s[1].key) = 1 /\ s[1].child /\ Len(s[2].key) = 1 /\ ~s[2].child ->
              ListNode(IF IsSentinel(s[1]) THEN <<s[2]>> ELSE s)
         [] OTHER -> CASE r.is = "element" -> ListNode(<<r.of>>) [] r.is = "identity" -> ListNode(<<s[1]>>) [] OTHER -> ListNode(s)

\* Both keys survive.
LexLess(x, y) ==
    LET o == Overlap(x, y) IN o = Len(x) \/ (o < Len(y) /\ x[o + 1] < y[o + 1])
\* A mutated form of SameEntry: the first is kept.
SameEntry_First(x, y) == ListNode(<<x>>)
SameEntry(x, y) ==
    LET r == IF x.child THEN pjoin(x.of, y.of) ELSE val_pjoin(x.of, y.of)
    IN IF r = None THEN NoLink ELSE ListNode(<<[x EXCEPT !.of = Resolve(r, x.of, y.of, x.of)]>>)
Shortened(x, y) ==
    IF x.key = y.key /\ x.child = y.child THEN SameEntry(x, y)
    ELSE factor_prefix(IF LexLess(x.key, y.key) THEN <<x, y>> ELSE <<y, x>>)

\* A key is used up: what follows its last byte is merged and dropped from in turn.
ChoppedLink(s, r) == IF r.is = "element" THEN r.of.of ELSE IF Self \in r.mask THEN s[1].of ELSE s[2].of
Chopped(s, chop) ==
    LET x == Cut(s[1], chop - 1)  y == Cut(s[2], chop - 1)
    IN ChoppedLink(s, merge_guts(Overlap(Drop(x.key, 1), Drop(y.key, 1)) + 1, x, y,
                                 ValueBeside(s, 1, y.key), ValueBeside(s, 2, x.key)))

DropFromTwo(s, k, chop) ==
    IF k < chop THEN Shortened(Cut(s[1], k), Cut(s[2], k)) ELSE DropOnward(Chopped(s, chop), k - chop)
DropFromOne(x, k) == IF k < Len(x.key) THEN ListNode(<<Cut(x, k)>>) ELSE DropOnward(x.of, k - Len(x.key))
DropFromSlots(s, k) ==
    CASE s = <<>> -> NoLink
      [] Len(s) = 1 -> DropFromOne(s[1], k)
      [] OTHER -> DropFromTwo(s, k, Min({Len(s[1].key), Len(s[2].key)}))
list_drop_head(s, k) == DropFromSlots(SelectSeq(s, LAMBDA x : x.child \/ k < Len(x.key)), k)

\* The children of a byte node are joined from the highest byte down.
ChildDropped(c, k) == IF c.rec = NoLink THEN NoLink ELSE DropOnward(c.rec, k)
DroppedInto(n, of) == IF of = NoLink THEN n ELSE join_into_dyn(n, of).node
EmptyIsNone(n) == IF node_is_empty(n) THEN NoLink ELSE n
byte_drop_head(n, k) ==
    CASE Cardinality(DOMAIN n.cells) = 0 -> NoLink
      [] Cardinality(DOMAIN n.cells) = 1 -> ChildDropped(n.cells[Max(DOMAIN n.cells)], k - 1)
      [] OTHER -> EmptyIsNone(FoldLeft(LAMBDA a, b : DroppedInto(a, ChildDropped(n.cells[b], k - 1)), ByteNode(<<>>),
                                       SetToSortSeq(DOMAIN n.cells, LAMBDA a, b : a > b)))
drop_head_dyn(n, k) == ByKind(n, list_drop_head(n.slots, k), byte_drop_head(n, k), NoLink)
=============================================================================
