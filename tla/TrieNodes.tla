------------------------------ MODULE TrieNodes ------------------------------
(***************************************************************************)
(* The nodes a PathMap is built from and what their operations do:         *)
(* LineListNode (src/src/line_list_node.rs), at most two slots sharing a   *)
(* key buffer of KeyCap bytes, each slot a value or a link to a child; and *)
(* ByteNode (src/src/dense_byte_node.rs), a cell for each byte in use,     *)
(* with an optional link and an optional value.  A link may be the empty   *)
(* sentinel, NoNode: the path exists and dangles.                          *)
(*                                                                         *)
(* An operation on a node returns the node after it, because an operation  *)
(* may answer with a replacement (a list node that overflows becomes a     *)
(* byte node).  Reference counts and copy-on-write are in NodeRc.          *)
(***************************************************************************)
EXTENDS Integers, SequencesExt

CONSTANTS
    KeyCap,     \* KEY_BYTES_CNT: bytes of key storage in a list node
    NoVal       \* Option::None for values

ASSUME KeyCapAssumption == KeyCap \in Nat \ {0, 1}

Take(k, n) == SubSeq(k, 1, n)
Drop(k, n) == SubSeq(k, n + 1, Len(k))
Overlap(j, k) == Max({n \in 0..Min({Len(j), Len(k)}) : Take(j, n) = Take(k, n)})

NoNode == [tag |-> "none"]               \* the empty sentinel (TrieNodeODRc::new_empty)
NoLink == [tag |-> "nolink"]             \* Option::None for a cell's link
ListNode(slots) == [tag |-> "list", slots |-> slots]
ByteNode(cells) == [tag |-> "byte", cells |-> cells]
NewNode == ListNode(<<>>)                \* an allocated node with nothing in it

NoPrune == 255      \* prune_limit = usize::MAX: the path of the focus stays whatever happens

Slot(key, child, of) == [key |-> key, child |-> child, of |-> of]
NoCell == [rec |-> NoLink, val |-> NoVal]

\* An operation is asked of a TaggedNodeRef, which passes it to the node by its
\* kind; the sentinel has a fixed answer.
ByKind(n, list, byte, empty) ==
    CASE n.tag = "list" -> list
      [] n.tag = "byte" -> byte
      [] OTHER -> empty

list_is_empty(n) == n.slots = <<>>
byte_is_empty(n) == DOMAIN n.cells = {}
node_is_empty(n) == ByKind(n, list_is_empty(n), byte_is_empty(n), TRUE)

\* A step's outcome: the node, what the operation returns, whether nodes were
\* created under the key, and whether the node is a replacement (Err in the code).
Done(n, ret, sub) == [node |-> n, ret |-> ret, sub |-> sub, err |-> FALSE]
Upgrade(n)        == [node |-> n, ret |-> NoVal, sub |-> TRUE, err |-> TRUE]

----------------------------------------------------------------------------
(* Reading a node.                                                         *)

\* The link that consumes a prefix of key; len = 0 when there is none.  A list
\* node answers with its first slot that matches.
MatchingLinks(n, key) == {i \in DOMAIN n.slots : n.slots[i].child /\ IsPrefix(n.slots[i].key, key)}

NoChild == [len |-> 0, of |-> NoNode]
LinkOf(x) == [len |-> Len(x.key), of |-> x.of]
list_get_child(n, key) ==
    IF MatchingLinks(n, key) # {} THEN LinkOf(n.slots[Min(MatchingLinks(n, key))]) ELSE NoChild
byte_get_child(n, key) ==
    IF Len(key) > 0 /\ key[1] \in DOMAIN n.cells /\ n.cells[key[1]].rec # NoLink
    THEN [len |-> 1, of |-> n.cells[key[1]].rec] ELSE NoChild
node_get_child(n, key) == ByKind(n, list_get_child(n, key), byte_get_child(n, key), NoChild)

\* The mutable accessors do not hand out the sentinel.
NotSentinel(c) == IF c.of = NoNode THEN NoChild ELSE c
list_get_child_mut(n, key) == NotSentinel(list_get_child(n, key))
byte_get_child_mut(n, key) == NotSentinel(byte_get_child(n, key))
node_get_child_mut(n, key) == ByKind(n, list_get_child_mut(n, key), byte_get_child_mut(n, key), NoChild)

list_contains_partial_key(n, key) == \E i \in DOMAIN n.slots : IsPrefix(key, n.slots[i].key)
byte_contains_partial_key(n, key) == Len(key) = 1 /\ key[1] \in DOMAIN n.cells
node_contains_partial_key(n, key) ==
    ByKind(n, list_contains_partial_key(n, key), byte_contains_partial_key(n, key), FALSE)

\* The slots with this key and payload of this kind.
Exactly(n, child, key) == {i \in DOMAIN n.slots : n.slots[i].child = child /\ n.slots[i].key = key}
list_contains_val(n, key) == Exactly(n, FALSE, key) # {}
byte_contains_val(n, key) == byte_contains_partial_key(n, key) /\ n.cells[key[1]].val # NoVal
node_contains_val(n, key) == ByKind(n, list_contains_val(n, key), byte_contains_val(n, key), FALSE)

list_get_val(n, key) == IF list_contains_val(n, key) THEN n.slots[Min(Exactly(n, FALSE, key))].of ELSE NoVal
byte_get_val(n, key) == IF byte_contains_partial_key(n, key) THEN n.cells[key[1]].val ELSE NoVal
node_get_val(n, key) == ByKind(n, list_get_val(n, key), byte_get_val(n, key), NoVal)

\* Where along key the node has its first value: the bytes before the last one of its path.
NoDepth == -1
ValSlotsAlong(n, key) == {i \in DOMAIN n.slots : ~n.slots[i].child /\ IsPrefix(n.slots[i].key, key)}
list_first_val_depth(n, key) ==
    IF ValSlotsAlong(n, key) # {} THEN Len(n.slots[Min(ValSlotsAlong(n, key))].key) - 1 ELSE NoDepth
byte_first_val_depth(n, key) == IF byte_contains_val(n, Take(key, 1)) THEN 0 ELSE NoDepth
node_first_val_depth_along_key(n, key) ==
    ByKind(n, list_first_val_depth(n, key), byte_first_val_depth(n, key), NoDepth)

list_branches_mask(n, key) ==
    {x.key[Len(key) + 1] : x \in {y \in ToSet(n.slots) : IsStrictPrefix(key, y.key)}}
byte_branches_mask(n, key) == IF key = <<>> THEN DOMAIN n.cells ELSE {}
node_branches_mask(n, key) == ByKind(n, list_branches_mask(n, key), byte_branches_mask(n, key), {})

\* A mutated form of BranchesBelow: a child node is not looked into.
BranchesBelow_ThisNode(n, key) == node_branches_mask(n, key)

\* node_count_branches_recursive: how the zipper counts what is below its focus.
BranchesFrom(n, key, c) ==
    IF key # <<>> /\ c.len > 0 THEN node_branches_mask(c.of, Drop(key, c.len)) ELSE node_branches_mask(n, key)
BranchesBelow(n, key) == BranchesFrom(n, key, node_get_child(n, key))

\* The last branching or value position above key in the node.
list_prior_branch_key(n, key) ==
    LET above == {i \in DOMAIN n.slots : IsStrictPrefix(n.slots[i].key, key)}
    IN CASE Len(key) > 1 /\ above # {} -> n.slots[Max(above)].key
         [] Len(key) > 1 /\ above = {} /\ Len(n.slots) = 2 /\ (\A i \in 1..2 : n.slots[i].key[1] = key[1]) -> Take(key, 1)
         [] OTHER -> <<>>
byte_prior_branch_key(n, key) == IF Len(key) > 1 /\ key[1] \in DOMAIN n.cells THEN Take(key, 1) ELSE <<>>
prior_branch_key(n, key) == ByKind(n, list_prior_branch_key(n, key), byte_prior_branch_key(n, key), <<>>)

\* The node that begins at key, made up when key ends inside a slot's key.
Nowhere == [some |-> FALSE, of |-> NoNode]
Beyond(n, key) == {i \in DOMAIN n.slots : IsStrictPrefix(key, n.slots[i].key)}
Remainder(x, len) == ListNode(<<Slot(Drop(x.key, len), x.child, x.of)>>)
WholeNode(n) == [some |-> ~node_is_empty(n), of |-> n]
list_get_node_at_key(n, key) ==
    CASE key = <<>> -> WholeNode(n)
      [] Exactly(n, TRUE, key) # {} -> [some |-> TRUE, of |-> n.slots[Min(Exactly(n, TRUE, key))].of]
      [] key # <<>> /\ Exactly(n, TRUE, key) = {} /\ Beyond(n, key) # {} ->
           [some |-> TRUE, of |-> Remainder(n.slots[Min(Beyond(n, key))], Len(key))]
      [] OTHER -> Nowhere
byte_get_node_at_key(n, key) ==
    CASE key = <<>> -> WholeNode(n)
      [] Len(key) = 1 /\ byte_get_child(n, key).len > 0 -> [some |-> TRUE, of |-> n.cells[key[1]].rec]
      [] OTHER -> Nowhere
get_node_at_key(n, key) == ByKind(n, list_get_node_at_key(n, key), byte_get_node_at_key(n, key), Nowhere)

----------------------------------------------------------------------------
(* Byte nodes: cells.                                                      *)

Cell(n, b) == IF b \in DOMAIN n.cells THEN n.cells[b] ELSE NoCell
SetCell(n, b, c) == ByteNode([x \in DOMAIN n.cells \cup {b} |-> IF x = b THEN c ELSE n.cells[x]])
ClearCell(n, b) == ByteNode([x \in DOMAIN n.cells \ {b} |-> n.cells[x]])
\* A mutated form of set_child: the cell's value is forgotten.
set_child_FreshCell(n, b, node) == SetCell(n, b, [rec |-> node, val |-> NoVal])
set_child(n, b, node) == SetCell(n, b, [Cell(n, b) EXCEPT !.rec = node])
set_val(n, b, v) == SetCell(n, b, [Cell(n, b) EXCEPT !.val = v])
set_dangling_cf(n, b) == SetCell(n, b, Cell(n, b))

----------------------------------------------------------------------------
(* List nodes: slots.                                                      *)

\* Slot i goes; what was slot 2 is then slot 1.
take_payload(s, i) == RemoveAt(s, i)

IsSentinel(x) == x.child /\ x.of = NoNode
IsBare(x) == x.child /\ node_is_empty(x.of)
SplitSlot(s, i, len) ==
    [s EXCEPT ![i] = Slot(Take(@.key, len), TRUE, Remainder(@, len))]
Dangle(s, i, len) == [s EXCEPT ![i] = Slot(Take(@.key, len), TRUE, NoNode)]

\* remove_dangling_payload_along_key: slot 1 is looked at after slot 0 is gone.
DropSentinel(s, i, key) ==
    IF i <= Len(s) /\ IsSentinel(s[i]) /\ IsPrefix(s[i].key, key) THEN take_payload(s, i) ELSE s
DropSentinelsAlong(s, key) == DropSentinel(DropSentinel(s, 1, key), 2, key)

\* A key longer than the buffer continues in further nodes.
RECURSIVE Chain(_, _, _)
Chain(key, child, of) ==
    IF Len(key) <= KeyCap THEN <<Slot(key, child, of)>>
    ELSE <<Slot(Take(key, KeyCap), TRUE, ListNode(Chain(Drop(key, KeyCap), child, of)))>>

\* A mutated form of should_swap_keys: keys that share their first byte are left as they come.
should_swap_keys_FirstByte(key0, key1) == key0[1] > key1[1]

\* key0 sorts after key1, by its first byte or, when they share it, by length.
should_swap_keys(key0, key1) ==
    \/ key0[1] > key1[1]
    \/ key0[1] = key1[1] /\ Len(key0) > Len(key1)

\* A mutated form of AddSlot: the first key keeps the room it has.
AddSlot_NoRoom(s, key, child, of) ==
    Done(ListNode(IF should_swap_keys(s[1].key, key) THEN Chain(key, child, of) \o s ELSE s \o Chain(key, child, of)),
         NoVal, Len(key) > KeyCap)

\* The second slot is filled with what fits; a full first key is cut in half.
Fitting(room, key, child, of) ==
    IF Len(key) <= room THEN Slot(key, child, of)
    ELSE Slot(Take(key, room), TRUE, ListNode(Chain(Drop(key, room), child, of)))
InOrder(swap, x, y) == ListNode(IF swap THEN <<y, x>> ELSE <<x, y>>)
AddBeside(first, old, key, child, of) ==
    Done(InOrder(should_swap_keys(first.key, key), old, Fitting(KeyCap - Len(old.key), key, child, of)), NoVal,
         old # first \/ Len(key) > KeyCap - Len(old.key))
AddSlot(s, key, child, of) ==
    AddBeside(s[1], IF Len(s[1].key) < KeyCap THEN s[1] ELSE SplitSlot(s, 1, KeyCap \div 2)[1], key, child, of)

\* One slot's content in a byte node: what follows the first byte of the key
\* goes to a list node of its own.
IntoCell(n, x) ==
    CASE Len(x.key) > 1 -> set_child(n, x.key[1], Remainder(x, 1))
      [] Len(x.key) = 1 /\ x.child -> set_child(n, x.key[1], x.of)
      [] OTHER -> set_val(n, x.key[1], x.of)

convert_to_dense(s) == ByteNode(FoldLeft(IntoCell, ByteNode(<<>>), s).cells)

----------------------------------------------------------------------------
(* Putting a value, a link or a dangling path into a node.                 *)

\* How much of slot x's key a new key can share: at least a byte of each is left.
Shared(x, key) == Min({Overlap(x.key, key), Len(x.key) - 1, Len(key) - 1})

\* A mutated form of Covers: a link takes the place of the value at its own path too.
Covers_Values(x, key, child) == child /\ IsPrefix(key, x.key)

\* A link set at or above slot x's link, or above its value, replaces the slot.
Covers(x, key, child) == child /\ IsPrefix(key, x.key) /\ (x.child \/ Len(x.key) > Len(key))

RECURSIVE node_set_val(_, _, _)
RECURSIVE node_set_branch(_, _, _)
RECURSIVE set_payload_abstract(_, _, _, _)
set_payload_recursive(n, key, child, of) == IF child THEN node_set_branch(n, key, of) ELSE node_set_val(n, key, of)

\* The new entry goes below the part it shares with slot i.
WithBelow(s, i, below) ==
    IF below.err THEN below ELSE Done(ListNode([s EXCEPT ![i].of = below.node]), below.ret, TRUE)
SetBelow(s, i, key, child, of) == WithBelow(s, i, set_payload_recursive(s[i].of, key, child, of))
SplitAndSet(s, i, len, key, child, of) == SetBelow(SplitSlot(s, i, len), i, Drop(key, len), child, of)

\* A byte node keeps one byte of the key; the rest goes to a list node of its own.
byte_set_val(n, key, v) ==
    IF Len(key) > 1 THEN Done(set_child(n, key[1], node_set_val(NewNode, Drop(key, 1), v).node), NoVal, TRUE)
    ELSE Done(set_val(n, key[1], v), Cell(n, key[1]).val, FALSE)
byte_set_branch(n, key, of) ==
    IF Len(key) > 1 THEN Done(set_child(n, key[1], node_set_branch(NewNode, Drop(key, 1), of).node), NoVal, TRUE)
    ELSE Done(set_child(n, key[1], of), NoVal, FALSE)

\* A list node with no room becomes a byte node that has the new entry too.
Upgraded(n, key, child, of) ==
    Upgrade((IF child THEN byte_set_branch(n, key, of) ELSE byte_set_val(n, key, of)).node)

\* Slot i is in the way of the new entry: it goes, or it is split.
InTheWay(s, key, child) == {i \in DOMAIN s : Covers(s[i], key, child) \/ Shared(s[i], key) > 0}
MakeRoom(s, i, key, child, of) ==
    IF Covers(s[i], key, child) THEN set_payload_abstract(ListNode(take_payload(s, i)), key, child, of)
    ELSE SplitAndSet(s, i, Shared(s[i], key), key, child, of)

SetAmong(s, inTheWay, key, child, of) ==
    CASE s = <<>> -> Done(ListNode(Chain(key, child, of)), NoVal, Len(key) > KeyCap)
      [] inTheWay # {} -> MakeRoom(s, Min(inTheWay), key, child, of)
      [] Len(s) = 1 /\ inTheWay = {} -> AddSlot(s, key, child, of)
      [] OTHER -> Upgraded(convert_to_dense(s), key, child, of)
SetInSlots(s, key, child, of) == SetAmong(s, InTheWay(s, key, child), key, child, of)

Overwrite(n, i, of) == Done(ListNode([n.slots EXCEPT ![i].of = of]), n.slots[i].of, FALSE)
set_payload_abstract(n, key, child, of) ==
    IF Exactly(n, child, key) # {} THEN Overwrite(n, Min(Exactly(n, child, key)), of)
    ELSE SetInSlots(DropSentinelsAlong(n.slots, key), key, child, of)

list_set_val(n, key, v) == set_payload_abstract(n, key, FALSE, v)
list_set_branch(n, key, of) == [set_payload_abstract(n, key, TRUE, of) EXCEPT !.ret = NoVal]
node_set_val(n, key, v) == IF n.tag = "byte" THEN byte_set_val(n, key, v) ELSE list_set_val(n, key, v)
node_set_branch(n, key, of) == IF n.tag = "byte" THEN byte_set_branch(n, key, of) ELSE list_set_branch(n, key, of)

RECURSIVE node_create_dangling(_, _)
list_create_dangling(n, key) ==
    IF node_contains_partial_key(n, key) THEN Done(n, FALSE, FALSE)
    ELSE [set_payload_abstract(n, key, TRUE, NoNode) EXCEPT !.ret = TRUE]
byte_create_dangling(n, key) ==
    IF Len(key) > 1 THEN Done(set_child(n, key[1], node_create_dangling(NewNode, Drop(key, 1)).node), TRUE, TRUE)
    ELSE Done(set_dangling_cf(n, key[1]), key[1] \notin DOMAIN n.cells, FALSE)
node_create_dangling(n, key) == IF n.tag = "byte" THEN byte_create_dangling(n, key) ELSE list_create_dangling(n, key)

----------------------------------------------------------------------------
(* Removing from a node.  A path shorter than the prune limit stays.       *)

preserve_prune_limit(n, key, limit) ==
    IF 0 < limit /\ limit < Len(key) THEN node_create_dangling(n, Take(key, limit)).node ELSE n

OtherKey(s, i) == IF Len(s) = 2 THEN s[3 - i].key ELSE <<>>
ListOr(s, i, p, q) == ListNode(IF p THEN take_payload(s, i) ELSE q)

\* Cell b goes when it is not needed; otherwise c is what is left of it.
ClearOr(n, b, clear, c) == IF clear THEN ClearCell(n, b) ELSE SetCell(n, b, c)
NoNodeIn(c) == c.rec = NoLink \/ node_is_empty(c.rec)
remove_cell_val(n, b, limit) ==
    Done(ClearOr(n, b, limit = 0 /\ NoNodeIn(Cell(n, b)), [Cell(n, b) EXCEPT !.val = NoVal]), Cell(n, b).val, FALSE)
byte_remove_val(n, key, limit) ==
    IF byte_contains_partial_key(n, key) THEN remove_cell_val(n, key[1], limit) ELSE Done(n, NoVal, FALSE)
BareSlots(n, key) == {i \in DOMAIN n.slots : IsBare(n.slots[i]) /\ n.slots[i].key = key}
OtherKeeps(s, i, key) == Len(key) = 1 /\ OtherKey(s, i) # <<>> /\ OtherKey(s, i)[1] = key[1]
swap_payload(s, i, child, of) == [s EXCEPT ![i] = Slot(@.key, child, of)]
ValOrDangling(s, i, key) == ListOr(s, i, OtherKeeps(s, i, key), swap_payload(s, i, TRUE, NoNode))
list_remove_val(n, key, limit) ==
    CASE limit >= Len(key) /\ Exactly(n, FALSE, key) # {} ->
           Done(ValOrDangling(n.slots, Min(Exactly(n, FALSE, key)), key), node_get_val(n, key), FALSE)
      [] limit < Len(key) /\ Exactly(n, FALSE, key) \cup BareSlots(n, key) # {} ->
           Done(preserve_prune_limit(ListNode(take_payload(n.slots, Min(IF Exactly(n, FALSE, key) # {}
                                                                     THEN Exactly(n, FALSE, key) ELSE BareSlots(n, key)))),
                                     key, limit),
                node_get_val(n, key), FALSE)
      [] OTHER -> Done(n, NoVal, FALSE)
node_remove_val(n, key, limit) ==
    ByKind(n, list_remove_val(n, key, limit), byte_remove_val(n, key, limit), Done(n, NoVal, FALSE))

\* prune_path's step in the focus node: the number of bytes that went.
DanglingCell(n, b, c) ==
    CASE c.val = NoVal /\ NoNodeIn(c) -> Done(ClearCell(n, b), 1, FALSE)
      [] c.val # NoVal /\ NoNodeIn(c) -> Done(SetCell(n, b, [c EXCEPT !.rec = NoLink]), 0, FALSE)
      [] OTHER -> Done(n, 0, FALSE)
byte_remove_dangling(n, key, keep) ==
    IF keep < Len(key) /\ byte_contains_partial_key(n, key) THEN DanglingCell(n, key[1], Cell(n, key[1]))
    ELSE Done(n, 0, FALSE)

\* Slot i is cut back to `keep` bytes, or goes when the other key, which shares o
\* bytes with it, keeps as much of the path.
CutSlot(s, i, key, keep, o) ==
    CASE keep > 0 /\ o = Len(key) -> Done(ListNode(s), 0, FALSE)
      [] keep > 0 /\ o < Len(key) ->
           Done(ListOr(s, i, o >= keep, [s EXCEPT ![i].key = Take(key, keep)]), Len(key) - Max({o, keep}), FALSE)
      [] OTHER -> Done(ListNode(take_payload(s, i)), IF o > 0 THEN Len(key) - 1 ELSE Len(key), FALSE)
SlotCut(s, i, key, keep) == CutSlot(s, i, key, keep, Overlap(key, OtherKey(s, i)))
list_remove_dangling(n, key, keep) ==
    IF keep < Len(key) /\ BareSlots(n, key) # {} THEN SlotCut(n.slots, Min(BareSlots(n, key)), key, keep)
    ELSE Done(n, 0, FALSE)
node_remove_dangling(n, key, keep) ==
    ByKind(n, list_remove_dangling(n, key, keep), byte_remove_dangling(n, key, keep), Done(n, 0, FALSE))

\* A mutated form of remove_subtries: both slots may be cut back to the same dangling key.
remove_subtries_Twice(s, R, key, prune) ==
    LET cut(t, i) == IF i \notin R THEN t ELSE IF prune \/ key = <<>> THEN RemoveAt(t, i) ELSE Dangle(t, i, Len(key))
    IN cut(cut(s, 2), 1)

\* The slots of R go, or are cut back to a dangling key; slot 2 first, because
\* removing slot 1 moves it.
CutBack(s, i, key, whole) == IF whole \/ key = <<>> THEN take_payload(s, i) ELSE Dangle(s, i, Len(key))
ValueIn(s, i, key) == i \in DOMAIN s /\ ~s[i].child /\ s[i].key = key
remove_second(s, R, key, prune) ==
    IF 2 \in R THEN CutBack(s, 2, key, prune \/ IsPrefix(key, s[1].key)) ELSE s
remove_first(s, R, key, prune) ==
    IF 1 \in R THEN CutBack(s, 1, key, prune \/ (Len(key) = 1 /\ ValueIn(s, 2, key))) ELSE s
remove_subtries(s, R, key, prune) == remove_first(remove_second(s, R, key, prune), R, key, prune)

RemoveSlots(n, R, key, limit) ==
    preserve_prune_limit(ListNode(remove_subtries(n.slots, R, key, limit < Len(key))), key, IF R # {} THEN limit ELSE 0)

BranchSlots(n, key) ==
    {i \in DOMAIN n.slots : IsPrefix(key, n.slots[i].key) /\ (Len(n.slots[i].key) > Len(key) \/ n.slots[i].child)}
list_remove_all_branches(n, key, limit) ==
    Done(RemoveSlots(n, BranchSlots(n, key), key, limit),
         \E i \in BranchSlots(n, key) : Len(n.slots[i].key) > Len(key) \/ ~IsBare(n.slots[i]), FALSE)
Unlinked(n, b, c, limit) == ClearOr(n, b, c.val = NoVal /\ limit = 0, [c EXCEPT !.rec = NoLink])
byte_remove_all_branches(n, key, limit) ==
    IF byte_contains_partial_key(n, key)
    THEN Done(Unlinked(n, key[1], Cell(n, key[1]), limit), ~NoNodeIn(Cell(n, key[1])), FALSE)
    ELSE Done(n, FALSE, FALSE)
node_remove_all_branches(n, key, limit) ==
    ByKind(n, list_remove_all_branches(n, key, limit), byte_remove_all_branches(n, key, limit), Done(n, FALSE, FALSE))

list_remove_unmasked_branches(n, key, mask, limit) ==
    RemoveSlots(n, {i \in DOMAIN n.slots :
                      /\ IsPrefix(key, n.slots[i].key)
                      /\ IF Len(n.slots[i].key) > Len(key) THEN n.slots[i].key[Len(key) + 1] \notin mask
                         ELSE limit < Len(key) /\ IsSentinel(n.slots[i])}, key, limit)
byte_remove_unmasked_branches(n, key, mask, limit) ==
    CASE key = <<>> -> ByteNode(Restrict(n.cells, DOMAIN n.cells \cap mask))
      [] Len(key) = 1 /\ limit = 0 -> byte_remove_dangling(n, key, 0).node
      [] OTHER -> n
node_remove_unmasked_branches(n, key, mask, limit) ==
    ByKind(n, list_remove_unmasked_branches(n, key, mask, limit), byte_remove_unmasked_branches(n, key, mask, limit), n)

\* The node at key leaves; what stays may be a dangling key.
NotTaken(n) == [some |-> FALSE, of |-> NoNode, node |-> n]
Taken(of, n) == [some |-> TRUE, of |-> of, node |-> n]
SlotLeft(s, i, key, limit, whole) == preserve_prune_limit(ListOr(s, i, whole, Dangle(s, i, Len(key))), key, limit)
\* Slot i is taken, all of it or what its key has beyond `key`.
TakeSlot(s, i, key, limit, beyond) ==
    Taken(IF beyond THEN Remainder(s[i], Len(key)) ELSE s[i].of,
          SlotLeft(s, i, key, limit, \/ limit < Len(key)
                                     \/ Len(key) = 1 /\ ValueIn(s, 3 - i, key) /\ (beyond => i = 2)))
list_take_node_at_key(n, key, limit) ==
    IF Exactly(n, TRUE, key) \cup Beyond(n, key) # {}
    THEN TakeSlot(n.slots, Min(IF Exactly(n, TRUE, key) # {} THEN Exactly(n, TRUE, key) ELSE Beyond(n, key)),
                  key, limit, Exactly(n, TRUE, key) = {})
    ELSE NotTaken(n)
TakeLink(n, b, c, limit) == [some |-> c.rec # NoLink, of |-> c.rec, node |-> Unlinked(n, b, c, limit)]
byte_take_node_at_key(n, key, limit) ==
    IF byte_contains_partial_key(n, key) THEN TakeLink(n, key[1], Cell(n, key[1]), limit) ELSE NotTaken(n)
take_node_at_key(n, key, limit) ==
    ByKind(n, list_take_node_at_key(n, key, limit), byte_take_node_at_key(n, key, limit), NotTaken(n))

----------------------------------------------------------------------------
(* Walking from node to node.  A node is named by the path at which it     *)
(* begins, relative to the root of the walk.                               *)

\* node_along_path_mut: how much of path is consumed; with early, the last step
\* leaves a byte.
RECURSIVE Along(_, _, _)
AlongFrom(c, path, early) ==
    IF path # <<>> /\ c.len > 0 /\ (c.len < Len(path) \/ ~early)
    THEN c.len + Along(c.of, Drop(path, c.len), early) ELSE 0
Along(n, path, early) == AlongFrom(node_get_child_mut(n, path), path, early)

RECURSIVE NodeAt(_, _)
NodeFrom(c, at) == IF c.len = 0 THEN NoNode ELSE NodeAt(c.of, Drop(at, c.len))
NodeAt(n, at) == IF at = <<>> THEN n ELSE NodeFrom(node_get_child(n, at), at)

list_replace_child(n, key, of) == ListNode([n.slots EXCEPT ![Min(MatchingLinks(n, key))].of = of])
byte_replace_child(n, key, of) == SetCell(n, key[1], [Cell(n, key[1]) EXCEPT !.rec = of])
node_replace_child(n, key, of) ==
    IF n.tag = "byte" THEN byte_replace_child(n, key, of) ELSE list_replace_child(n, key, of)

RECURSIVE Put(_, _, _)
PutFrom(n, c, at, new) == node_replace_child(n, Take(at, c.len), Put(c.of, Drop(at, c.len), new))
Put(n, at, new) == IF at = <<>> THEN new ELSE PutFrom(n, node_get_child(n, at), at, new)

\* node_along_path: where a reader finds path, the node that holds it and its key there.
RECURSIVE node_along_path(_, _)
HolderFrom(n, c, path) ==
    IF 0 < c.len /\ c.len < Len(path) THEN node_along_path(c.of, Drop(path, c.len)) ELSE [node |-> n, key |-> path]
node_along_path(n, path) == HolderFrom(n, node_get_child_mut(n, path), path)

PathIn(h) == h.key = <<>> \/ node_contains_partial_key(h.node, h.key)
ValIn(h) == node_get_val(h.node, h.key)
PathExistsAt(n, path) == PathIn(node_along_path(n, path))
ValAt(n, path) == ValIn(node_along_path(n, path))

----------------------------------------------------------------------------
(* validate_node: what every list node of a trie satisfies.                *)

PairOk(a, b) ==
    /\ ~(a.child /\ IsStrictPrefix(a.key, b.key))
    /\ ~IsStrictPrefix(b.key, a.key)
    /\ a.key = b.key => ~(a.child /\ b.child) /\ ~IsSentinel(a) /\ ~IsSentinel(b)
    /\ Overlap(a.key, b.key) > 0 => IsPrefix(a.key, b.key)
    /\ Overlap(a.key, b.key) < 2
    /\ Len(a.key) + Len(b.key) <= KeyCap
    /\ Overlap(a.key, b.key) = 0 => a.key[1] < b.key[1]
ListOk(s) ==
    /\ Len(s) <= 2 /\ \A i \in DOMAIN s : s[i].key # <<>> /\ Len(s[i].key) <= KeyCap
    /\ Len(s) = 2 => PairOk(s[1], s[2])

RECURSIVE AllNodesOk(_)
ListNodesOk(n) == ListOk(n.slots) /\ \A i \in DOMAIN n.slots : n.slots[i].child => AllNodesOk(n.slots[i].of)
AllNodesOk(n) == ByKind(n, ListNodesOk(n), \A b \in DOMAIN n.cells : AllNodesOk(n.cells[b].rec), TRUE)
=============================================================================
