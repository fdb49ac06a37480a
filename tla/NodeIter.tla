------------------------------- MODULE NodeIter -------------------------------
(***************************************************************************)
(* What a read zipper asks of a node: where a key lies among its keys, the *)
(* item after it, its children and siblings by byte.  A place inside a     *)
(* node is an iteration token (IterToken, src/src/trie_node.rs): for a     *)
(* list node an offset into its key buffer, for a byte node the byte after *)
(* the place; `miss` is the bit that marks a path the node does not have.  *)
(***************************************************************************)
EXTENDS TrieNodes

Tok(at)  == [at |-> at, miss |-> FALSE]
Miss(at) == [at |-> at, miss |-> TRUE]
LastAt     == 1000       \* all bits of the offset: beyond every offset a node has
TOKEN_LAST == Tok(LastAt)
TOKEN_AFTER_LAST == Miss(LastAt)
NODE_ITER_INVALID == Tok(-1)
NODE_ITER_FINISHED == Tok(-2)
BadToken == Tok(-3)      \* what a node would answer to a token it must not be given
Exhausted == [tok |-> NODE_ITER_FINISHED, key |-> <<>>, child |-> NoLink, val |-> NoVal]

\* Order of byte slices: a path before its extensions, then by the first byte that differs.
Before(p, q) == Overlap(p, q) < Len(q) /\ (Overlap(p, q) < Len(p) => p[Overlap(p, q) + 1] < q[Overlap(p, q) + 1])

\* get_both_keys: a slot that is not used has an empty key.
KeyIn(n, i) == IF i \in DOMAIN n.slots THEN n.slots[i].key ELSE <<>>
ChildIn(n, i) == IF i \in DOMAIN n.slots /\ n.slots[i].child THEN n.slots[i].of ELSE NoLink
ValSlot(n, i) == IF i \in DOMAIN n.slots /\ ~n.slots[i].child THEN n.slots[i].of ELSE NoVal
Used(n, i) == i \in DOMAIN n.slots
SameKeys(n) == Used(n, 2) /\ KeyIn(n, 1) = KeyIn(n, 2)
End0(n) == Len(KeyIn(n, 1))

list_key_overlap(n, key) == Max({Overlap(key, KeyIn(n, 1)), Overlap(key, KeyIn(n, 2))})
byte_key_overlap(n, key) == IF key[1] \in DOMAIN n.cells THEN 1 ELSE 0
node_key_overlap(n, key) == ByKind(n, list_key_overlap(n, key), byte_key_overlap(n, key), 0)

----------------------------------------------------------------------------
(* Tokens.                                                                 *)

new_iter_token(n) == Tok(0)

list_token_for_path(n, key) ==
    CASE key = <<>> -> new_iter_token(n)
      [] key # <<>> /\ key = KeyIn(n, 1) -> IF ~Used(n, 2) \/ SameKeys(n) THEN TOKEN_LAST ELSE Tok(Len(key))
      [] key # <<>> /\ IsStrictPrefix(key, KeyIn(n, 1)) -> Tok(Len(key))
      [] ~IsPrefix(key, KeyIn(n, 1)) /\ Before(key, KeyIn(n, 1)) -> Miss(0)
      [] Before(KeyIn(n, 1), key) /\ Used(n, 2) /\ key = KeyIn(n, 2) -> TOKEN_LAST
      [] Before(KeyIn(n, 1), key) /\ Used(n, 2) /\ IsStrictPrefix(key, KeyIn(n, 2)) -> Tok(End0(n) + Len(key))
      [] Before(KeyIn(n, 1), key) /\ Used(n, 2) /\ ~IsPrefix(key, KeyIn(n, 2)) /\ Before(key, KeyIn(n, 2)) -> Miss(End0(n))
      [] OTHER -> TOKEN_AFTER_LAST
byte_token_for_path(n, key) ==
    IF key = <<>> THEN new_iter_token(n) ELSE [at |-> key[1] + 1, miss |-> ~byte_contains_partial_key(n, key)]
empty_token_for_path(n, key) == IF key = <<>> THEN new_iter_token(n) ELSE TOKEN_AFTER_LAST
iter_token_for_path(n, key) ==
    ByKind(n, list_token_for_path(n, key), byte_token_for_path(n, key), empty_token_for_path(n, key))

\* A mutated form of InFirstKey: an offset in the second key always stays in the second key.
InFirstKey_Never(n, at) == FALSE

\* Is the prefix that ends `at` bytes into the second key also one of the first key?
\* It has one token only, the one in the first key.
InFirstKey(n, at) == at <= End0(n) /\ Take(KeyIn(n, 2), at) = Take(KeyIn(n, 1), at)

\* The token `count` bytes above one that is at bytes into the first key, or the second.
AscendIn0(at, count) == IF count <= at THEN Tok(at - count) ELSE BadToken
AscendIn1(n, at, count) ==
    CASE count > at -> BadToken
      [] count <= at /\ (at = count \/ InFirstKey(n, at - count)) -> Tok(at - count)
      [] OTHER -> Tok(End0(n) + at - count)
AscendOffset(n, at, count) ==
    IF at <= End0(n) THEN AscendIn0(at, count) ELSE AscendIn1(n, at - End0(n), count)
list_ascend_token(n, tok, count) ==
    CASE tok = TOKEN_LAST -> AscendOffset(n, End0(n) + Len(KeyIn(n, 2)), count)
      [] tok # TOKEN_LAST /\ tok.at > 0 /\ ~tok.miss -> AscendOffset(n, tok.at, count)
      [] OTHER -> BadToken
byte_ascend_token(n, tok, count) == IF count = 1 THEN new_iter_token(n) ELSE BadToken
ascend_iter_token(n, tok, count) ==
    ByKind(n, list_ascend_token(n, tok, count), byte_ascend_token(n, tok, count), BadToken)

\* next_items: the next place that holds a link or a value, and what it holds.
\* Two slots with the same one-byte key are one place.
Both(n) == [tok   |-> TOKEN_LAST, key |-> KeyIn(n, 1),
            child |-> IF ChildIn(n, 1) # NoLink THEN ChildIn(n, 1) ELSE ChildIn(n, 2),
            val   |-> IF ValSlot(n, 1) # NoVal THEN ValSlot(n, 1) ELSE ValSlot(n, 2)]
First(n) == [tok |-> IF Used(n, 2) THEN Tok(End0(n)) ELSE TOKEN_LAST, key |-> KeyIn(n, 1),
             child |-> ChildIn(n, 1), val |-> ValSlot(n, 1)]
Second(n) == [tok |-> TOKEN_LAST, key |-> KeyIn(n, 2), child |-> ChildIn(n, 2), val |-> ValSlot(n, 2)]

\* A mutated form of BelowFirst: what is below the first key counts as after it.
BelowFirst_Never(n, tok) == FALSE

\* The second key extends the first, so it is below a focus in the first.
BelowFirst(n, tok) == ~tok.miss /\ KeyIn(n, 1)[1] = KeyIn(n, 2)[1]
list_next_items(n, tok, after) ==
    CASE tok.at >= End0(n) + Len(KeyIn(n, 2)) -> Exhausted
      [] tok.at < End0(n) /\ ~(after /\ tok.at > 0) -> IF SameKeys(n) THEN Both(n) ELSE First(n)
      [] /\ tok.at < End0(n) + Len(KeyIn(n, 2))
         /\ tok.at >= End0(n) \/ (after /\ tok.at > 0)
         /\ Used(n, 2) /\ ~(after /\ tok.at > End0(n)) /\ ~(after /\ BelowFirst(n, tok)) -> Second(n)
      [] OTHER -> Exhausted
NextCell(n, tok) == {b \in DOMAIN n.cells : b >= tok.at}
CellItem(n, b) == [tok |-> Tok(b + 1), key |-> <<b>>, child |-> n.cells[b].rec, val |-> n.cells[b].val]
byte_next_items(n, tok) == IF NextCell(n, tok) # {} THEN CellItem(n, Min(NextCell(n, tok))) ELSE Exhausted
next_items(n, tok, after) == ByKind(n, list_next_items(n, tok, after), byte_next_items(n, tok), Exhausted)

----------------------------------------------------------------------------
(* Children and siblings.                                                  *)

NoStep == [byte |-> -1, node |-> NoLink]
Step(b, node) == [byte |-> b, node |-> node]

\* The byte after key in slot i, and the link there if the slot's key ends with it.
StepInto(n, i, key) ==
    Step(KeyIn(n, i)[Len(key) + 1], IF Len(KeyIn(n, i)) = Len(key) + 1 THEN ChildIn(n, i) ELSE NoLink)
Continues(n, i, key) == IsStrictPrefix(key, KeyIn(n, i))
SharedLink(n) == IF ChildIn(n, 1) # NoLink THEN ChildIn(n, 1) ELSE ChildIn(n, 2)
list_nth_child(n, key, i) ==
    CASE i = 0 /\ Continues(n, 1, key) /\ ~SameKeys(n) -> StepInto(n, 1, key)
      [] i = 0 /\ Continues(n, 1, key) /\ SameKeys(n) -> Step(KeyIn(n, 1)[1], SharedLink(n))
      [] i = 0 /\ ~Continues(n, 1, key) /\ Continues(n, 2, key) -> StepInto(n, 2, key)
      [] i = 1 /\ key = <<>> /\ Used(n, 2) /\ KeyIn(n, 1)[1] # KeyIn(n, 2)[1] -> StepInto(n, 2, key)
      [] OTHER -> NoStep
NthCell(n, i) == CHOOSE b \in DOMAIN n.cells : Cardinality({c \in DOMAIN n.cells : c < b}) = i
byte_nth_child(n, key, i) ==
    IF key = <<>> /\ i < Cardinality(DOMAIN n.cells) THEN Step(NthCell(n, i), n.cells[NthCell(n, i)].rec) ELSE NoStep
nth_child_from_key(n, key, i) == ByKind(n, list_nth_child(n, key, i), byte_nth_child(n, key, i), NoStep)

\* The first child of key, as the whole way to the next node or branch.
Way(k, node) == [key |-> k, node |-> node]
WayIn(n, i, key) == Way(Drop(KeyIn(n, i), Len(key)), ChildIn(n, i))
list_first_at_root(n) ==
    CASE Used(n, 2) /\ KeyIn(n, 1)[1] = KeyIn(n, 2)[1] ->
           Way(Take(KeyIn(n, 1), 1), CASE End0(n) = 1 /\ ChildIn(n, 1) # NoLink -> ChildIn(n, 1)
                                       [] Len(KeyIn(n, 2)) = 1 /\ ChildIn(n, 2) # NoLink -> ChildIn(n, 2)
                                       [] OTHER -> NoLink)
      [] OTHER -> WayIn(n, 1, <<>>)
list_first_child(n, key) ==
    CASE key = <<>> -> list_first_at_root(n)
      [] key # <<>> /\ Len(key) = 1 /\ key = KeyIn(n, 1) /\ SameKeys(n) -> Way(<<>>, SharedLink(n))
      [] key # <<>> /\ Len(key) = 1 /\ key = KeyIn(n, 1) /\ Continues(n, 2, key) -> WayIn(n, 2, key)
      [] key # <<>> /\ IsPrefix(key, KeyIn(n, 1)) /\ (Len(key) = 1 /\ key = KeyIn(n, 1) => ~IsPrefix(key, KeyIn(n, 2))) ->
           WayIn(n, 1, key)
      [] OTHER -> WayIn(n, 2, key)
byte_first_child(n) == Way(<<NthCell(n, 0)>>, n.cells[NthCell(n, 0)].rec)
first_child_from_key(n, key) == IF n.tag = "byte" THEN byte_first_child(n) ELSE list_first_child(n, key)

\* The sibling before key's last byte: the second slot's byte if it is one, else the first's.
SiblingsBelow(n, key) ==
    {i \in 1..2 : /\ Len(KeyIn(n, i)) >= Len(key) /\ IsPrefix(Front(key), KeyIn(n, i))
                  /\ KeyIn(n, i)[Len(key)] < Last(key)}
LinksOf(n, path) == {i \in 1..2 : KeyIn(n, i) = path /\ ChildIn(n, i) # NoLink}
SiblingAt(n, path) == Step(Last(path), IF LinksOf(n, path) = {} THEN NoLink ELSE ChildIn(n, Max(LinksOf(n, path))))
list_prev_sibling(n, key) ==
    IF SiblingsBelow(n, key) = {} THEN NoStep
    ELSE SiblingAt(n, Append(Front(key), KeyIn(n, Max(SiblingsBelow(n, key)))[Len(key)]))
CellsBelow(n, b) == {c \in DOMAIN n.cells : c < b}
byte_prev_sibling(n, key) ==
    IF Len(key) = 1 /\ CellsBelow(n, key[1]) # {}
    THEN Step(Max(CellsBelow(n, key[1])), n.cells[Max(CellsBelow(n, key[1]))].rec) ELSE NoStep
get_prev_sibling(n, key) == ByKind(n, list_prev_sibling(n, key), byte_prev_sibling(n, key), NoStep)

list_count_branches(n, key) == Cardinality(list_branches_mask(n, key))
byte_count_branches(n, key) == IF key = <<>> THEN Cardinality(DOMAIN n.cells) ELSE 0
count_branches(n, key) == ByKind(n, list_count_branches(n, key), byte_count_branches(n, key), 0)

\* val_count_below_node: the values in a node and below it.
RECURSIVE node_val_count(_)
SlotVals(x) == IF x.child THEN node_val_count(x.of) ELSE 1
CellVals(c) == (IF c.val # NoVal THEN 1 ELSE 0) + (IF c.rec # NoLink THEN node_val_count(c.rec) ELSE 0)
list_val_count(n) == FoldLeft(LAMBDA t, x : t + SlotVals(x), 0, n.slots)
byte_val_count(n) == FoldLeft(LAMBDA t, b : t + CellVals(n.cells[b]), 0, SetToSeq(DOMAIN n.cells))
node_val_count(n) == ByKind(n, list_val_count(n), byte_val_count(n), 0)
=============================================================================
