-------------------------------- MODULE TrieRef --------------------------------
(***************************************************************************)
(* Read-only references to a place in a map (src/src/trie_ref.rs): a node, *)
(* and either a key inside it or, at the node itself, the value there.     *)
(* The key is kept in a fixed buffer.  A reference to a place where        *)
(* nothing is has no node.  TrieRefBorrowed reads through the map it was   *)
(* taken from, TrieRefOwned keeps its node and its value alive.            *)
(***************************************************************************)
EXTENDS TrieNodes

CONSTANTS ChunkSize, SharedNodes, Panicked,
    MAX_NODE_KEY_BYTES      \* the buffer of a reference, as long as a node's longest key

R == INSTANCE ReadZipper

\* A borrowed reference and one that owns what it refers to have the same form.
Ref(owned, n, key, val) == [owned |-> owned, node |-> n, key |-> key, val |-> val]
new_from_parts(owned, n, key, val) == Ref(owned, n, key, IF key = <<>> THEN val ELSE NoVal)
new_invalid(owned) == Ref(owned, NoLink, <<>>, NoVal)
is_valid(t) == t.node # NoLink

----------------------------------------------------------------------------
(* Making a reference: along a path from a key in a node.                  *)

\* Only a place where something is becomes one.
Built(owned, l) ==
    IF Len(l.key) > MAX_NODE_KEY_BYTES \/ (l.key # <<>> /\ ~node_contains_partial_key(l.node, l.key))
    THEN new_invalid(owned) ELSE new_from_parts(owned, l.node, l.key, l.val)
Resolved(owned, n, val, k) ==
    Built(owned, IF k = <<>> THEN [node |-> n, key |-> <<>>, val |-> val] ELSE R!Located(n, k, NoVal))

\* Key and path together exceed the buffer: the part that fits must lead into a child.
GoneOn(owned, c, val, at, k) ==
    IF c.len > 0 /\ c.len >= Len(at) THEN Resolved(owned, c.of, val, Drop(k, c.len - Len(at))) ELSE new_invalid(owned)
trie_ref_from_key_and_path(owned, n, val, at, k) ==
    CASE Len(at) > MAX_NODE_KEY_BYTES -> new_invalid(owned)
      [] Len(at) <= MAX_NODE_KEY_BYTES /\ at # <<>> /\ k # <<>> /\ Len(at) + Len(k) > MAX_NODE_KEY_BYTES ->
           GoneOn(owned, node_get_child(n, at \o Take(k, MAX_NODE_KEY_BYTES - Len(at))), val, at, k)
      [] OTHER -> Resolved(owned, n, val, at \o k)

----------------------------------------------------------------------------
(* TrieRefBorrowed.                                                        *)

get_val(t) ==
    CASE ~is_valid(t) -> NoVal
      [] is_valid(t) /\ t.key # <<>> -> node_get_val(t.node, t.key)
      [] OTHER -> t.val
Facts(t, val) ==
    [path_exists |-> is_valid(t), val |-> val,
     child_count |-> IF is_valid(t) THEN R!count_branches(t.node, t.key) ELSE 0,
     child_mask |-> IF is_valid(t) THEN node_branches_mask(t.node, t.key) ELSE {}]
BorrowedSeen(t) == Facts(t, get_val(t))

BorrowedAt(t, k) ==
    IF is_valid(t) THEN trie_ref_from_key_and_path(FALSE, t.node, get_val(t), t.key, k) ELSE new_invalid(FALSE)
get_val_at(t, k) == get_val(BorrowedAt(t, k))

\* The node below the focus: an AbstractNodeRef.
into_focus(t) ==
    CASE ~is_valid(t) -> Nowhere
      [] is_valid(t) /\ t.key = <<>> -> [some |-> TRUE, of |-> t.node]
      [] OTHER -> get_node_at_key(t.node, t.key)
BorrowedFocusAt(t, k) == into_focus(BorrowedAt(t, k))
into_option(f) == IF f.some /\ ~node_is_empty(f.of) THEN f.of ELSE NoNode

\* The map below the focus, with the value at the focus as its root value.
MapOf(f, val) == [root |-> into_option(f), val |-> val]
BorrowedMap(t) == MapOf(into_focus(t), get_val(t))

\* The node at the focus, where that is a whole one.
BorrowChild(c) == IF c.len = 0 THEN NoLink ELSE c.of
BorrowedNode(t) ==
    CASE ~is_valid(t) -> NoLink
      [] is_valid(t) /\ t.key = <<>> -> t.node
      [] OTHER -> BorrowChild(node_get_child(t.node, t.key))

BorrowedIsShared(t) == is_valid(t) /\ t.key = <<>> /\ t.node \in ToSet(SharedNodes)
SharedId(t, shared, val) == IF shared /\ val = NoVal THEN SelectInSeq(SharedNodes, LAMBDA n : n = t.node) ELSE 0
BorrowedSharedId(t) == SharedId(t, BorrowedIsShared(t), get_val(t))

\* A zipper whose origin is inside the node of the reference.
BorrowedFork(t) == R!new_internal(t.node, t.key, 0, get_val(t))

----------------------------------------------------------------------------
(* TrieRefOwned: the same over its own node, and through references that   *)
(* are borrowed from it.                                                   *)

val(t) ==
    CASE ~is_valid(t) -> NoVal
      [] is_valid(t) /\ t.key # <<>> -> node_get_val(t.node, t.key)
      [] OTHER -> t.val
OwnedSeen(t) == Facts(t, val(t))
Lent(t, k) == trie_ref_from_key_and_path(FALSE, t.node, val(t), t.key, k)
OwnedValAt(t, k) == IF is_valid(t) THEN get_val(Lent(t, k)) ELSE NoVal
OwnedFork(t) == R!new_internal(t.node, t.key, 0, val(t))
OwnedFocus(t) ==
    CASE ~is_valid(t) -> Nowhere
      [] is_valid(t) /\ t.key # <<>> -> get_node_at_key(t.node, t.key)
      [] OTHER -> [some |-> TRUE, of |-> t.node]
OwnedMap(t) == MapOf(OwnedFocus(t), val(t))
OwnedFocusAt(t, k) == IF is_valid(t) THEN into_focus(Lent(t, k)) ELSE Nowhere
OwnedNode(t) ==
    CASE ~is_valid(t) -> NoLink
      [] is_valid(t) /\ t.key = <<>> -> t.node
      [] OTHER -> BorrowChild(node_get_child(t.node, t.key))
OwnedAt(t, k) ==
    IF is_valid(t) THEN trie_ref_from_key_and_path(TRUE, t.node, val(t), t.key, k) ELSE new_invalid(TRUE)
OwnedSharedId(t) == SharedId(t, is_valid(t) /\ t.key = <<>> /\ t.node \in ToSet(SharedNodes), val(t))

\* A value that is read through a witness, a clone of the reference which keeps it alive.
OwnedValWitnessed(t, w) == IF is_valid(t) THEN val(w) ELSE NoVal

\* Of a map: its root value goes with its root node.
new_with_node_and_val(n, v) == IF n = NoNode THEN new_invalid(TRUE) ELSE Ref(TRUE, n, <<>>, v)
into_root(m) == [m EXCEPT !.root = IF node_is_empty(m.root) THEN NoNode ELSE m.root]
FromMap(m) == new_with_node_and_val(into_root(m).root, m.val)

----------------------------------------------------------------------------
(* TrieRef: one or the other.                                              *)

Seen(t) == IF t.owned THEN OwnedSeen(t) ELSE BorrowedSeen(t)
val_at(t, k) == IF t.owned THEN OwnedValAt(t, k) ELSE get_val_at(t, k)
fork_read_zipper(t) == IF t.owned THEN OwnedFork(t) ELSE BorrowedFork(t)
make_map(t) == IF t.owned THEN OwnedMap(t) ELSE BorrowedMap(t)
get_focus(t) == IF t.owned THEN OwnedFocus(t) ELSE into_focus(t)
get_focus_at(t, k) == IF t.owned THEN OwnedFocusAt(t, k) ELSE BorrowedFocusAt(t, k)
try_borrow_focus(t) == IF t.owned THEN OwnedNode(t) ELSE BorrowedNode(t)
witness(t) == IF t.owned THEN t ELSE new_invalid(TRUE)
get_val_with_witness(t, w) == IF t.owned THEN OwnedValWitnessed(t, w) ELSE get_val(t)
trie_ref_at_path(t, k) == IF t.owned THEN OwnedAt(t, k) ELSE BorrowedAt(t, k)
shared_node_id(t) == IF t.owned THEN OwnedSharedId(t) ELSE BorrowedSharedId(t)

----------------------------------------------------------------------------
(* From a read zipper.                                                     *)

\* The node that the node key is inside of, as its parent refers to it.
focus_parent(z) ==
    IF R!parent_key(z) = <<>> THEN R!Root(z) ELSE node_get_child(Last(z.ancestors).node, R!parent_key(z)).of
TrackedAt(z, k) == trie_ref_from_key_and_path(TRUE, focus_parent(z), R!get_val(z), R!node_key(z), k)
UntrackedAt(z, k) == trie_ref_from_key_and_path(FALSE, focus_parent(z), R!get_val(z), R!node_key(z), k)
get_trie_ref(z) == UntrackedAt(z, <<>>)
FocusAt(z, k) == into_focus(UntrackedAt(z, k))
GetValAt(z, k) == get_val(UntrackedAt(z, k))
MapAt(z) == MapOf(FocusAt(z, <<>>), R!get_val(z))
BorrowFocus(z) ==
    CASE R!node_key(z) # <<>> -> BorrowChild(node_get_child(z.focus_node, R!node_key(z)))
      [] R!node_key(z) = <<>> /\ R!parent_key(z) = <<>> -> R!Root(z)
      [] OTHER -> BorrowChild(node_get_child(Last(z.ancestors).node, R!parent_key(z)))

\* A zipper that owns its root hands out the values there from a witness, not from itself.
ZipperWitness(z, owned) ==
    IF owned THEN [node |-> R!Root(z), val |-> z.root_val] ELSE [node |-> NoLink, val |-> NoVal]
ValWithWitness(z, w) ==
    CASE R!node_key(z) # <<>> -> node_get_val(z.focus_node, R!node_key(z))
      [] R!node_key(z) = <<>> /\ z.ancestors # <<>> -> node_get_val(Last(z.ancestors).node, R!parent_key(z))
      [] OTHER -> IF w.node # NoLink THEN w.val ELSE z.root_val

\* PathMap::trie_ref_at_path
AtPathOf(m, k) == trie_ref_from_key_and_path(FALSE, m.root, m.val, <<>>, k)
==============================================================================
