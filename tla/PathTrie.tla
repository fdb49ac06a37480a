------------------------------- MODULE PathTrie -------------------------------
(***************************************************************************)
(* A byte trie seen through the zipper interface: which paths exist, and   *)
(* which of them carry a value.  The node types that store it (line-list,  *)
(* dense and cell nodes, src/src/line_list_node.rs and dense_byte_node.rs) *)
(* are below this abstraction.  A path may exist without leading to any    *)
(* value; such a path is called dangling.                                  *)
(***************************************************************************)
EXTENDS Integers, SequencesExt

CONSTANT Path   \* the paths that clients use; a path is a sequence of bytes

ASSUME PathAssumption ==
    /\ Path \subseteq Seq(Nat)
    /\ <<>> \in Path
    /\ \A p \in Path : Prefixes(p) \subseteq Path

\* Tries whose values are taken from T.
TrieOf(T) == [paths : SUBSET Path, val : UNION {[S -> T] : S \in SUBSET Path}]

Comparable(p, q) == IsPrefix(p, q) \/ IsPrefix(q, p)

\* The root always exists (an empty map still has a root node).
EmptyTrie == [paths |-> {<<>>}, val |-> <<>>]

IsVal(t, p) == p \in DOMAIN t.val

\* The paths a trie needs in order to hold values at the paths of V.
Closure(V) == {<<>>} \cup UNION {Prefixes(v) : v \in V}

\* No path of t dangles.
Pruned(t) == t.paths = Closure(DOMAIN t.val)

\* set_val creates whatever part of the path is missing, and overwrites.
SetVal(t, p, v) ==
    [paths |-> t.paths \cup Prefixes(p),
     val   |-> [q \in DOMAIN t.val \cup {p} |-> IF q = p THEN v ELSE t.val[q]]]

\* prune_path: nothing happens unless p is the end of a dangling path; then the
\* path is cut back to the nearest ancestor that has a value or another child,
\* but never above a path of length `limit`, the root of the zipper.
PrunePath(t, p, limit) ==
    LET onlyP(q) == \A r \in t.paths : IsPrefix(q, r) => IsPrefix(r, p) /\ ~IsVal(t, r)
    IN [t EXCEPT !.paths = {q \in @ : ~(Len(q) > limit /\ IsPrefix(q, p) /\ onlyP(q))}]

\* remove_val(prune): the value goes, and with prune the path left dangling.
RemoveVal(t, p, prune, limit) ==
    LET u == [t EXCEPT !.val = Restrict(@, DOMAIN @ \ {p})]
    IN IF prune THEN PrunePath(u, p, limit) ELSE u

\* Order in which a depth-first traversal visits paths: a path before those
\* below it, siblings by their byte.  The two paths part at index i.
DfsBefore(p, q) ==
    \E i \in 1..Len(q) :
        /\ \A k \in 1..(i - 1) : k <= Len(p) /\ p[k] = q[k]
        /\ i <= Len(p) => p[i] < q[i]

\* The values to_next_val can still reach from focus p, and the first of them.
\* The traversal ends at the zipper's root only: it leaves the subtrie of p.
ValsAfter(t, p) == {v \in DOMAIN t.val : DfsBefore(p, v)}
FirstOf(V) == CHOOSE v \in V : \A w \in V : w = v \/ DfsBefore(v, w)
===============================================================================
