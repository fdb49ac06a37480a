------------------------------ MODULE ZipperSpec ------------------------------
(***************************************************************************)
(* What a map and its write zipper promise, with no nodes: a trie of paths *)
(* and values, a zipper that is rooted at origin and stands at focus, and  *)
(* the result of the last call.  Path bounds what a caller builds: a call  *)
(* is made only when the trie it promises stays inside Path.               *)
(***************************************************************************)
EXTENDS PathTrie, FiniteSets

CONSTANTS
    Val,
    Nil,       \* Option::None for a value, and the origin of no zipper
    MapTries,  \* the maps that are grafted, as tries
    ChildTries,\* the maps given to graft_child_maps, by byte
    Masks      \* the sets of bytes given to remove_unmasked_branches

VARIABLES trie, origin, focus, last

specVars == <<trie, origin, focus, last>>

Get(t, p) == IF IsVal(t, p) THEN t.val[p] ELSE Nil
StrictlyBelow(p) == {q \in Path : IsStrictPrefix(p, q)}
Children(t, p) == {q \in t.paths : IsPrefix(p, q) /\ Len(q) = Len(p) + 1}
From(p, q) == SubSeq(q, Len(p) + 1, Len(q))

Keep(t, P) == [paths |-> t.paths \cap P, val |-> Restrict(t.val, DOMAIN t.val \cap P)]
DropBelow(t, p) == Keep(t, Path \ StrictlyBelow(p))
DropVal(t, p) == [t EXCEPT !.val = Restrict(@, DOMAIN @ \ {p})]
DropSubtrie(t, p) == DropVal(DropBelow(t, p), p)
\* Pruning starts at a path that exists.
PruneIf(prune, t, p) == IF prune /\ p \in t.paths THEN PrunePath(t, p, Len(origin)) ELSE t

\* What is below p, as a trie of its own.
Below(t, p) == [paths |-> {<<>>} \cup {From(p, q) : q \in {r \in t.paths : IsPrefix(p, r)}},
                val   |-> [r \in {From(p, q) : q \in {s \in DOMAIN t.val : IsPrefix(p, s)}} |-> t.val[p \o r]]]

IsBlank(u) == u = EmptyTrie

\* u takes the place of everything at and below p; a blank u leaves p as it was.
Graft(t, p, u) ==
    LET rest == DropSubtrie(t, p)
    IN IF IsBlank(u) THEN rest
       ELSE [paths |-> rest.paths \cup Prefixes(p) \cup {p \o q : q \in u.paths},
             val   |-> [q \in DOMAIN rest.val \cup {p \o r : r \in DOMAIN u.val} |->
                            IF q \in DOMAIN rest.val THEN rest.val[q] ELSE u.val[From(p, q)]]]

SpecInit == trie = EmptyTrie /\ origin = Nil /\ focus = <<>> /\ last = [op |-> "new", ret |-> Nil]

Opened == origin # Nil
Answer(op, ret) == last'.op = op /\ last'.ret = ret

\* A call on the zipper that may change the trie and leaves the focus where it is.
Call(op, t, ret) ==
    /\ Opened
    /\ Answer(op, ret)
    /\ trie' = t
    /\ trie'.paths \subseteq Path
    /\ UNCHANGED <<origin, focus>>

MoveTo(op, p, ret) ==
    /\ Opened
    /\ Answer(op, ret)
    /\ focus' = p
    /\ UNCHANGED <<trie, origin>>

OpenAt(p) ==
    /\ ~Opened
    /\ origin' = p
    /\ focus' = p
    /\ Answer("open", Nil)
    /\ UNCHANGED trie

Close ==
    /\ Opened
    /\ origin' = Nil
    /\ focus' = <<>>
    /\ Answer("close", Nil)
    /\ UNCHANGED trie

\* The path n bytes above the focus, or the zipper's root.
Above(n) == LET len == Len(focus) - n IN SubSeq(focus, 1, IF len >= Len(origin) THEN len ELSE Len(origin))

DescendTo(p) == IsStrictPrefix(focus, p) /\ MoveTo("descend_to", p, Nil)

Ascend(n) == MoveTo("ascend", Above(n), Len(focus) - Len(Above(n)))
Reset == MoveTo("reset", origin, Nil)

\* Up to the nearest path that forks, that may carry a value, or the zipper's root.
AscendUntil(op, valsToo) ==
    LET stops == {p \in Prefixes(focus) : /\ IsStrictPrefix(p, focus) /\ Len(p) >= Len(origin)
                                          /\ \/ Len(p) = Len(origin)
                                             \/ Cardinality(Children(trie, p)) > 1
                                             \/ valsToo /\ IsVal(trie, p)}
        to == IF focus = origin THEN focus
              ELSE CHOOSE p \in stops : \A q \in stops : Len(q) <= Len(p)
    IN MoveTo(op, to, Len(focus) - Len(to))

SetValAt(k, v) == Call("set_val_at", SetVal(trie, focus \o k, v), Get(trie, focus \o k))
RemoveValHere(prune) == Call("remove_val", PruneIf(prune, DropVal(trie, focus), focus), Get(trie, focus))
RemoveBranches(prune) ==
    Call("remove_branches", PruneIf(prune, DropBelow(trie, focus), focus), Children(trie, focus) # {})
RemoveSubtrie(prune) ==
    Call("remove_subtrie", PruneIf(prune, DropSubtrie(trie, focus), focus),
         Children(trie, focus) # {} \/ IsVal(trie, focus))
RemoveUnmasked(mask, prune) ==
    Call("remove_unmasked_branches",
         PruneIf(prune, Keep(trie, {q \in Path : IsStrictPrefix(focus, q) => q[Len(focus) + 1] \in mask}), focus),
         Nil)
TakeMap(prune) == Call("take_map", PruneIf(prune, DropSubtrie(trie, focus), focus), Below(trie, focus))
CreatePath == Call("create_path", [trie EXCEPT !.paths = @ \cup Prefixes(focus)], focus \notin trie.paths)
PrunePathHere ==
    LET t == PruneIf(TRUE, trie, focus)
    IN Call("prune_path", t, Cardinality(trie.paths) - Cardinality(t.paths))

\* A call that leaves the focus at p.
CallTo(op, t, p, ret) ==
    /\ Opened
    /\ Answer(op, ret)
    /\ focus' = p
    /\ trie' = t
    /\ UNCHANGED origin

PruneAscend ==
    LET t == PruneIf(TRUE, trie, focus)
        n == Cardinality(trie.paths) - Cardinality(t.paths)
    IN CallTo("prune_ascend", t, Above(n), n)

\* What is below the focus takes the place of what is below the path n bytes above it.
RemovePrefix(n) ==
    LET to   == Above(n)
        rest == DropBelow(trie, to)
        kept == {q \in trie.paths : IsStrictPrefix(focus, q)}
        up(q) == to \o From(focus, q)
        down(q) == focus \o From(to, q)
    IN CallTo("remove_prefix",
              [paths |-> rest.paths \cup {up(q) : q \in kept},
               val   |-> [q \in DOMAIN rest.val \cup {up(r) : r \in DOMAIN trie.val \cap kept} |->
                              IF q \in DOMAIN rest.val THEN rest.val[q] ELSE trie.val[down(q)]]],
              to, Len(focus) - Len(to) = n)
\* One by one, after the children that are not among them are gone.
GraftChildMaps(f, remove_unset) ==
    LET kept == IF remove_unset THEN Keep(trie, {q \in Path : IsStrictPrefix(focus, q) => q[Len(focus) + 1] \in DOMAIN f})
                ELSE trie
        all  == UNION {LET at == Append(focus, b) IN {at \o q : q \in f[b].paths} : b \in DOMAIN f}
        rest == Keep(kept, {q \in Path : IsStrictPrefix(focus, q) => q[Len(focus) + 1] \notin DOMAIN f})
        vals == UNION {{Append(focus, b) \o q : q \in DOMAIN f[b].val} : b \in DOMAIN f}
        byte(q) == q[Len(focus) + 1]
    IN Call("graft_child_maps",
            [paths |-> rest.paths \cup Prefixes(focus) \cup all,
             val   |-> [q \in DOMAIN rest.val \cup vals |->
                            IF q \in vals THEN f[byte(q)].val[From(Append(focus, byte(q)), q)] ELSE rest.val[q]]],
            Nil)
GraftMap(u) == Call("graft_map", Graft(trie, focus, u), Nil)
InsertPrefix(k) ==
    LET u == [Below(trie, focus) EXCEPT !.val = Restrict(@, DOMAIN @ \ {<<>>})]
        moved == [paths |-> Prefixes(k) \cup {k \o q : q \in u.paths},
                  val   |-> [q \in {k \o r : r \in DOMAIN u.val} |-> u.val[From(k, q)]]]
        t == Graft(DropBelow(trie, focus), focus, moved)
    IN IF Children(trie, focus) = {} THEN Call("insert_prefix", trie, FALSE)
       ELSE Call("insert_prefix",
                 IF IsVal(trie, focus) THEN SetVal(t, focus, trie.val[focus]) ELSE t, TRUE)

\* PathMap's own calls: no zipper is open.
MapSetVal(p, v) ==
    /\ ~Opened
    /\ Answer("map.set_val_at", Get(trie, p))
    /\ trie' = SetVal(trie, p, v)
    /\ UNCHANGED <<origin, focus>>

SpecNext ==
    \/ \E p \in Path : OpenAt(p)
    \/ Close
    \/ \E p \in Path : DescendTo(p)
    \/ \E n \in 1..3 : Ascend(n)
    \/ Reset
    \/ AscendUntil("ascend_until", TRUE)
    \/ AscendUntil("ascend_until_branch", FALSE)
    \/ \E k \in Path, v \in Val : SetValAt(k, v)
    \/ \E prune \in BOOLEAN :
         \/ RemoveValHere(prune)
         \/ RemoveBranches(prune)
         \/ RemoveSubtrie(prune)
         \/ TakeMap(prune)
         \/ \E mask \in Masks : RemoveUnmasked(mask, prune)
    \/ CreatePath
    \/ PrunePathHere
    \/ PruneAscend
    \/ \E n \in 1..2 : RemovePrefix(n)
    \/ \E f \in ChildTries, remove_unset \in BOOLEAN : GraftChildMaps(f, remove_unset)
    \/ \E u \in MapTries : GraftMap(u)
    \/ \E k \in Path \ {<<>>} : InsertPrefix(k)
    \/ \E p \in Path, v \in Val : MapSetVal(p, v)

Spec == SpecInit /\ [][SpecNext]_specVars
===============================================================================
