---------------------------- MODULE MCMapAlgebra ----------------------------
(* Small instances of MapAlgebra and of ZipperMerge for TLC. *)
EXTENDS MapAlgebra

Over(B, n) == UNION {[1..k -> B] : k \in 0..n}
MCPath == Over({1, 2}, 3) \cup {<<3>>, <<1, 3>>}

\* Maps are made by putting values, and paths that dangle, in one after the other.
Ones == Elems({1})
Both == Elems({1, 2})
PutHere(n, key, v) == IF v # NoVal THEN node_set_val(n, key, v).node ELSE node_create_dangling(n, key).node
PutAlong(n, p, v, i) == Put(n, Take(p, i), PutHere(NodeAt(n, Take(p, i)), Drop(p, i), v))
PutTo(n, x) == PutAlong(n, x[1], x[2], Along(n, x[1], TRUE))
RECURSIVE PutAll(_, _)
PutAll(n, puts) == IF puts = <<>> THEN n ELSE PutAll(PutTo(n, Head(puts)), Tail(puts))
Made(puts) == CellOf(PutAll(NewNode, puts), NoVal)
MCOperands ==
    {CellOf(NoLink, Ones), CellOf(NewNode, Both)} \cup
    {Made(puts) : puts \in {
        << <<<<1>>, Ones>> >>, << <<<<1>>, NoVal>> >>, << <<<<1, 1>>, Both>> >>, << <<<<1, 2, 1>>, Ones>> >>,
        << <<<<1>>, Both>>, <<<<1, 1>>, Ones>> >>, << <<<<1, 1>>, Both>>, <<<<1, 2, 1>>, Ones>> >>,
        << <<<<1>>, NoVal>>, <<<<2>>, Ones>> >>, << <<<<2>>, Both>>, <<<<1, 1>>, NoVal>> >>,
        << <<<<2, 1>>, NoVal>>, <<<<1, 1>>, Ones>> >>, << <<<<2, 1>>, Both>>, <<<<1, 1>>, Ones>> >>, << <<<<1>>, NoVal>>, <<<<2>>, NoVal>> >>,
        << <<<<1>>, NoVal>>, <<<<2>>, NoVal>>, <<<<3>>, Ones>> >>,
        << <<<<1>>, Ones>>, <<<<1, 1>>, Both>>, <<<<2>>, Ones>> >>,
        << <<<<1>>, Both>>, <<<<2, 1>>, Ones>>, <<<<3>>, NoVal>> >>,
        << <<<<1, 1>>, Ones>>, <<<<2, 1>>, Both>>, <<<<2>>, Ones>> >>,
        << <<<<2, 1>>, Ones>>, <<<<2, 2>>, Both>>, <<<<1, 1>>, Ones>> >>}}
MCFoci == {CellOf(NoNode, NoVal), CellOf(NoLink, Ones)}
MCPlaces == {<< <<>>, <<>> >>, << <<>>, <<1>> >>, << <<1>>, <<2>> >>}

----------------------------------------------------------------------------
(* Either operations on a map, or one merge of zippers.                    *)

VARIABLES src, begins, request, stack, path, out

merging == <<src, begins, request, stack, path, out>>

MergedPath == UNION {[1..k -> 0..2] : k \in 0..2}
Trie(dangling, vs) ==
    LET ends == DOMAIN vs \cup dangling IN [paths |-> UNION {Prefixes(p) : p \in ends}, val |-> vs]
Tries ==
    {Trie({}, <<>> :> {1, 2} @@ <<0>> :> {2, 3}),
     Trie({}, <<0>> :> {1, 2} @@ <<1>> :> {1, 2} @@ <<2>> :> {2, 3}),
     Trie({}, <<1, 0>> :> {1, 2} @@ <<1, 2>> :> {1} @@ <<2, 1>> :> {1, 2}),
     Trie({<<1>>}, <<0, 1>> :> {2, 3} @@ <<1, 0>> :> {1, 2} @@ <<1, 2>> :> {1}),
     Trie({<<2>>}, <<1>> :> {2, 3} @@ <<1, 0>> :> {1, 2} @@ <<1, 2>> :> {1}),
     Trie({}, <<>> :> {1} @@ <<2, 1>> :> {3} @@ <<0, 1>> :> {2, 3})}
\* Some that have an equal subtrie, with a value over it or without.
Alike == {t \in Tries : <<1, 0>> \in t.paths}

M == INSTANCE ZipperMerge WITH
    Path <- MergedPath,
    Inputs <- {s \in [1..2 -> Tries] \cup [1..3 -> Tries] : Len(s) = 3 => s[1] \in Alike /\ s[2] # s[3]}
              \cup {s \in [1..4 -> Alike] : s[2] # s[3] /\ s[4] = s[1]} \cup {s \in [1..5 -> Alike] : s[1] # s[2] /\ s[4] = s[5] /\ s[2] = s[3]},
    Formulas <- {<<{1}, {2, 3}>>, <<{1, 2, 3}, {2}>>, <<{3}, {}>>, <<{1, 2, 3, 4}, {2, 4}>>},
    Layouts <- {{}, MergedPath},
    LastByte <- 2

NoMerge == [op |-> "none"]
MCInit ==
    \/ /\ Init
       /\ src = <<>> /\ begins = {} /\ request = NoMerge /\ stack = <<>> /\ path = <<>> /\ out = <<>>
    \/ Init /\ map = CellOf(NoLink, Ones) /\ shares = FALSE /\ M!MergeInit
MCNext ==
    \/ request = NoMerge /\ Next /\ UNCHANGED merging
    \/ request # NoMerge /\ M!MergeNext /\ UNCHANGED vars
MCSpec == MCInit /\ [][MCNext]_<<vars, merging>>

\* All documented operations of zipper_algebra.rs: what has been merged is right.
MergesSources == M!MergesSources

NoHistory == <<map, z, shares, merging>>
=============================================================================
