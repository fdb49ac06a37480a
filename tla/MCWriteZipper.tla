---------------------------- MODULE MCWriteZipper ----------------------------
(* Small instances of WriteZipper for TLC. *)
EXTENDS WriteZipper

CONSTANTS v1, v2

\* Whether the keys of nodes are short, which makes chains of nodes of short paths.
VARIABLE tight

\* Paths over B of up to n bytes.
Over(B, n) == UNION {[1..k -> B] : k \in 0..n}

\* A map built by set_val_at from its paths.
Built(paths, v) == [node |-> FoldLeft(LAMBDA n, p : node_set_val(n, p, v1).node, NewNode, paths), val |-> v]
Blank == Built(<<>>, NoVal)
Leaf == Built(<<<<1>>>>, v1)

\* The zipper is opened on the whole map.
Root == [opens |-> {<<>>}, moves |-> {<<1>>, <<1, 2, 1>>}, sets |-> {<<>>},
         maps |-> {}, childMaps |-> {}, masks |-> {}, within |-> Over({1, 2}, 3)]

\* It is opened below the root, on either side of what the map itself is given.
Deep == [Root EXCEPT !.opens = {<<1, 2>>, <<2>>},
                     !.moves = {<<1, 2, 1>>, <<1, 2, 2>>, <<1>>, <<1, 1>>, <<2>>}]

\* Maps are grafted and branches masked.
Grafts == [Root EXCEPT !.moves = {<<1>>, <<1, 2>>},
                       !.within = Over({1, 2, 3}, 2) \cup {<<1, b, 1>> : b \in 1..3},
                       !.maps = {Blank, Leaf}, !.masks = {{1}},
                       !.childMaps = {(1 :> Leaf), (1 :> Leaf @@ 2 :> Leaf @@ 3 :> Leaf)}]

\* Values at relative paths, and links pushed down by a prefix.
Near == [Root EXCEPT !.opens = {<<1>>}, !.moves = {<<1, 1>>, <<1, 2, 1>>}, !.sets = {<<>>, <<2>>}]

\* One path, longer than a node's keys.
Stem == [Root EXCEPT !.opens = {<<>>, <<1>>}, !.moves = {<<1>>, <<1, 1, 1>>}, !.sets = {<<>>, <<1>>},
                     !.within = Over({1}, 5)]

TightKeys == {Grafts, Near, Stem}
Everyone == {Root, Deep} \cup TightKeys

\* What the run that disagrees with the documentation is about: a relative path of
\* two bytes.
Far == {[Root EXCEPT !.moves = {<<1>>}, !.sets = {<<1>>, <<1, 1>>, <<1, 2>>}]}

Paths == Over({1, 2, 3}, 3) \cup Over({1}, 5)

Tight == INSTANCE WriteZipper WITH KeyCap <- 2, MaxKey <- 2

MCInit == Init /\ tight = (client \in TightKeys)
MCNext == \/ ~tight /\ Next /\ UNCHANGED tight
          \/ tight /\ Tight!Next /\ UNCHANGED tight
MCSpec == MCInit /\ [][MCNext]_<<vars, tight>>

\* last and seen decide nothing: a step's result is judged as it is taken.
NoHistory == <<tight, client, root, rootVal, z>>
=============================================================================
