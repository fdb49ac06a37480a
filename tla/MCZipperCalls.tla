---------------------------- MODULE MCZipperCalls ----------------------------
(* Small maps whose nodes are of every shape: a list node with one key, with *)
(* two that part at once, with a key below the other, with a value and a     *)
(* link at one key; a byte node; dangling paths.                             *)
EXTENDS ZipperCalls

N == INSTANCE TrieNodes
v1 == {1}
v2 == {1, 2}
L(s) == N!ListNode(s)
B(c) == N!ByteNode(c)
Val(k, v) == N!Slot(k, FALSE, v)
Link(k, n) == N!Slot(k, TRUE, n)
Cl(n, v) == [rec |-> n, val |-> v]
Map(n, v) == [root |-> n, val |-> v]
Dangling == N!NoNode

Leaf == L(<<Val(<<1>>, v1)>>)
Two == L(<<Val(<<0, 1>>, v1), Val(<<2>>, v2)>>)
Ends == L(<<Val(<<0>>, v1), Val(<<2>>, v2)>>)
Thrice == B((0 :> Cl(Ends, NoVal)) @@ (1 :> Cl(Ends, v1)) @@ (2 :> Cl(L(<<Link(<<0>>, Ends)>>), NoVal)))
Both == B((0 :> Cl(Leaf, NoVal)) @@ (1 :> Cl(Leaf, NoVal)))
MCMaps == {
    Map(L(<<Val(<<0>>, v1), Link(<<0, 1>>, Two)>>), v1),
    Map(L(<<Link(<<1>>, Two), Val(<<1>>, v2)>>), NoVal),
    Map(L(<<Link(<<0, 1, 2>>, Leaf), Link(<<1>>, Dangling)>>), NoVal),
    Map(B(<<>> @@ (0 :> Cl(Two, v1)) @@ (1 :> Cl(N!NoLink, v2)) @@ (2 :> Cl(Leaf, NoVal))), NoVal),
    Map(L(<<Val(<<0>>, v1), Val(<<0, 2>>, v2)>>), NoVal),
    Map(L(<<Link(<<0>>, B((1 :> Cl(N!NoLink, v1)) @@ (2 :> Cl(Dangling, NoVal))))>>), v2),
    Map(Thrice, NoVal)}
MCWrapped == {
    Map(L(<<Val(<<0>>, v1), Link(<<0, 1>>, Two)>>), v1),
    Map(B(<<>> @@ (0 :> Cl(Two, v1)) @@ (1 :> Cl(N!NoLink, v2)) @@ (2 :> Cl(Dangling, NoVal))), NoVal)}
MCKeys == {<<>>, <<0>>, <<1>>, <<2>>, <<0, 1>>, <<0, 2>>, <<1, 0>>, <<1, 2>>, <<0, 1, 2>>, <<1, 0, 1>>}
MCSteps == 0..3
MCPath == UNION {[1..n -> 0..2] : n \in 0..6}
NoHistory == <<z, obs, trie>>

Few == L(<<Val(<<0>>, v1), Val(<<1, 2>>, v2)>>)
MCPrefixed == {
    [map |-> Map(Two, NoVal), prefix |-> <<0, 1>>, origin |-> 0],
    [map |-> Map(Few, v1), prefix |-> <<1, 0>>, origin |-> 1]}

Deep(b) == L(<<Link(<<0, 1, 2>>, L(<<Val(<<b>>, v1)>>)), Val(<<1>>, v2)>>)
Loose == L(<<Link(<<0, 1>>, Dangling)>>)
MCOverlaid == {
    <<Map(Few, NoVal), Map(Two, v2)>>,
    <<Map(Deep(0), v1), Map(Deep(1), v2)>>,
    <<Map(Loose, NoVal), Map(Few, NoVal)>>}

Minuend == B((0 :> Cl(L(<<Val(<<1>>, v1), Val(<<2, 0>>, v1)>>), v2)) @@ (2 :> Cl(Two, NoVal)))
Subtrahend == B((0 :> Cl(L(<<Val(<<1>>, v2)>>), v1)) @@ (2 :> Cl(L(<<Val(<<0, 1>>, v1), Val(<<2>>, v1)>>), NoVal)))
MCSubtracted == {
    [lhs |-> Map(Minuend, v1), rhs |-> Map(Subtrahend, v2), at |-> <<>>],
    [lhs |-> Map(Minuend, v1), rhs |-> Map(Subtrahend, v2), at |-> <<2>>],
    [lhs |-> Map(Few, NoVal), rhs |-> Map(Two, NoVal), at |-> <<>>]}

MCMultiplied == {<<Map(Both, NoVal), Map(Leaf, NoVal)>>, <<Map(Few, NoVal), Map(Two, NoVal)>>, <<Map(Few, v1), Map(Leaf, v2), Map(Leaf, NoVal)>>}
MCEnrolled == {
    [map |-> Map(Few, NoVal), after |-> (<<0>> :> Map(Two, v1)) @@ (<<1, 2>> :> Map(Leaf, NoVal)) @@ (<<0, 2>> :> Map(Leaf, NoVal))]}

\* Maps with links to the same node at several places, one that has dangling paths; what is
\* merged into an archive parts from its lines, ends in them and goes on below them.
MCArchived == {Thrice, Both, L(<<Link(<<0, 1, 2>>, Leaf), Link(<<1>>, Dangling)>>)}
MCShared == <<Ends, Leaf>>
MCUpdates == {Map(L(<<Val(<<0, 1>>, v2), Val(<<1, 0, 1>>, v1)>>), NoVal), Map(L(<<Link(<<0, 1, 2>>, Leaf)>>), NoVal)}
MCOpened == {<<0>>, <<2, 0, 0>>}

\* What the run that disagrees with the documentation is about: two maps that differ
\* below the second of two branches of which the first has more than one path.
Nest(b) == B((0 :> Cl(L(<<Val(<<0>>, v1), Val(<<1>>, v1)>>), NoVal)) @@ (1 :> Cl(L(<<Val(<<b>>, v1)>>), NoVal)))
NestIn(b) == Map(L(<<Link(<<0>>, Nest(b))>>), NoVal)
MCNested == {[lhs |-> NestIn(0), rhs |-> NestIn(2), at |-> <<>>]}
MCNone == {}
==============================================================================
