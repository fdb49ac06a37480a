--------------------------- MODULE ZipperStoreProofs ---------------------------
(***************************************************************************)
(* Proofs about the values that can be seen through a zipper head: copying *)
(* nodes before they are written, freeing and renaming them, preparing and *)
(* pruning paths changes no value anybody sees, a writer's step changes    *)
(* values below its path only, and so readers see the trie as it is and    *)
(* the whole is the store that PathStore describes.  And about the paths:  *)
(* where all writers are cleaned up after, each path leads to a value or a *)
(* writer.                                                                 *)
(***************************************************************************)
EXTENDS ZipperHeadProofs

-------------------------------------------------------------------------------
(* What the owners see, and zippers that stay as they are.                 *)

\* What is known of a zipper, but for its slot.
Like(x, y) == y.mode = x.mode /\ y.stage = x.stage /\ y.path = x.path /\ y.abs = x.abs

\* Settling renames slots, and that is all it does to zippers.
LEMMA SettledAlike ==
    ASSUME NEW h, HeapOK(h), NEW z, Settle(h, z), NEW i \in Zipper, z[i] = NoZipper \/ z[i] \in ZipType
    PROVE  /\ z[i] = NoZipper => zip'[i] = NoZipper
           /\ z[i] # NoZipper => zip'[i] # NoZipper /\ zip'[i] \in ZipType /\ Like(z[i], zip'[i])
<1> DEFINE x == z[i]
           y == zip'[i]
<1>1. y = IF x = NoZipper \/ x.slot = NoSlot \/ x.slot[1] \notin DOMAIN h
          THEN x ELSE [x EXCEPT !.slot[1] = NewName(h, @)]
  BY SettleFacts
<1> HIDE DEF x, y
<1>2. CASE x = NoZipper
  BY <1>1, <1>2 DEF x, y
<1>3. CASE x # NoZipper
  <2>1. x \in ZipType
    BY <1>3 DEF x
  <2>2. NoZipper \notin ZipType
    BY HeadAssumption
  <2>3. CASE x.slot = NoSlot \/ x.slot[1] \notin DOMAIN h
    BY <1>1, <2>1, <2>3, <1>3 DEF Like, x, y
  <2>4. CASE ~(x.slot = NoSlot \/ x.slot[1] \notin DOMAIN h)
    <3> DEFINE u == x.slot[1]
               b == x.slot[2]
               s == <<NewName(h, u), b>>
    <3>1. x.slot \in SlotType
      BY <2>1, <2>4 DEF ZipType, NoSlot
    <3>2. x.slot = <<u, b>> /\ <<u, b>> \in SlotType
      BY <3>1 DEF SlotType
    <3>3. y = [x EXCEPT !.slot = [x.slot EXCEPT ![1] = NewName(h, u)]]
      BY <1>1, <1>3, <2>1, <2>4
    <3> HIDE DEF u, b
    <3>4. [x.slot EXCEPT ![1] = NewName(h, u)] = s
      BY <3>2
    <3>5. u \in DOMAIN h
      BY <2>4 DEF u
    <3>6. s \in SlotType
      <4>1. CASE u = Roots
        BY <3>2, <4>1, NewNameFacts
      <4>2. CASE u # Roots
        <5>1. NewName(h, u) \in NodeType
          BY <3>5, <4>2, NewNameFacts DEF Nodes
        <5>2. b \in Byte
          BY <3>2, <4>2 DEF SlotType
        <5> QED BY <5>1, <5>2 DEF SlotType
      <4> QED BY <4>1, <4>2
    <3> HIDE DEF s
    <3>7. y = [x EXCEPT !.slot = s]
      BY <3>3, <3>4
    <3>8. /\ x = [mode |-> x.mode, stage |-> x.stage, path |-> x.path, abs |-> x.abs, slot |-> x.slot]
          /\ x.mode \in {"read", "write"} /\ x.stage \in {"asking", "open", "leaving", "map"}
          /\ x.path \in Path /\ x.abs \in TriePath
      BY <2>1 DEF ZipType
    <3>9. y = [mode |-> x.mode, stage |-> x.stage, path |-> x.path, abs |-> x.abs, slot |-> s]
      BY <3>7, <3>8
    <3>10. y \in ZipType
      BY <3>6, <3>8, <3>9 DEF ZipType
    <3>11. Like(x, y)
      BY <3>9 DEF Like
    <3> QED BY <1>3, <2>2, <3>10, <3>11 DEF x, y
  <2> QED BY <2>3, <2>4
<1> QED BY <1>2, <1>3

\* The owners outside of O are the same in h and g, and see the same.
SameSeen(h, g, O) ==
    \A o : o \notin O =>
        /\ <<Roots, o>> \in Slots(g) <=> <<Roots, o>> \in Slots(h)
        /\ <<Roots, o>> \in Slots(h) => \A q \in Seq(Byte) : Sees(g, o, q) = Sees(h, o, q)

\* No value changes anywhere.
LEMMA SameValuesSeen ==
    ASSUME NEW h, NEW g, SameValues(h, g)
    PROVE  SameSeen(h, g, {})
BY DEF SameValues, SameOwners, SameSeen, Sees

\* One after another.
LEMMA SameSeenTrans ==
    ASSUME NEW h, NEW g, NEW k, NEW O, SameSeen(h, g, {}), SameSeen(g, k, O)
    PROVE  SameSeen(h, k, O)
BY DEF SameSeen

\* What the heap that settles has, the settled one has.
LEMMA SettledSeen ==
    ASSUME NEW h, HeapOK(h), Bounded(h), NEW z, Settle(h, z)
    PROVE  SameSeen(h, heap', {}) /\ Bounded(heap')
<1>1. Settled(h, heap')
  BY SettleFacts
<1> DEFINE g == heap'
<1> HIDE DEF g
<1>2. /\ \A o : <<Roots, o>> \in Slots(g) <=> <<Roots, o>> \in Slots(h)
      /\ \A o : <<Roots, o>> \in Slots(h) => \A q \in Seq(Byte) : Sees(g, o, q) = Sees(h, o, q)
      /\ Bounded(g)
  BY <1>1, SettledValues DEF g
<1>3. SameSeen(h, g, {})
  BY <1>2 DEF SameSeen
<1> QED BY <1>2, <1>3 DEF g

\* Bounds, for the owners that see the same.
LEMMA SameBounded ==
    ASSUME NEW h, Bounded(h), NEW g, NEW O, SameSeen(h, g, O),
           \A o \in O : <<Roots, o>> \in Slots(g) =>
              \A q \in Seq(Byte) : Sees(g, o, q) # NoVal => q \in TriePath
    PROVE  Bounded(g)
BY DEF SameSeen, Bounded

\* prepare_exclusive_write_path changes no value.
LEMMA PrepareValues ==
    ASSUME NEW h, HeapOK(h), focus \in Seq(Byte), NEW p \in Seq(Byte)
    PROVE  SameValues(h, HeapOf(Prepare(h, p)))
<1>1. PICK f, m, w : /\ f = Walk(h, HeadSlot, focus)
                     /\ m = MakeMut(HeapOf(f), SlotOf(f))
                     /\ w = Walk(m, SlotOf(f), p)
                     /\ HeapOK(HeapOf(f)) /\ SlotOf(f) \in Slots(HeapOf(f))
                     /\ HeapOK(m) /\ SlotOf(f) \in Slots(m)
                     /\ HeapOK(HeapOf(w)) /\ SlotOf(w) \in Slots(HeapOf(w))
                     /\ Slots(h) \subseteq Slots(HeapOf(w))
                     /\ SlotOf(Prepare(h, p)) = SlotOf(w)
                     /\ HeapOf(Prepare(h, p)) = EnsureNode(HeapOf(w), SlotOf(w))
  BY PrepareParts
<1>2. SameValues(h, HeapOf(f))
  BY <1>1, HeapFacts, WalkValues
<1>3. SameValues(HeapOf(f), m)
  BY <1>1, MakeMutValues
<1>4. SameValues(m, HeapOf(w))
  BY <1>1, WalkValues
<1>5. SameValues(HeapOf(w), HeapOf(Prepare(h, p)))
  BY <1>1, MakeMutValues
<1>6. SameValues(h, m)
  BY <1>2, <1>3, SameValuesTrans
<1>7. SameValues(h, HeapOf(w))
  BY <1>4, <1>6, SameValuesTrans
<1> QED BY <1>5, <1>7, SameValuesTrans

\* Nor does splitting_borrow_focus.
LEMMA SplitValues ==
    ASSUME NEW h, HeapOK(h), focus \in Seq(Byte)
    PROVE  SameValues(h, SplitAtFocus(h))
<1> DEFINE f == Walk(h, HeadSlot, focus)
<1>1. SplitAtFocus(h) = h \/ SplitAtFocus(h) = EnsureNode(HeapOf(f), SlotOf(f))
  BY DEF SplitAtFocus, HeapOf, SlotOf
<1>2. SameValues(h, h)
  BY DEF SameValues, SameOwners
<1>3. HeapOK(HeapOf(f)) /\ SlotOf(f) \in Slots(HeapOf(f)) /\ SameValues(h, HeapOf(f))
  BY HeapFacts, WalkFacts, WalkValues
<1> HIDE DEF f
<1>4. SameValues(HeapOf(f), EnsureNode(HeapOf(f), SlotOf(f)))
  BY <1>3, MakeMutValues
<1>5. SameValues(h, EnsureNode(HeapOf(f), SlotOf(f)))
  BY <1>3, <1>4, SameValuesTrans
<1> QED BY <1>1, <1>2, <1>5

\* Whatever Good says about the types of the zippers.
LEMMA ZipTypes ==
    ASSUME Good, NEW i \in Zipper, zip[i] # NoZipper
    PROVE  /\ zip[i] \in ZipType /\ zip[i].path \in Seq(Byte) /\ zip[i].abs \in Seq(Byte)
           /\ zip[i].abs \in TriePath
           /\ zip[i].stage \in {"asking", "open", "leaving", "map"}
           /\ zip[i].mode \in {"read", "write"}
           /\ Lawful(head, zip[i])
<1>1. HeapOK(heap) /\ zip[i] \in ZipperIn(heap)
  BY DEF Good, Secure
<1>2. zip[i] \in ZipType /\ zip[i].path \in Path /\ zip[i].abs \in TriePath
      /\ zip[i].stage \in {"asking", "open", "leaving", "map"} /\ zip[i].mode \in {"read", "write"}
  BY <1>1, ZipperInFacts
<1> QED BY <1>2, HeadPaths DEF Good, Granted

-------------------------------------------------------------------------------
(* Pruning changes no value.                                               *)

\* Whether the cell at the end of a path, with an empty node, loses that node, makes no
\* difference to what is found.
LEMMA PruneNode ==
    ASSUME NEW h, HeapOK(h), NEW p \in Seq(Byte), NEW c, Chain(h, p, c),
           NEW s, s = Stop(c, Len(p)), IsEmpty(h, NodeIn(h, s)),
           NEW d \in CellType(h), d.rec = NoNode, d.val = ValIn(h, s),
           NEW g, g = WithCell(h, Stop(c, Len(p)), d)
    PROVE  SameSeen(h, g, {})
<1>4. d.rec = NoNode /\ d.val = ValIn(h, s)
  OBVIOUS
<1>6. \A k \in 0..(Len(p) - 1) : d.rec # NodeIn(h, Stop(c, k))
  BY <1>4 DEF Chain
<1>7. /\ HeapOK(g) /\ Slots(g) = Slots(h)
      /\ \A t \in Slots(h) : OffChain(c, Len(p), t) => \A r \in Seq(Byte) :
            Value(g, At(g, t), r) = Value(h, At(h, t), r)
      /\ \A r \in Seq(Byte) : CellBelow(g, At(g, HeadSlot), p \o r) = CellBelow(h, d, r)
      /\ \A q \in Seq(Byte) : ~Begins(p, q) => Sees(g, "map", q) = Sees(h, "map", q)
  BY <1>6, WriteLookup
<1>8. ASSUME NEW o, o # "map", <<Roots, o>> \in Slots(h), NEW q \in Seq(Byte)
      PROVE  Sees(g, o, q) = Sees(h, o, q)
  <2>1. OffChain(c, Len(p), <<Roots, o>>)
    BY <1>8, RootOff
  <2> QED BY <1>7, <1>8, <2>1 DEF Sees
<1>9. ASSUME NEW q \in Seq(Byte), Begins(p, q)
      PROVE  Sees(g, "map", q) = Sees(h, "map", q)
  <2>1. PICK r \in Seq(Byte) : q = p \o r
    BY <1>9, BeginsRest
  <2>2. Sees(g, "map", q) = Value(h, d, r)
    BY <1>7, <2>1 DEF Sees, Value, HeadSlot
  <2> DEFINE x == At(h, s)
  <2>3. CellBelow(h, At(h, HeadSlot), p) = x
    <3>1. Begins(p, p)
      BY DEF Begins
    <3> QED BY <3>1, CellBelowChain
  <2>4. CellBelow(h, At(h, HeadSlot), q) = CellBelow(h, x, r)
    BY <2>1, <2>3, CellBelowConcat
  <2>5. Sees(h, "map", q) = Value(h, x, r)
    BY <2>4 DEF Sees, Value, HeadSlot
  <2>6. x.val = d.val /\ IsEmpty(h, x.rec) /\ IsEmpty(h, d.rec)
    BY <1>4 DEF ValIn, NodeIn, IsEmpty
  <2> HIDE DEF x
  <2>7. CASE r = <<>>
    <3>1. CellBelow(h, d, r) = d /\ CellBelow(h, x, r) = x
      BY <2>7, CellBelowEmpty
    <3> QED BY <2>2, <2>5, <2>6, <3>1 DEF Value
  <2>8. CASE r # <<>>
    <3>1. CellBelow(h, d, r) = NoCell /\ CellBelow(h, x, r) = NoCell
      BY <2>6, <2>8, EmptyBelow
    <3> QED BY <2>2, <2>5, <3>1 DEF Value
  <2> QED BY <2>7, <2>8
<1> QED BY <1>7, <1>8, <1>9 DEF SameSeen

\* prune_path at the end of a path whose node is empty changes nothing that an owner sees.
LEMMA PruneValues ==
    ASSUME NEW h, HeapOK(h), NEW p \in Seq(Byte), p # <<>>, NEW c, Chain(h, p, c),
           IsEmpty(h, NodeIn(h, Stop(c, Len(p))))
    PROVE  SameSeen(h, PruneEnd(h, p), {})
<1> DEFINE s == Stop(c, Len(p))
           g == PruneEnd(h, p)
<1>1. /\ ValIn(h, s) # NoVal => g = WithCell(h, s, [At(h, s) EXCEPT !.rec = NoNode])
      /\ ValIn(h, s) = NoVal =>
            \E k \in 1..Len(p) :
               /\ g = WithoutCell(h, Stop(c, k))
               /\ \A m \in k..(Len(p) - 1) : ~Branches(h, Stop(c, m))
               /\ \A m \in k..(Len(p) - 1) : ValIn(h, Stop(c, m)) = NoVal
  BY PruneFacts DEF ValIn
<1> HIDE DEF g
<1>2. CASE ValIn(h, s) # NoVal
  <2> DEFINE d == [At(h, s) EXCEPT !.rec = NoNode]
  <2>1. g = WithCell(h, Stop(c, Len(p)), d) /\ IsEmpty(h, NodeIn(h, s))
    BY <1>1, <1>2
  <2>2. s = Stop(c, Len(p)) /\ Len(p) \in 0..Len(p)
    OBVIOUS
  <2> HIDE DEF s
  <2>3. s \in Slots(h)
    BY <2>2 DEF Chain
  <2>4. At(h, s) \in CellType(h)
    BY <2>3, HeapFacts
  <2>5. d \in CellType(h) /\ d.rec = NoNode /\ d.val = ValIn(h, s)
    BY <2>4 DEF CellType, ValIn
  <2> HIDE DEF d
  <2>6. SameSeen(h, g, {})
    BY <2>1, <2>2, <2>5, PruneNode
  <2> QED BY <2>6 DEF g
<1>3. CASE ValIn(h, s) = NoVal
  <2>1. PICK k \in 1..Len(p) :
               /\ g = WithoutCell(h, Stop(c, k))
               /\ \A m \in k..(Len(p) - 1) : ~Branches(h, Stop(c, m))
               /\ \A m \in k..(Len(p) - 1) : ValIn(h, Stop(c, m)) = NoVal
    BY <1>1, <1>3
  <2> DEFINE a == SubSeq(p, 1, k)
  <2>2. k \in 0..Len(p) /\ k \in Nat /\ k > 0 /\ Len(p) \in Nat
    OBVIOUS
  <2>3. a \in Seq(Byte) /\ Len(a) = k /\ Begins(a, p)
    BY <2>2, Beginning
  <2> HIDE DEF a
  <2>4. a # <<>> /\ Chain(h, a, c)
    BY <2>2, <2>3, ChainPrefix
  <2>5. g = WithoutCell(h, Stop(c, Len(a))) /\ \A m \in Len(a)..(Len(p) - 1) : ~Branches(h, Stop(c, m))
    BY <2>1, <2>3
  <2>6. /\ \A o : <<Roots, o>> \in Slots(g) <=> <<Roots, o>> \in Slots(h)
        /\ \A o : o # "map" /\ <<Roots, o>> \in Slots(h)
              => \A q \in Seq(Byte) : Sees(g, o, q) = Sees(h, o, q)
        /\ \A r \in Seq(Byte) : Sees(g, "map", a \o r) = NoVal
        /\ \A q \in Seq(Byte) : ~Begins(a, q) => Sees(g, "map", q) = Sees(h, "map", q)
    BY <2>3, <2>4, <2>5, CutLookup
  <2>7. ASSUME NEW q \in Seq(Byte), Begins(a, q)
        PROVE  Sees(g, "map", q) = Sees(h, "map", q)
    <3>1. PICK r \in Seq(Byte) : q = a \o r
      BY <2>3, <2>7, BeginsRest
    <3> DEFINE x == CellBelow(h, At(h, HeadSlot), a \o r)
               n == Len(a \o r)
    <3>2. x = NoCell \/ (Begins(a \o r, p) /\ x = At(h, Stop(c, n)))
      BY <2>3, <2>5, LoneChain
    <3>3. n \in Nat /\ n >= k
      BY <2>2, <2>3
    <3>4. Begins(a \o r, p) => n <= Len(p)
      BY DEF Begins
    <3>5. Sees(h, "map", q) = x.val
      BY <3>1 DEF Sees, Value, HeadSlot
    <3> HIDE DEF n, x
    <3>6. CASE x = NoCell
      BY <2>6, <3>1, <3>5, <3>6 DEF NoCell
    <3>7. CASE x # NoCell
      <4>1. n <= Len(p) /\ x = At(h, Stop(c, n))
        BY <3>2, <3>4, <3>7
      <4>2. n \in k..(Len(p) - 1) \/ n = Len(p)
        BY <2>2, <3>3, <4>1
      <4>3. ValIn(h, Stop(c, n)) = NoVal
        BY <1>3, <2>1, <4>2
      <4> QED BY <2>6, <3>1, <3>5, <4>1, <4>3 DEF ValIn
    <3> QED BY <3>6, <3>7
  <2>8. ASSUME NEW o, <<Roots, o>> \in Slots(h), NEW q \in Seq(Byte)
        PROVE  Sees(g, o, q) = Sees(h, o, q)
    <3>1. CASE o = "map"
      BY <2>6, <2>7, <3>1
    <3>2. CASE o # "map"
      BY <2>6, <2>8, <3>2
    <3> QED BY <3>1, <3>2
  <2>9. \A o : <<Roots, o>> \in Slots(g) <=> <<Roots, o>> \in Slots(h)
    BY <2>6
  <2> HIDE DEF s
  <2>10. SameSeen(h, g, {})
    BY <2>8, <2>9 DEF SameSeen
  <2> QED BY <2>10 DEF g
<1> QED BY <1>2, <1>3 DEF g

-------------------------------------------------------------------------------
(* What readers see agrees with the trie; entering as a reader.            *)

\* The parts of a path of the trie are paths of the trie.
LEMMA RestInTrie ==
    ASSUME NEW p \in Seq(Byte), NEW q \in Seq(Byte), p \o q \in TriePath
    PROVE  p \in TriePath /\ q \in TriePath
<1>1. Begins(p, p \o q) /\ p \o q \in Seq(Byte)
  BY ConcatFacts
<1>2. p \in TriePath
  BY <1>1, TriePathFacts
<1>3. Suffixes(p \o q) \subseteq TriePath
  BY HeadAssumption
<1>4. q \in Suffixes(p \o q)
  <2>1. CASE q = <<>>
    BY <2>1 DEF Suffixes
  <2>2. CASE q # <<>>
    <3> DEFINE d == p \o q
               l == Len(p) + 1
               u == SubSeq(d, l, Len(d))
    <3>1. /\ Len(p) \in Nat /\ Len(q) \in Nat /\ Len(q) > 0 /\ d \in Seq(Byte)
          /\ Len(d) = Len(p) + Len(q)
          /\ \A k \in 1..Len(q) : d[Len(p) + k] = q[k]
      BY <2>2
    <3> HIDE DEF d
    <3>2. l \in 1..Len(d)
      BY <3>1
    <3>3. u \in Seq(Byte) /\ Len(u) = Len(q) /\ \A k \in 1..Len(u) : u[k] = d[Len(p) + k]
      BY <3>1
    <3>4. u = q
      <4> HIDE DEF u
      <4>1. \A k \in 1..Len(q) : u[k] = q[k]
        BY <3>1, <3>3
      <4> QED BY <3>3, <4>1
    <3> QED BY <3>2, <3>4 DEF Suffixes, d
  <2> QED BY <2>1, <2>2
<1> QED BY <1>2, <1>3, <1>4

\* One after another, the other way round.
LEMMA SameSeenThen ==
    ASSUME NEW h, NEW g, NEW k, NEW O, SameSeen(h, g, O), SameSeen(g, k, {})
    PROVE  SameSeen(h, k, O)
BY DEF SameSeen

\* Nothing changes about a zipper, but perhaps the name of its slot.
Alike(x, y) == (x = NoZipper <=> y = NoZipper) /\ (x # NoZipper => Like(x, y))

\* What is so of the others at the end of a step of one zipper.
LEMMA OthersAlike ==
    ASSUME Good, NEW g, HeapOK(g), NEW y, Settle(g, y), NEW j \in Zipper, y[j] = zip[j]
    PROVE  Alike(zip[j], zip'[j])
<1>1. zip[j] = NoZipper \/ zip[j] \in ZipType
  BY ZipTypes
<1>2. /\ y[j] = NoZipper => zip'[j] = NoZipper
      /\ y[j] # NoZipper => zip'[j] # NoZipper /\ Like(y[j], zip'[j])
  <2>1. y[j] = NoZipper \/ y[j] \in ZipType
    BY <1>1
  <2> QED BY <2>1, SettledAlike
<1> QED BY <1>2 DEF Alike

\* Every reader sees what is at its path.
Seen ==
    /\ Bounded(heap)
    /\ \A i \in Zipper : Sharing(zip[i]) /\ zip[i].stage = "open" => \A q \in Seq(Byte) :
          Sees(heap, i, q) = Sees(heap, "map", zip[i].abs \o q)

\* What is found below a slot is found elsewhere than in an owner's cell.
LEMMA RootElse ==
    ASSUME NEW h, HeapOK(h), NEW s, s[1] = Roots, NEW t \in Slots(h), t # s, NEW r \in Seq(Byte)
    PROVE  CellBelow(h, At(h, t), r) = NoCell \/ \E u \in Slots(h) : u # s /\ CellBelow(h, At(h, t), r) = At(h, u)
<1> DEFINE g == h
<1>1. /\ HeapOK(g) /\ Slots(g) \ {s} = Slots(h) \ {s}
      /\ \A u \in Slots(h) : u # s => At(g, u) = At(h, u)
  OBVIOUS
<1> HIDE DEF g
<1> QED BY <1>1, RootApart

\* The reader that is granted its path sees what is there, and nothing else changes.
LEMMA EnterReadEffect ==
    ASSUME Good, Seen, NEW i \in Zipper, EnterRead(i)
    PROVE  /\ SameSeen(heap, heap', {i}) /\ Bounded(heap')
           /\ \A j \in Zipper : j # i => Alike(zip[j], zip'[j])
           /\ zip[i] # NoZipper /\ zip[i].stage = "asking"
           /\ zip'[i] # NoZipper /\ zip'[i].mode = "read" /\ zip'[i].stage = "open"
           /\ zip'[i].abs \in TriePath
           /\ <<Roots, i>> \in Slots(heap')
           /\ \A q \in Seq(Byte) : Sees(heap', i, q) = Sees(heap, "map", zip'[i].abs \o q)
<1> DEFINE h == SplitAtFocus(heap)
           p == focus \o zip[i].path
           c == CellBelow(h, At(h, HeadSlot), p)
           s == <<Roots, i>>
           g == WithCell(h, s, c)
           x == Opened(i, s)
           y == Now(i, x)
<1>1. Is(i, "asking") /\ zip[i].mode = "read" /\ Settle(g, y)
  BY DEF EnterRead
<1>2. HeapOK(heap) /\ focus = head.base /\ focus \in Seq(Byte) /\ i # "map" /\ HeadSlot \in Slots(heap)
  BY GoodFacts
<1>3. HeapOK(h) /\ SameValues(heap, h)
  BY <1>2, SplitFacts, SplitValues
<1>4. zip[i] # NoZipper /\ zip[i].stage = "asking"
  BY <1>1 DEF Is
<1>0. p = head.base \o zip[i].path
  BY <1>2
<1>5. p \in Seq(Byte) /\ p \in TriePath
  <2>1. Lawful(head, zip[i])
    BY <1>4, ZipTypes
  <2> QED BY <1>2, <1>4, <2>1, HeadPaths DEF Lawful
<1>6. SameSeen(heap, h, {})
  <2> HIDE DEF h
  <2> QED BY <1>3, SameValuesSeen
<1> HIDE DEF h, p
<1>7. HeadSlot \in Slots(h) /\ HeadSlot # s /\ s[1] = Roots
  BY <1>2, <1>3, HeapFacts DEF HeadSlot
<1>8. c = NoCell \/ \E t \in Slots(h) : t # s /\ c = At(h, t)
  <2> HIDE DEF s
  <2> DEFINE d == HeadSlot
  <2>1. d \in Slots(h) /\ d # s
    BY <1>7
  <2>2. c = CellBelow(h, At(h, d), p)
    OBVIOUS
  <2> HIDE DEF d, c
  <2>4. CellBelow(h, At(h, d), p) = NoCell \/ \E u \in Slots(h) : u # s /\ CellBelow(h, At(h, d), p) = At(h, u)
    BY <1>3, <1>5, <1>7, <2>1, RootElse
  <2> QED BY <2>2, <2>4
<1>9. c \in CellType(h) /\ (c.rec = NoNode \/ \E t \in Slots(h) : t # s /\ c.rec = NodeIn(h, t))
  <2>1. NoCell \in CellType(h) /\ NoCell.rec = NoNode
    BY DEF NoCell, CellType
  <2> HIDE DEF c, s
  <2> QED BY <1>3, <1>8, <2>1, HeapFacts DEF NodeIn
<1>10. i \in Owner
  BY DEF Owner
<1>11. /\ HeapOK(g)
       /\ \A e : <<Roots, e>> \in Slots(g) <=> <<Roots, e>> \in Slots(h) \/ e = i
       /\ \A e : e # i /\ <<Roots, e>> \in Slots(h)
             => \A q \in Seq(Byte) : Sees(g, e, q) = Sees(h, e, q)
       /\ \A q \in Seq(Byte) : Sees(g, i, q) = Value(h, c, q)
  <2> HIDE DEF c
  <2> QED BY <1>2, <1>3, <1>9, <1>10, RootWrite
<1>12. ASSUME NEW q \in Seq(Byte)
       PROVE  Sees(g, i, q) = Sees(heap, "map", p \o q) /\ p \o q \in Seq(Byte)
  <2> DEFINE d == At(h, HeadSlot)
  <2>0. c = CellBelow(h, d, p)
    OBVIOUS
  <2> HIDE DEF c, d
  <2>1. CellBelow(h, d, p \o q) = CellBelow(h, c, q)
    BY <1>5, <2>0, CellBelowConcat
  <2>2. Sees(h, "map", p \o q) = Value(h, c, q)
    BY <2>1 DEF Sees, Value, HeadSlot, d
  <2>3. p \o q \in Seq(Byte)
    BY <1>5, ConcatFacts
  <2>4. Sees(h, "map", p \o q) = Sees(heap, "map", p \o q)
    BY <1>2, <1>6, <2>3 DEF SameSeen, HeadSlot
  <2> QED BY <1>11, <2>2, <2>3, <2>4
<1> HIDE DEF g
<1>13. SameSeen(h, g, {i})
  BY <1>11 DEF SameSeen
<1>14. SameSeen(heap, g, {i})
  BY <1>6, <1>13, SameSeenTrans
<1>15. Bounded(g)
  <2>1. ASSUME NEW q \in Seq(Byte), Sees(g, i, q) # NoVal
        PROVE  q \in TriePath
    <3>1. Sees(heap, "map", p \o q) # NoVal /\ p \o q \in Seq(Byte)
      BY <1>12, <2>1
    <3>2. p \o q \in TriePath
      BY <1>2, <3>1 DEF Seen, Bounded, HeadSlot
    <3> QED BY <1>5, <3>2, RestInTrie
  <2>2. Bounded(heap)
    BY DEF Seen
  <2> QED BY <1>14, <2>1, <2>2, SameBounded
<1>16. SameSeen(g, heap', {}) /\ Bounded(heap')
  <2> HIDE DEF y
  <2> QED BY <1>1, <1>11, <1>15, SettledSeen
<1>17. SameSeen(heap, heap', {i})
  <2> DEFINE k == heap'
  <2> HIDE DEF k
  <2>1. SameSeen(g, k, {})
    BY <1>16 DEF k
  <2>2. SameSeen(heap, k, {i})
    BY <1>14, <2>1, SameSeenThen
  <2> QED BY <2>2 DEF k
<1>18. s \in Slots(g)
  BY <1>11
<1>19. x \in ZipperIn(g) /\ x # NoZipper /\ Opens(zip[i], x, p, s)
  <2> HIDE DEF s
  <2> QED BY <1>0, <1>1, <1>11, <1>18, OpenedFacts
<1>20. Updates(zip, i, x, y)
  <2> HIDE DEF x
  <2> QED BY GoodFacts, NowUpdates
<1> HIDE DEF x, y
<1>21. \A j \in Zipper : j # i => Alike(zip[j], zip'[j])
  <2>1. ASSUME NEW j \in Zipper, j # i
        PROVE  Alike(zip[j], zip'[j])
    <3>1. y[j] = zip[j]
      BY <1>20, <2>1 DEF Updates
    <3> QED BY <1>1, <1>11, <3>1, OthersAlike
  <2> QED BY <2>1
<1>22. zip'[i] # NoZipper /\ Like(x, zip'[i])
  <2>1. y[i] = x /\ x \in ZipType
    BY <1>11, <1>19, <1>20, ZipperInFacts DEF Updates
  <2> QED BY <1>1, <1>11, <1>19, <2>1, SettledAlike
<1>23. zip'[i].mode = "read" /\ zip'[i].stage = "open" /\ zip'[i].abs = p
  BY <1>1, <1>19, <1>22 DEF Like, Opens
<1>24. <<Roots, i>> \in Slots(heap')
  BY <1>16, <1>18 DEF SameSeen
<1>25. ASSUME NEW q \in Seq(Byte)
       PROVE  Sees(heap', i, q) = Sees(heap, "map", p \o q)
  BY <1>12, <1>16, <1>18 DEF SameSeen
<1> QED BY <1>4, <1>5, <1>16, <1>17, <1>21, <1>22, <1>23, <1>24, <1>25

-------------------------------------------------------------------------------
(* Entering as a writer, asking, leaving and cleaning up.                  *)

\* The end of a step of zipper i, when what the owners outside of O see is the same, and what
\* those in O see is at paths of the trie.
LEMMA EffectEnds ==
    ASSUME Good, Seen, NEW g, HeapOK(g), NEW O, SameSeen(heap, g, O),
           \A o \in O : <<Roots, o>> \in Slots(g) =>
              \A q \in Seq(Byte) : Sees(g, o, q) # NoVal => q \in TriePath,
           NEW y, Settle(g, y), NEW k, k = heap'
    PROVE  /\ SameSeen(heap, k, O) /\ Bounded(k) /\ SameSeen(g, k, {})
           /\ \A j \in Zipper : y[j] = zip[j] => Alike(zip[j], zip'[j])
<1>1. Bounded(g)
  BY SameBounded DEF Seen
<1>2. SameSeen(g, k, {}) /\ Bounded(k)
  BY <1>1, SettledSeen
<1>3. SameSeen(heap, k, O)
  BY <1>2, SameSeenThen
<1>4. \A j \in Zipper : y[j] = zip[j] => Alike(zip[j], zip'[j])
  BY OthersAlike
<1> QED BY <1>2, <1>3, <1>4

\* A writer is granted its path: nothing that can be seen changes.
LEMMA EnterWriteEffect ==
    ASSUME Good, Seen, NEW i \in Zipper, EnterWrite(i)
    PROVE  /\ SameSeen(heap, heap', {}) /\ Bounded(heap')
           /\ \A j \in Zipper : j # i => Alike(zip[j], zip'[j])
           /\ zip[i] # NoZipper /\ zip[i].stage = "asking"
           /\ zip'[i] # NoZipper /\ zip'[i].mode = "write" /\ zip'[i].stage = "open"
           /\ zip'[i].abs \in TriePath
<1> DEFINE p == zip[i].path
           w == Prepare(heap, p)
           g == HeapOf(w)
           s == SlotOf(w)
           x == Opened(i, s)
           y == Now(i, x)
           k == heap'
<1>1. Is(i, "asking") /\ zip[i].mode = "write" /\ Settle(g, y)
  BY DEF EnterWrite, HeapOf, SlotOf
<1>2. HeapOK(heap) /\ focus \in Seq(Byte) /\ zip[i] # NoZipper /\ zip[i].stage = "asking"
  BY <1>1, GoodFacts DEF Is
<1>3. p \in Seq(Byte)
  BY <1>2, ZipTypes
<1>4. HeapOK(g) /\ s \in Slots(g)
  BY <1>2, <1>3, PrepareOwn
<1>5. SameValues(heap, g)
  BY <1>2, <1>3, PrepareValues
<1> HIDE DEF w, g, s
<1>6. SameSeen(heap, g, {})
  BY <1>5, SameValuesSeen
<1>7. /\ x \in ZipperIn(g) /\ x # NoZipper
      /\ Opens(zip[i], x, head.base \o zip[i].path, s) /\ head.base \o zip[i].path \in TriePath
  BY <1>1, <1>4, OpenedFacts
<1>8. Updates(zip, i, x, y)
  <2> HIDE DEF x
  <2> QED BY GoodFacts, NowUpdates
<1> HIDE DEF x, y, p
<1>9. k = heap'
  OBVIOUS
<1> HIDE DEF k
<1>10. /\ SameSeen(heap, k, {}) /\ Bounded(k)
       /\ \A j \in Zipper : y[j] = zip[j] => Alike(zip[j], zip'[j])
  BY <1>1, <1>4, <1>6, <1>9, EffectEnds
<1>11. \A j \in Zipper : j # i => Alike(zip[j], zip'[j])
  BY <1>8, <1>10 DEF Updates
<1>12. zip'[i] # NoZipper /\ Like(x, zip'[i])
  <2>1. y[i] = x /\ x \in ZipType
    BY <1>4, <1>7, <1>8, ZipperInFacts DEF Updates
  <2> QED BY <1>1, <1>4, <1>7, <2>1, SettledAlike
<1>13. zip'[i].mode = "write" /\ zip'[i].stage = "open" /\ zip'[i].abs \in TriePath
  BY <1>1, <1>7, <1>12 DEF Like, Opens
<1> QED BY <1>2, <1>9, <1>10, <1>11, <1>12, <1>13

\* The steps that leave the heap alone.
LEMMA RequestEffect ==
    ASSUME Good, NEW i \in Zipper, NEW p \in head.paths, NEW mode \in L!Mode, Request(i, p, mode)
    PROVE  /\ heap' = heap /\ zip[i] = NoZipper
           /\ \A j \in Zipper : j # i => zip'[j] = zip[j]
           /\ ~Writing(zip'[i]) /\ ~Sharing(zip'[i])
<1> DEFINE x == [mode |-> mode, stage |-> "asking", path |-> p, abs |-> <<>>, slot |-> NoSlot]
<1>1. zip' = Now(i, x) /\ heap' = heap /\ zip[i] = NoZipper
  BY DEF Request
<1>2. x.stage = "asking"
  OBVIOUS
<1> HIDE DEF x
<1>3. Updates(zip, i, x, Now(i, x))
  BY GoodFacts, NowUpdates
<1> QED BY <1>1, <1>2, <1>3 DEF Updates, Writing, Sharing

\* Dropping a writer, or the first half of cleaning up after it.
LEMMA WriterGoes ==
    ASSUME Good, NEW i \in Zipper, DropWriter(i) \/ Leave(i)
    PROVE  /\ heap' = heap /\ i \in Writers
           /\ \A j \in Zipper : j # i => zip'[j] = zip[j]
           /\ ~(zip'[i] # NoZipper /\ zip'[i].stage \in {"open", "map"})
<1>1. i \in Writers /\ heap' = heap
  BY DEF DropWriter, Leave
<1>2. CASE DropWriter(i)
  <2>1. zip' = Now(i, NoZipper)
    BY <1>2 DEF DropWriter
  <2>2. Updates(zip, i, NoZipper, Now(i, NoZipper))
    BY GoodFacts, NowUpdates
  <2> QED BY <1>1, <2>1, <2>2 DEF Updates
<1>3. CASE Leave(i)
  <2> DEFINE u == zip[i]
             x == [u EXCEPT !.stage = "leaving", !.slot = NoSlot]
  <2>1. zip' = Now(i, x)
    BY <1>3 DEF Leave
  <2>2. u \in ZipType
    BY <1>1, ZipTypes DEF Writers, Open, Is
  <2> HIDE DEF u
  <2>3. x.stage = "leaving"
    BY <2>2 DEF ZipType
  <2> HIDE DEF x
  <2>4. Updates(zip, i, x, Now(i, x))
    BY GoodFacts, NowUpdates
  <2> QED BY <1>1, <2>1, <2>3, <2>4 DEF Updates
<1> QED BY <1>2, <1>3

\* Cleaning up after a writer: nothing that can be seen changes.
LEMMA CleanupEffect ==
    ASSUME Good, Seen, NEW i \in Zipper, Cleanup(i)
    PROVE  /\ SameSeen(heap, heap', {}) /\ Bounded(heap')
           /\ \A j \in Zipper : j # i => Alike(zip[j], zip'[j])
           /\ zip[i] # NoZipper /\ zip[i].stage = "leaving"
           /\ zip'[i] = NoZipper
<1> DEFINE p == zip[i].path
           s == Locate(heap, p)
           h == HeapOf(Walk(heap, HeadSlot, p))
           g == IF p # <<>> /\ IsEmpty(heap, NodeIn(heap, s)) THEN PruneEnd(h, p) ELSE h
           y == Now(i, NoZipper)
           k == heap'
<1>1. /\ Is(i, "leaving")
      /\ IF s = NoSlot \/ NodeIn(heap, s) = NoNode
         THEN zip' = y /\ heap' = heap
         ELSE Settle(g, y)
  BY DEF Cleanup, HeapOf, NodeIn
<1>2. HeapOK(heap) /\ zip[i] # NoZipper /\ zip[i].stage = "leaving" /\ HeadSlot \in Slots(heap)
  BY <1>1, GoodFacts DEF Is
<1>3. p \in Seq(Byte)
  BY <1>2, ZipTypes
<1>4. Lawful(head, zip[i]) /\ Writing(zip[i]) /\ Disciplined(head)
  BY <1>2, ZipTypes DEF Writing, Good
<1>5. zip[i].abs = p /\ head.base = <<>>
  <2>1. zip[i].abs = head.base \o p /\ head.base = <<>>
    BY <1>2, <1>4 DEF Lawful, Disciplined
  <2> QED BY <1>3, <2>1, ConcatFacts
<1>6. PICK c : Chain(heap, p, c) /\ NodeIn(heap, Stop(c, Len(p))) # NoNode
  BY <1>2, <1>4, <1>5 DEF Good, Secure, Rooted
<1>7. Updates(zip, i, NoZipper, y)
  BY GoodFacts, NowUpdates
<1>8. s = Stop(c, Len(p)) /\ s # NoSlot
  <2>1. Begins(p, p) /\ Len(p) \in 0..Len(p)
    BY <1>3 DEF Begins
  <2>2. s = Stop(c, Len(p))
    BY <1>2, <1>3, <1>6, <2>1, LocateChain
  <2>3. Stop(c, Len(p)) \in Slots(heap)
    BY <1>6, <2>1 DEF Chain
  <2> HIDE DEF s
  <2> QED BY <2>2, <2>3, NoSlotFacts
<1>9. h = heap
  <2> DEFINE e == <<>>
             d == HeadSlot
  <2>1. e \in Seq(Byte) /\ Begins(e, p) /\ Len(e) = 0 /\ d \in Slots(heap)
    BY <1>2, <1>3, BeginsFacts
  <2>2. e \o p = p /\ Begins(p, p)
    BY <1>3, ConcatFacts DEF Begins
  <2>3. Stop(c, Len(e)) = d
    BY <1>6, <2>1 DEF Chain
  <2> HIDE DEF e, d, p
  <2>4. Placed(c, p, e, d)
    BY <2>1, <2>3 DEF Placed
  <2>5. Begins(e \o p, p) => HeapOf(Walk(heap, d, p)) = heap
    BY <1>2, <1>3, <1>6, <2>1, <2>4, WalkChain
  <2> QED BY <2>2, <2>5 DEF d
<1> HIDE DEF s, h, y, p
<1>10. Settle(g, y)
  BY <1>1, <1>6, <1>8
<1>11. HeapOK(g) /\ SameSeen(heap, g, {})
  <2>1. CASE p # <<>> /\ IsEmpty(heap, NodeIn(heap, s))
    <3>1. g = PruneEnd(heap, p)
      BY <1>9, <2>1
    <3> QED BY <1>2, <1>3, <1>6, <1>8, <2>1, <3>1, PruneHeap, PruneValues
  <2>2. CASE ~(p # <<>> /\ IsEmpty(heap, NodeIn(heap, s)))
    <3>1. g = heap
      BY <1>9, <2>2
    <3> QED BY <1>2, <3>1 DEF SameSeen
  <2> QED BY <2>1, <2>2
<1>12. k = heap'
  OBVIOUS
<1> HIDE DEF g, k
<1>13. /\ SameSeen(heap, k, {}) /\ Bounded(k)
       /\ \A j \in Zipper : y[j] = zip[j] => Alike(zip[j], zip'[j])
  BY <1>10, <1>11, <1>12, EffectEnds
<1>14. zip'[i] = NoZipper
  <2>1. y[i] = NoZipper
    BY <1>7 DEF Updates
  <2> QED BY <1>10, <1>11, <2>1, SettledAlike
<1> QED BY <1>2, <1>7, <1>12, <1>13, <1>14 DEF Updates

-------------------------------------------------------------------------------
(* Making and dropping maps and readers.                                   *)

\* What an open zipper, or a map, has in its slot: a reader or a map what its own cell leads
\* to, a writer what is in the trie at its path.
LEMMA SlotSees ==
    ASSUME Good, Seen, NEW i \in Zipper, zip[i] # NoZipper, zip[i].stage \in {"open", "map"}
    PROVE  /\ zip[i].slot \in Slots(heap)
           /\ Sharing(zip[i]) \/ (Writing(zip[i]) /\ zip[i].stage = "open")
           /\ \A j \in Zipper : j # i => zip[i].slot # <<Roots, j>>
           /\ \A q \in Seq(Byte) : Sharing(zip[i]) => Value(heap, CellOf(i), q) = Sees(heap, i, q)
           /\ \A q \in Seq(Byte) : Writing(zip[i]) =>
                 Value(heap, CellOf(i), q) = Sees(heap, "map", zip[i].abs \o q)
           /\ \A q \in Seq(Byte) : Value(heap, CellOf(i), q) # NoVal => q \in TriePath
<1> DEFINE u == zip[i]
           s == u.slot
           x == CellOf(i)
           a == u.abs
<1>0. x = At(heap, s)
  BY DEF CellOf
<1>1. HeapOK(heap) /\ i # "map" /\ HeadSlot \in Slots(heap) /\ Bounded(heap)
  BY GoodFacts DEF Seen
<1>2. Sharing(u) \/ (Writing(u) /\ u.stage = "open")
  <2>1. u.stage \in {"open", "map"} /\ u.mode \in {"read", "write"} /\ Lawful(head, u)
    BY ZipTypes
  <2> HIDE DEF u
  <2>2. u # NoZipper
    BY DEF u
  <2> QED BY <2>1, <2>2 DEF Sharing, Writing, Lawful
<1> HIDE DEF x
<1>3. CASE Sharing(u)
  <2>1. s = <<Roots, i>> /\ s \in Slots(heap)
    BY <1>3 DEF Good, Secure, Shared
  <2>2. \A j \in Zipper : j # i => s # <<Roots, j>>
    BY <2>1
  <2>3. ASSUME NEW q \in Seq(Byte)
        PROVE  Value(heap, x, q) = Sees(heap, i, q)
    BY <1>0, <2>1 DEF Sees
  <2>4. ~Writing(u)
    BY <1>3, ZipTypes DEF Sharing, Writing
  <2>5. \A q \in Seq(Byte) : Value(heap, x, q) # NoVal => q \in TriePath
    BY <1>1, <2>1, <2>3 DEF Bounded
  <2> QED BY <1>2, <2>1, <2>2, <2>3, <2>4, <2>5 DEF x
<1>4. CASE Writing(u) /\ u.stage = "open"
  <2>1. PICK c : Chain(heap, a, c) /\ s = Stop(c, Len(a))
    BY <1>4 DEF Good, Secure, Rooted
  <2>2. a \in Seq(Byte)
    BY ZipTypes
  <2>3. ~Sharing(u)
    BY <1>4, ZipTypes DEF Sharing, Writing
  <2> HIDE DEF a, s
  <2>4. Len(a) \in 0..Len(a) /\ Begins(a, a)
    BY <2>2 DEF Begins
  <2>5. s \in Slots(heap)
    BY <2>1, <2>4 DEF Chain
  <2>6. ASSUME NEW j \in Zipper
        PROVE  s # <<Roots, j>>
    <3>1. OffChain(c, Len(a), <<Roots, j>>)
      BY <1>1, <2>1, <2>2, GoodFacts, RootOff
    <3> QED BY <2>1, <2>4, <3>1 DEF OffChain
  <2> DEFINE d == At(heap, HeadSlot)
  <2>7. CellBelow(heap, d, a) = x
    BY <1>0, <1>1, <2>1, <2>2, <2>4, CellBelowChain DEF s
  <2>8. ASSUME NEW q \in Seq(Byte)
        PROVE  a \o q \in Seq(Byte) /\ Value(heap, x, q) = Sees(heap, "map", a \o q)
    <3>1. a \o q \in Seq(Byte)
      BY <2>2, ConcatFacts
    <3> HIDE DEF d
    <3>2. CellBelow(heap, d, a \o q) = CellBelow(heap, x, q)
      BY <2>2, <2>7, CellBelowConcat
    <3> QED BY <3>1, <3>2 DEF d, Value, Sees, HeadSlot
  <2>9. ASSUME NEW q \in Seq(Byte), Value(heap, x, q) # NoVal
        PROVE  q \in TriePath
    <3>1. a \o q \in TriePath
      BY <1>1, <2>8, <2>9 DEF Bounded, HeadSlot
    <3> QED BY <2>2, <3>1, RestInTrie
  <2> QED BY <1>2, <2>3, <2>5, <2>6, <2>8, <2>9 DEF x, a, s
<1> QED BY <1>2, <1>3, <1>4

\* A cell c that leads to where x leads, or nowhere if x leads to an empty node.
LEMMA EmptiedValues ==
    ASSUME NEW h, HeapOK(h), NEW x, NEW c, c.val = x.val,
           c.rec = x.rec \/ (c.rec = NoNode /\ IsEmpty(h, x.rec)), NEW q \in Seq(Byte)
    PROVE  Value(h, c, q) = Value(h, x, q)
<1>1. CASE q = <<>>
  <2>1. CellBelow(h, c, q) = c /\ CellBelow(h, x, q) = x
    BY <1>1, CellBelowEmpty
  <2> QED BY <2>1 DEF Value
<1>2. CASE q # <<>>
  <2>1. CASE c.rec = x.rec
    <3>1. CellBelow(h, c, q) = CellBelow(h, x, q)
      BY <1>2, <2>1, CellBelowNode
    <3> QED BY <3>1 DEF Value
  <2>2. CASE c.rec = NoNode /\ IsEmpty(h, x.rec)
    <3>1. IsEmpty(h, c.rec)
      BY <2>2 DEF IsEmpty
    <3>2. CellBelow(h, c, q) = NoCell /\ CellBelow(h, x, q) = NoCell
      BY <1>2, <2>2, <3>1, EmptyBelow
    <3> QED BY <3>2 DEF Value
  <2> QED BY <2>1, <2>2
<1> QED BY <1>1, <1>2

\* A map is taken of what an open zipper has.
LEMMA MakeMapEffect ==
    ASSUME Good, Seen, NEW i \in Zipper, NEW j \in Zipper, MakeMap(i, j)
    PROVE  /\ SameSeen(heap, heap', {j}) /\ Bounded(heap')
           /\ \A k \in Zipper : k # j => Alike(zip[k], zip'[k])
           /\ zip[j] = NoZipper /\ zip[i] # NoZipper /\ zip[i].stage = "open"
           /\ zip'[j] # NoZipper /\ zip'[j].mode = "read" /\ zip'[j].stage = "map"
           /\ <<Roots, j>> \in Slots(heap')
           /\ \A q \in Seq(Byte) : Sees(heap', j, q) = Value(heap, CellOf(i), q)
<1> DEFINE u == CellOf(i)
           c == [u EXCEPT !.rec = IF IsEmpty(heap, @) THEN NoNode ELSE @]
           g == WithCell(heap, <<Roots, j>>, c)
           x == [mode |-> "read", stage |-> "map", path |-> <<>>, abs |-> <<>>, slot |-> <<Roots, j>>]
           y == Now(j, x)
           k == heap'
<1>1. Is(i, "open") /\ zip[j] = NoZipper /\ Settle(g, y)
  BY DEF MakeMap
<1>2. HeapOK(heap) /\ zip[i] # NoZipper /\ zip[i].stage = "open" /\ j # "map" /\ i # j
  BY <1>1, GoodFacts DEF Is
<1>3. /\ zip[i].slot \in Slots(heap)
      /\ zip[i].slot # <<Roots, j>>
      /\ \A q \in Seq(Byte) : Value(heap, u, q) # NoVal => q \in TriePath
  BY <1>2, SlotSees
<1>4. u \in CellType(heap) /\ u = At(heap, zip[i].slot)
  BY <1>2, <1>3, HeapFacts DEF CellOf
<1>5. /\ c \in CellType(heap) /\ c.val = u.val
      /\ c.rec = u.rec \/ (c.rec = NoNode /\ IsEmpty(heap, u.rec))
  <2> HIDE DEF u
  <2> QED BY <1>4 DEF CellType
<1>6. c.rec = NoNode \/ \E t \in Slots(heap) : t # <<Roots, j>> /\ c.rec = NodeIn(heap, t)
  <2> HIDE DEF c, u
  <2> QED BY <1>3, <1>4, <1>5 DEF NodeIn
<1>7. j \in Owner /\ Owner = Zipper \cup {"map"}
  BY DEF Owner
<1>8. x.mode = "read" /\ x.stage = "map"
  OBVIOUS
<1>9. x \in ZipType
  <2>1. <<>> \in Path /\ <<>> \in TriePath
    BY TriePathFacts, PathAssumption
  <2>2. <<Roots, j>> \in SlotType
    BY <1>7 DEF SlotType
  <2> QED BY <2>1, <2>2 DEF ZipType
<1>10. x # NoZipper
  BY <1>9, HeadAssumption
<1> HIDE DEF c, u, x
<1>11. /\ HeapOK(g)
       /\ \A e : <<Roots, e>> \in Slots(g) <=> <<Roots, e>> \in Slots(heap) \/ e = j
       /\ \A e : e # j /\ <<Roots, e>> \in Slots(heap)
             => \A q \in Seq(Byte) : Sees(g, e, q) = Sees(heap, e, q)
       /\ \A q \in Seq(Byte) : Sees(g, j, q) = Value(heap, c, q)
  <2> DEFINE h == heap
  <2>1. HeapOK(h) /\ c \in CellType(h) /\ g = WithCell(h, <<Roots, j>>, c)
        /\ (c.rec = NoNode \/ \E t \in Slots(h) : t # <<Roots, j>> /\ c.rec = NodeIn(h, t))
    BY <1>2, <1>5, <1>6
  <2> HIDE DEF h, g
  <2>2. /\ HeapOK(g)
        /\ \A e : <<Roots, e>> \in Slots(g) <=> <<Roots, e>> \in Slots(h) \/ e = j
        /\ \A e : e # j /\ <<Roots, e>> \in Slots(h)
              => \A q \in Seq(Byte) : Sees(g, e, q) = Sees(h, e, q)
        /\ \A q \in Seq(Byte) : Sees(g, j, q) = Value(h, c, q)
    BY <1>2, <1>7, <2>1, RootWrite
  <2> QED BY <2>2 DEF h
<1> HIDE DEF g
<1>12. SameSeen(heap, g, {j})
  BY <1>11 DEF SameSeen
<1>13. ASSUME NEW q \in Seq(Byte)
       PROVE  Sees(g, j, q) = Value(heap, u, q)
  <2>1. Value(heap, c, q) = Value(heap, u, q)
    BY <1>2, <1>5, EmptiedValues
  <2> QED BY <1>11, <2>1
<1>14. Updates(zip, j, x, y)
  BY GoodFacts, NowUpdates
<1>15. k = heap'
  OBVIOUS
<1> HIDE DEF k, y
<1>16. /\ SameSeen(heap, k, {j}) /\ Bounded(k) /\ SameSeen(g, k, {})
       /\ \A e \in Zipper : y[e] = zip[e] => Alike(zip[e], zip'[e])
  <2>1. \A o \in {j} : <<Roots, o>> \in Slots(g) =>
              \A q \in Seq(Byte) : Sees(g, o, q) # NoVal => q \in TriePath
    BY <1>3, <1>13
  <2> QED BY <1>1, <1>11, <1>12, <1>15, <2>1, EffectEnds
<1>17. zip'[j] # NoZipper /\ Like(x, zip'[j])
  <2>1. y[j] = x
    BY <1>14 DEF Updates
  <2> QED BY <1>1, <1>9, <1>10, <1>11, <2>1, SettledAlike
<1>18. <<Roots, j>> \in Slots(k) /\ \A q \in Seq(Byte) : Sees(k, j, q) = Value(heap, u, q)
  BY <1>11, <1>13, <1>16 DEF SameSeen
<1> QED BY <1>1, <1>2, <1>8, <1>14, <1>15, <1>16, <1>17, <1>18 DEF Updates, Like, u

\* A reader or a map is dropped.
LEMMA DropShareEffect ==
    ASSUME Good, Seen, NEW i \in Zipper, DropShare(i)
    PROVE  /\ SameSeen(heap, heap', {i}) /\ Bounded(heap')
           /\ \A k \in Zipper : k # i => Alike(zip[k], zip'[k])
           /\ Sharing(zip[i]) /\ zip'[i] = NoZipper
<1> DEFINE g == WithoutCell(heap, <<Roots, i>>)
           y == Now(i, NoZipper)
           k == heap'
<1>1. zip[i] # NoZipper /\ zip[i].stage \in {"open", "map"} /\ Sharing(zip[i])
  <2>1. i \in Readers \/ Is(i, "map")
    BY DEF DropShare
  <2>2. zip[i] # NoZipper /\ zip[i].stage \in {"open", "map"}
    BY <2>1 DEF Readers, Open, Is
  <2>3. Lawful(head, zip[i])
    BY <2>2, ZipTypes
  <2> QED BY <2>1, <2>2, <2>3 DEF Readers, Open, Is, Sharing, Lawful
<1>2. HeapOK(heap) /\ i # "map" /\ zip[i].slot = <<Roots, i>> /\ <<Roots, i>> \in Slots(heap)
  BY <1>1, GoodFacts DEF Good, Secure, Shared
<1>3. Settle(g, y)
  BY <1>2 DEF DropShare
<1>4. /\ HeapOK(g)
      /\ \A e : <<Roots, e>> \in Slots(g) <=> <<Roots, e>> \in Slots(heap) /\ e # i
      /\ \A e : e # i /\ <<Roots, e>> \in Slots(heap)
            => \A q \in Seq(Byte) : Sees(g, e, q) = Sees(heap, e, q)
  BY <1>2, RootCut
<1>5. k = heap'
  OBVIOUS
<1>6. Updates(zip, i, NoZipper, y)
  BY GoodFacts, NowUpdates
<1> HIDE DEF g, y, k
<1>7. SameSeen(heap, g, {i})
  BY <1>4 DEF SameSeen
<1>8. /\ SameSeen(heap, k, {i}) /\ Bounded(k)
      /\ \A e \in Zipper : y[e] = zip[e] => Alike(zip[e], zip'[e])
  <2>1. \A o \in {i} : <<Roots, o>> \in Slots(g) =>
              \A q \in Seq(Byte) : Sees(g, o, q) # NoVal => q \in TriePath
    BY <1>4
  <2> QED BY <1>3, <1>4, <1>5, <1>7, <2>1, EffectEnds
<1>9. zip'[i] = NoZipper
  <2>1. y[i] = NoZipper
    BY <1>6 DEF Updates
  <2> QED BY <1>3, <1>4, <2>1, SettledAlike
<1> QED BY <1>1, <1>5, <1>6, <1>8, <1>9 DEF Updates

-------------------------------------------------------------------------------
(* One value is written.                                                   *)

\* The value at path a of the trie is v now, all else that can be seen is as it was.
Assigned(h, g, a, v) ==
    /\ SameSeen(h, g, {"map"})
    /\ Sees(g, "map", a) = v
    /\ \A q \in Seq(Byte) : q # a => Sees(g, "map", q) = Sees(h, "map", q)

\* A value is written at the end of a chain.
LEMMA AssignLookup ==
    ASSUME NEW h, HeapOK(h), NEW a \in Seq(Byte), NEW c, Chain(h, a, c),
           NEW d \in CellType(h), d.rec = NodeIn(h, Stop(c, Len(a))),
           NEW g, g = WithCell(h, Stop(c, Len(a)), d)
    PROVE  HeapOK(g) /\ Assigned(h, g, a, d.val)
<1> DEFINE s == Stop(c, Len(a))
           x == At(h, s)
<1>1. Len(a) \in 0..Len(a) /\ Begins(a, a)
  BY DEF Begins
<1>2. s \in Slots(h) /\ OffChain(c, Len(a) - 1, s)
  BY <1>1, OffLess DEF Chain
<1>3. \A k \in 0..(Len(a) - 1) : d.rec # NodeIn(h, Stop(c, k))
  BY <1>2, NodeOff
<1>4. /\ HeapOK(g) /\ Slots(g) = Slots(h)
      /\ \A t \in Slots(h) : OffChain(c, Len(a), t) => \A r \in Seq(Byte) :
            Value(g, At(g, t), r) = Value(h, At(h, t), r)
      /\ \A r \in Seq(Byte) : CellBelow(g, At(g, HeadSlot), a \o r) = CellBelow(h, d, r)
      /\ \A q \in Seq(Byte) : ~Begins(a, q) => Sees(g, "map", q) = Sees(h, "map", q)
  BY <1>3, WriteLookup
<1>5. ASSUME NEW o, o # "map", <<Roots, o>> \in Slots(h), NEW q \in Seq(Byte)
      PROVE  Sees(g, o, q) = Sees(h, o, q)
  <2>1. OffChain(c, Len(a), <<Roots, o>>)
    BY <1>5, RootOff
  <2> QED BY <1>4, <1>5, <2>1 DEF Sees
<1>6. d.rec = x.rec
  BY DEF NodeIn
<1>7. CellBelow(h, At(h, HeadSlot), a) = x
  BY <1>1, CellBelowChain
<1>8. ASSUME NEW r \in Seq(Byte)
      PROVE  /\ Sees(g, "map", a \o r) = Value(h, d, r)
             /\ Sees(h, "map", a \o r) = Value(h, x, r)
  <2> DEFINE m == At(h, HeadSlot)
             n == At(g, HeadSlot)
  <2>1. CellBelow(g, n, a \o r) = CellBelow(h, d, r)
    BY <1>4
  <2>2. CellBelow(h, m, a) = x
    BY <1>7
  <2> HIDE DEF m, n, x
  <2>3. CellBelow(h, m, a \o r) = CellBelow(h, x, r)
    BY <2>2, CellBelowConcat
  <2> QED BY <2>1, <2>3 DEF Sees, Value, HeadSlot, m, n
<1> HIDE DEF x, s
<1>9. Sees(g, "map", a) = d.val
  <2> DEFINE e == <<>>
  <2>1. e \in Seq(Byte) /\ a \o e = a
    BY ConcatFacts
  <2>2. CellBelow(h, d, e) = d
    BY CellBelowEmpty
  <2> HIDE DEF e
  <2>3. Sees(g, "map", a \o e) = Value(h, d, e)
    BY <1>8, <2>1
  <2> QED BY <2>1, <2>2, <2>3 DEF Value
<1>10. ASSUME NEW q \in Seq(Byte), q # a
       PROVE  Sees(g, "map", q) = Sees(h, "map", q)
  <2>1. CASE Begins(a, q)
    <3>1. PICK r \in Seq(Byte) : q = a \o r
      BY <2>1, BeginsRest
    <3>2. r # <<>>
      BY <1>10, <3>1, ConcatFacts
    <3>3. CellBelow(h, d, r) = CellBelow(h, x, r)
      BY <1>6, <3>2, CellBelowNode
    <3> QED BY <1>8, <3>1, <3>3 DEF Value
  <2>2. CASE ~Begins(a, q)
    BY <1>4, <2>2
  <2> QED BY <2>1, <2>2
<1>11. SameSeen(h, g, {"map"})
  BY <1>4, <1>5 DEF SameSeen
<1> QED BY <1>4, <1>9, <1>10, <1>11 DEF Assigned

\* The cell at the end of a chain, which leads to nothing, is taken out.
LEMMA UnassignLookup ==
    ASSUME NEW h, HeapOK(h), NEW a \in Seq(Byte), a # <<>>, NEW c, Chain(h, a, c),
           IsEmpty(h, NodeIn(h, Stop(c, Len(a)))),
           NEW g, g = WithoutCell(h, Stop(c, Len(a)))
    PROVE  HeapOK(g) /\ Assigned(h, g, a, NoVal)
<1> DEFINE x == At(h, Stop(c, Len(a)))
           m == At(h, HeadSlot)
<1>1. /\ HeapOK(g)
      /\ \A o : <<Roots, o>> \in Slots(g) <=> <<Roots, o>> \in Slots(h)
      /\ \A o : o # "map" /\ <<Roots, o>> \in Slots(h)
            => \A q \in Seq(Byte) : Sees(g, o, q) = Sees(h, o, q)
      /\ \A r \in Seq(Byte) : Sees(g, "map", a \o r) = NoVal
      /\ \A p \in Seq(Byte) : ~Begins(a, p) => Sees(g, "map", p) = Sees(h, "map", p)
  BY CutLookup
<1>2. IsEmpty(h, x.rec) /\ Begins(a, a)
  BY DEF NodeIn, Begins
<1>3. CellBelow(h, m, a) = x
  BY <1>2, CellBelowChain
<1> HIDE DEF x, m
<1>4. Sees(g, "map", a) = NoVal
  <2> DEFINE e == <<>>
  <2>1. e \in Seq(Byte) /\ a \o e = a
    BY ConcatFacts
  <2> HIDE DEF e
  <2>2. Sees(g, "map", a \o e) = NoVal
    BY <1>1, <2>1
  <2> QED BY <2>1, <2>2
<1>5. ASSUME NEW q \in Seq(Byte), q # a
      PROVE  Sees(g, "map", q) = Sees(h, "map", q)
  <2>1. CASE Begins(a, q)
    <3>1. PICK r \in Seq(Byte) : q = a \o r
      BY <2>1, BeginsRest
    <3>2. r # <<>>
      BY <1>5, <3>1, ConcatFacts
    <3>3. CellBelow(h, x, r) = NoCell
      BY <1>2, <3>2, EmptyBelow
    <3>4. CellBelow(h, m, a \o r) = CellBelow(h, x, r)
      BY <1>3, CellBelowConcat
    <3>5. Sees(h, "map", a \o r) = NoVal
      BY <3>3, <3>4 DEF Sees, Value, HeadSlot, NoCell, m
    <3> QED BY <1>1, <3>1, <3>5
  <2>2. CASE ~Begins(a, q)
    BY <1>1, <2>2
  <2> QED BY <2>1, <2>2
<1>6. SameSeen(h, g, {"map"})
  BY <1>1 DEF SameSeen
<1> QED BY <1>1, <1>4, <1>5, <1>6 DEF Assigned

\* One heap, where all is seen as before, after another.
LEMMA AssignedAfter ==
    ASSUME NEW h, HeapOK(h), NEW g, NEW k, NEW a, NEW v, SameSeen(h, g, {}), Assigned(g, k, a, v)
    PROVE  Assigned(h, k, a, v)
<1>1. SameSeen(h, k, {"map"})
  BY SameSeenTrans DEF Assigned
<1>2. \A q \in Seq(Byte) : Sees(g, "map", q) = Sees(h, "map", q)
  BY HeapFacts DEF SameSeen, HeadSlot
<1> QED BY <1>1, <1>2 DEF Assigned

\* The end of a step that writes a value.
LEMMA AssignEnds ==
    ASSUME Good, Seen, NEW g, HeapOK(g), NEW a \in Seq(Byte), NEW v, Assigned(heap, g, a, v),
           v # NoVal => a \in TriePath, Settle(g, zip)
    PROVE  /\ Assigned(heap, heap', a, v) /\ Bounded(heap')
           /\ \A j \in Zipper : Alike(zip[j], zip'[j])
<1> DEFINE k == heap'
           y == zip
<1>1. k = heap' /\ Settle(g, y) /\ y = zip
  OBVIOUS
<1> HIDE DEF k, y
<1>2. HeapOK(heap) /\ Bounded(heap) /\ HeadSlot \in Slots(heap) /\ HeadSlot \in Slots(g)
  BY GoodFacts, HeapFacts DEF Seen
<1>3. SameSeen(heap, g, {"map"})
  BY DEF Assigned
<1>4. ASSUME NEW q \in Seq(Byte), Sees(g, "map", q) # NoVal
      PROVE  q \in TriePath
  <2>1. CASE q = a
    BY <1>4, <2>1 DEF Assigned
  <2>2. CASE q # a
    <3>1. Sees(heap, "map", q) # NoVal
      BY <1>4, <2>2 DEF Assigned
    <3> QED BY <1>2, <3>1 DEF Bounded, HeadSlot
  <2> QED BY <2>1, <2>2
<1>5. /\ SameSeen(heap, k, {"map"}) /\ Bounded(k) /\ SameSeen(g, k, {})
      /\ \A j \in Zipper : y[j] = zip[j] => Alike(zip[j], zip'[j])
  BY <1>1, <1>3, <1>4, EffectEnds
<1>6. \A q \in Seq(Byte) : Sees(k, "map", q) = Sees(g, "map", q)
  BY <1>2, <1>5 DEF SameSeen, HeadSlot
<1>7. Assigned(heap, k, a, v)
  BY <1>5, <1>6 DEF Assigned
<1> QED BY <1>1, <1>5, <1>7

-------------------------------------------------------------------------------
(* The writes of one value.                                                *)

\* The slot of a writer is at the end of its chain.
LEMMA WriterChain ==
    ASSUME Good, NEW i \in Zipper, CanWrite(i)
    PROVE  /\ HeapOK(heap) /\ zip[i].slot \in Slots(heap)
           /\ Writing(zip[i]) /\ i \in Writers /\ zip[i] # NoZipper /\ zip[i].stage = "open"
           /\ zip[i].abs \in Seq(Byte) /\ zip[i].abs \in TriePath
           /\ \E c : Chain(heap, zip[i].abs, c) /\ Stop(c, Len(zip[i].abs)) = zip[i].slot
<1>1. HeapOK(heap) /\ zip[i].slot \in Slots(heap)
  BY GoodFacts DEF CanWrite, Attached
<1>2. i \in Writers /\ zip[i] # NoZipper /\ zip[i].stage = "open" /\ Writing(zip[i])
  BY DEF CanWrite, Writers, Open, Is, Writing
<1>3. zip[i].abs \in Seq(Byte) /\ zip[i].abs \in TriePath
  BY <1>2, GoodFacts
<1>4. \E c : Chain(heap, zip[i].abs, c) /\ Stop(c, Len(zip[i].abs)) = zip[i].slot
  BY <1>2 DEF Good, Secure, Rooted
<1> QED BY <1>1, <1>2, <1>3, <1>4

\* set_val: the value is at its path, and nothing else changes.
LEMMA SetEffect ==
    ASSUME Good, Seen, NEW i \in Zipper, NEW r \in Seq(Byte), NEW v \in Val, Set(i, r, v)
    PROVE  /\ i \in Writers /\ zip[i].abs \o r \in TriePath
           /\ Assigned(heap, heap', zip[i].abs \o r, v) /\ Bounded(heap')
           /\ \A j \in Zipper : Alike(zip[j], zip'[j])
<1> DEFINE p == zip[i].abs
           a == p \o r
           w == Walk(heap, zip[i].slot, r)
           h == HeapOf(w)
           s == SlotOf(w)
           d == [At(h, s) EXCEPT !.val = v]
           g == WithCell(h, s, d)
           k == heap'
<1>1. CanWrite(i) /\ Settle(g, zip) /\ p \o r \in head.within
  BY DEF Set, WriterStep, HeapOf, SlotOf
<1>2. /\ HeapOK(heap) /\ zip[i].slot \in Slots(heap) /\ i \in Writers /\ p \in Seq(Byte)
      /\ \E c : Chain(heap, p, c) /\ Stop(c, Len(p)) = zip[i].slot
  BY <1>1, WriterChain
<1>3. a \in Seq(Byte) /\ a \in TriePath
  <2>1. head.within \in SUBSET TriePath
    BY HeadAssumption DEF Good, HeadType
  <2>2. a \in TriePath
    BY <1>1, <2>1
  <2> HIDE DEF a
  <2> QED BY <2>2, HeadPaths
<1>4. HeapOK(h) /\ s \in Slots(h) /\ SameValues(heap, h)
  BY <1>2, WalkFacts, WalkValues
<1>5. \E e : Chain(h, p \o r, e) /\ Stop(e, Len(p \o r)) = s
  <2> HIDE DEF p
  <2>1. PICK c : Chain(heap, p, c) /\ Stop(c, Len(p)) = zip[i].slot
    BY <1>2
  <2>2. \E e : /\ Chain(h, p \o r, e)
               /\ \A n \in 0..Len(p) : Stop(e, n) = Stop(c, n)
               /\ Stop(e, Len(p \o r)) = SlotOf(w)
    BY <1>2, <2>1, WalkOwn
  <2> QED BY <2>2
<1>6. PICK e : Chain(h, a, e) /\ Stop(e, Len(a)) = s
  BY <1>5
<1> HIDE DEF w, h, s
<1>7. SameSeen(heap, h, {})
  BY <1>4, SameValuesSeen
<1>8. d \in CellType(h) /\ d.rec = NodeIn(h, s) /\ d.val = v
  BY <1>4, ValueCell
<1> HIDE DEF a, d
<1>9. HeapOK(g) /\ Assigned(h, g, a, v)
  <2>1. d.rec = NodeIn(h, Stop(e, Len(a))) /\ g = WithCell(h, Stop(e, Len(a)), d)
    BY <1>6, <1>8
  <2> HIDE DEF g
  <2>2. HeapOK(g) /\ Assigned(h, g, a, d.val)
    BY <1>3, <1>4, <1>6, <1>8, <2>1, AssignLookup
  <2> QED BY <1>8, <2>2
<1> HIDE DEF g
<1>10. Assigned(heap, g, a, v)
  BY <1>2, <1>7, <1>9, AssignedAfter
<1>11. Assigned(heap, heap', a, v) /\ Bounded(heap') /\ \A j \in Zipper : Alike(zip[j], zip'[j])
  BY <1>1, <1>3, <1>9, <1>10, AssignEnds
<1> QED BY <1>2, <1>3, <1>11 DEF a

\* remove_val at the writer's root.
LEMMA RemoveRootValEffect ==
    ASSUME Good, Seen, NEW i \in Zipper, RemoveRootVal(i)
    PROVE  /\ i \in Writers /\ zip[i].abs \in TriePath
           /\ Assigned(heap, heap', zip[i].abs, NoVal) /\ Bounded(heap')
           /\ \A j \in Zipper : Alike(zip[j], zip'[j])
<1> DEFINE a == zip[i].abs
           h == heap
           s == zip[i].slot
           d == [At(h, s) EXCEPT !.val = NoVal]
           g == WithCell(h, s, d)
<1>1. CanWrite(i) /\ Settle(g, zip)
  BY DEF RemoveRootVal, WriterStep, CellOf
<1>2. HeapOK(h) /\ s \in Slots(h) /\ i \in Writers /\ a \in Seq(Byte) /\ a \in TriePath
  BY <1>1, WriterChain
<1>3. PICK e : Chain(h, a, e) /\ Stop(e, Len(a)) = s
  BY <1>1, WriterChain
<1>4. h = heap
  OBVIOUS
<1> HIDE DEF a, h, s
<1>5. d \in CellType(h) /\ d.rec = NodeIn(h, s) /\ d.val = NoVal
  <2> DEFINE v == NoVal
  <2>1. v \in Val \cup {NoVal} /\ HeapOK(h) /\ s \in Slots(h)
    BY <1>2
  <2>2. d = [At(h, s) EXCEPT !.val = v]
    OBVIOUS
  <2> HIDE DEF v, d
  <2> QED BY <2>1, <2>2, ValueCell DEF v
<1> HIDE DEF d
<1>6. HeapOK(g) /\ Assigned(h, g, a, NoVal)
  <2>1. d.rec = NodeIn(h, Stop(e, Len(a))) /\ g = WithCell(h, Stop(e, Len(a)), d)
    BY <1>3, <1>5
  <2> HIDE DEF g
  <2>2. HeapOK(g) /\ Assigned(h, g, a, d.val)
    BY <1>2, <1>3, <1>5, <2>1, AssignLookup
  <2> QED BY <1>5, <2>2
<1> HIDE DEF g
<1>7. Assigned(heap, g, a, NoVal)
  BY <1>4, <1>6
<1>8. Assigned(heap, heap', a, NoVal) /\ Bounded(heap') /\ \A j \in Zipper : Alike(zip[j], zip'[j])
  BY <1>1, <1>2, <1>6, <1>7, AssignEnds
<1> QED BY <1>2, <1>8 DEF a

\* remove_val(true) one byte below the root.
LEMMA RemoveValBelowEffect ==
    ASSUME Good, Seen, NEW i \in Zipper, NEW b \in Byte, RemoveValBelow(i, b)
    PROVE  /\ i \in Writers /\ Append(zip[i].abs, b) \in Seq(Byte)
           /\ Assigned(heap, heap', Append(zip[i].abs, b), NoVal) /\ Bounded(heap')
           /\ \A j \in Zipper : Alike(zip[j], zip'[j])
<1> DEFINE p == zip[i].abs
           r == <<b>>
           a == Append(p, b)
           w == Walk(heap, zip[i].slot, r)
           h == HeapOf(w)
           s == SlotOf(w)
           d == [At(h, s) EXCEPT !.val = NoVal]
           g == IF IsEmpty(h, d.rec) THEN WithoutCell(h, s) ELSE WithCell(h, s, d)
<1>1. CanWrite(i) /\ Settle(g, zip)
  BY DEF RemoveValBelow, WriterStep, HeapOf, SlotOf
<1>2. /\ HeapOK(heap) /\ zip[i].slot \in Slots(heap) /\ i \in Writers /\ p \in Seq(Byte)
      /\ \E c : Chain(heap, p, c) /\ Stop(c, Len(p)) = zip[i].slot
  BY <1>1, WriterChain
<1>0. r \in Seq(Byte)
  OBVIOUS
<1>3. p \o r = a /\ a \in Seq(Byte) /\ a # <<>>
  <2>1. p \in Seq(Byte)
    BY <1>2
  <2> HIDE DEF p
  <2> QED BY <2>1
<1> HIDE DEF r
<1>4. HeapOK(h) /\ s \in Slots(h) /\ SameValues(heap, h)
  BY <1>0, <1>2, WalkFacts, WalkValues
<1>5. \E e : Chain(h, p \o r, e) /\ Stop(e, Len(p \o r)) = s
  <2> HIDE DEF p
  <2>1. PICK c : Chain(heap, p, c) /\ Stop(c, Len(p)) = zip[i].slot
    BY <1>2
  <2>2. \E e : /\ Chain(h, p \o r, e)
               /\ \A n \in 0..Len(p) : Stop(e, n) = Stop(c, n)
               /\ Stop(e, Len(p \o r)) = SlotOf(w)
    BY <1>0, <1>2, <2>1, WalkOwn
  <2> QED BY <2>2
<1>6. PICK e : Chain(h, a, e) /\ Stop(e, Len(a)) = s
  BY <1>3, <1>5
<1> HIDE DEF w, h, s
<1>7. SameSeen(heap, h, {})
  BY <1>4, SameValuesSeen
<1>8. d \in CellType(h) /\ d.rec = NodeIn(h, s) /\ d.val = NoVal
  BY <1>4, ValueCell
<1> HIDE DEF a, d
<1>9. HeapOK(g) /\ Assigned(h, g, a, NoVal)
  <2>1. CASE IsEmpty(h, d.rec)
    <3>1. IsEmpty(h, NodeIn(h, Stop(e, Len(a)))) /\ g = WithoutCell(h, Stop(e, Len(a)))
      BY <1>6, <1>8, <2>1
    <3> HIDE DEF g
    <3> QED BY <1>3, <1>4, <1>6, <3>1, UnassignLookup
  <2>2. CASE ~IsEmpty(h, d.rec)
    <3>1. d.rec = NodeIn(h, Stop(e, Len(a))) /\ g = WithCell(h, Stop(e, Len(a)), d)
      BY <1>6, <1>8, <2>2
    <3> HIDE DEF g
    <3>2. HeapOK(g) /\ Assigned(h, g, a, d.val)
      BY <1>3, <1>4, <1>6, <1>8, <3>1, AssignLookup
    <3> QED BY <1>8, <3>2
  <2> QED BY <2>1, <2>2
<1> HIDE DEF g
<1>10. Assigned(heap, g, a, NoVal)
  BY <1>2, <1>7, <1>9, AssignedAfter
<1>11. Assigned(heap, heap', a, NoVal) /\ Bounded(heap') /\ \A j \in Zipper : Alike(zip[j], zip'[j])
  BY <1>1, <1>3, <1>9, <1>10, AssignEnds
<1> QED BY <1>2, <1>3, <1>11 DEF a

-------------------------------------------------------------------------------
(* Writing what leads on.                                                  *)

\* What owners see when the cell at the end of a chain is written.
LEMMA WriteSeen ==
    ASSUME NEW h, HeapOK(h), NEW a \in Seq(Byte), NEW c, Chain(h, a, c), NEW d \in CellType(h),
           \A n \in 0..(Len(a) - 1) : d.rec # NodeIn(h, Stop(c, n)),
           NEW g, g = WithCell(h, Stop(c, Len(a)), d)
    PROVE  /\ HeapOK(g) /\ Chain(g, a, c) /\ SameSeen(h, g, {"map"})
           /\ \A r \in Seq(Byte) : Sees(g, "map", a \o r) = Value(h, d, r)
           /\ \A q \in Seq(Byte) : ~Begins(a, q) => Sees(g, "map", q) = Sees(h, "map", q)
<1> DEFINE s == Stop(c, Len(a))
<1>1. Len(a) \in 0..Len(a)
  OBVIOUS
<1>2. s \in Slots(h) /\ OffChain(c, Len(a) - 1, s)
  BY <1>1, OffLess DEF Chain
<1>3. /\ HeapOK(g) /\ Slots(g) = Slots(h)
      /\ \A t \in Slots(h) : OffChain(c, Len(a), t) => \A r \in Seq(Byte) :
            Value(g, At(g, t), r) = Value(h, At(h, t), r)
      /\ \A r \in Seq(Byte) : CellBelow(g, At(g, HeadSlot), a \o r) = CellBelow(h, d, r)
      /\ \A q \in Seq(Byte) : ~Begins(a, q) => Sees(g, "map", q) = Sees(h, "map", q)
  BY WriteLookup
<1>4. ASSUME NEW o, o # "map", <<Roots, o>> \in Slots(h), NEW q \in Seq(Byte)
      PROVE  Sees(g, o, q) = Sees(h, o, q)
  <2>1. OffChain(c, Len(a), <<Roots, o>>)
    BY <1>4, RootOff
  <2> QED BY <1>3, <1>4, <2>1 DEF Sees
<1>5. ASSUME NEW r \in Seq(Byte)
      PROVE  Sees(g, "map", a \o r) = Value(h, d, r)
  <2>1. CellBelow(g, At(g, HeadSlot), a \o r) = CellBelow(h, d, r)
    BY <1>3
  <2> QED BY <2>1 DEF Sees, Value, HeadSlot
<1>6. g = WithCell(h, s, d) /\ Named(h, s)
  BY <1>2, HeapFacts
<1> HIDE DEF s
<1>7. Chain(g, a, c)
  BY <1>2, <1>6, ChainWrites
<1>8. SameSeen(h, g, {"map"})
  BY <1>3, <1>4 DEF SameSeen
<1> QED BY <1>3, <1>5, <1>7, <1>8

\* Two heaps with the same cells.
LEMMA SameCells ==
    ASSUME NEW h, HeapOK(h), NEW f, HeapOK(f), Slots(f) = Slots(h),
           \A t \in Slots(h) : At(f, t) = At(h, t)
    PROVE  /\ SameSeen(h, f, {})
           /\ \A a \in Seq(Byte) : \A c : Chain(h, a, c) => Chain(f, a, c)
<1>1. ASSUME NEW t \in Slots(h), NEW r \in Seq(Byte)
      PROVE  CellBelow(f, At(f, t), r) = CellBelow(h, At(h, t), r)
  <2> DEFINE U == Slots(h)
  <2>1. \A u \in U : u \in Slots(h) /\ u \in Slots(f) /\ At(f, u) = At(h, u)
    OBVIOUS
  <2>2. \A u \in U : \A b \in Byte : /\ <<NodeIn(h, u), b>> \in Slots(h) => <<NodeIn(h, u), b>> \in U
                                     /\ <<NodeIn(h, u), b>> \in Slots(f) => <<NodeIn(h, u), b>> \in U
    OBVIOUS
  <2>3. t \in U
    OBVIOUS
  <2> HIDE DEF U
  <2> QED BY <2>1, <2>2, <2>3, LookupAgrees
<1>2. SameSeen(h, f, {})
  BY <1>1 DEF SameSeen, Sees, Value
<1>3. \A t \in Slots(h) : NodeIn(f, t) = NodeIn(h, t)
  BY DEF NodeIn
<1>4. ASSUME NEW a \in Seq(Byte), NEW c, Chain(h, a, c)
      PROVE  Chain(f, a, c)
  <2>1. \A k \in 0..(Len(a) - 1) : k \in 0..Len(a)
    OBVIOUS
  <2>2. \A t \in Slots(h) : Sole(h, t) => Sole(f, t)
    BY <1>3 DEF Sole
  <2> QED BY <1>3, <1>4, <2>1, <2>2 DEF Chain
<1> QED BY <1>2, <1>4

\* An empty node takes the place of what the cell at the end of a chain leads to.
LEMMA EmptySeen ==
    ASSUME NEW h, HeapOK(h), NEW a \in Seq(Byte), NEW c, Chain(h, a, c),
           NEW g, g = Allocate(h, Stop(c, Len(a)), EmptyNode)
    PROVE  /\ HeapOK(g) /\ Chain(g, a, c) /\ SameSeen(h, g, {"map"})
           /\ \A r \in Seq(Byte) : r # <<>> => Sees(g, "map", a \o r) = NoVal
           /\ \A q \in Seq(Byte) : ~Begins(a, q) => Sees(g, "map", q) = Sees(h, "map", q)
<1> DEFINE k == CHOOSE k \in 0..Cardinality(DOMAIN h) : {<<"new", <<k>>>>} \notin DOMAIN h
           m == {<<"new", <<k>>>>}
           s == Stop(c, Len(a))
           f == Put(h, m, EmptyNode)
           d == [At(h, s) EXCEPT !.rec = m]
<1>0. DOMAIN EmptyNode = {}
  BY DEF EmptyNode
<1>1. g = WithCell(f, s, d)
  BY DEF Allocate
<1>2. m \notin DOMAIN h /\ m \in NodeType
  BY FreshNode
<1>3. m # NoNode
  BY DEF NoNode
<1> HIDE DEF m
<1>4. /\ HeapOK(f)
      /\ DOMAIN f = DOMAIN h \cup {m}
      /\ Slots(f) = Slots(h)
      /\ \A t \in Slots(h) : At(f, t) = At(h, t)
      /\ f[m] = EmptyNode
  <2> DEFINE node == EmptyNode
  <2>1. DOMAIN node \subseteq Byte /\ \A b \in DOMAIN node : node[b] \in CellType(h)
    BY <1>0
  <2>2. DOMAIN node = {} /\ f = Put(h, m, node)
    BY <1>0
  <2>5. f = Put(h, m, node)
    BY <2>2
  <2> HIDE DEF node
  <2> DEFINE e == Put(h, m, node)
  <2>6. /\ HeapOK(e)
        /\ DOMAIN e = DOMAIN h \cup {m}
        /\ Slots(e) = Slots(h) \cup ({m} \X DOMAIN node)
        /\ \A t \in Slots(h) : At(e, t) = At(h, t)
        /\ e[m] = node
    BY <1>2, <1>3, <2>1, PutFacts
  <2> HIDE DEF e, f
  <2>7. f = e
    BY <2>5 DEF e
  <2>3. /\ HeapOK(f)
        /\ DOMAIN f = DOMAIN h \cup {m}
        /\ Slots(f) = Slots(h) \cup ({m} \X DOMAIN node)
        /\ \A t \in Slots(h) : At(f, t) = At(h, t)
        /\ f[m] = node
    BY <2>6, <2>7
  <2>4. {m} \X DOMAIN node = {}
    BY <2>2
  <2> QED BY <2>3, <2>4 DEF node
<1> HIDE DEF f
<1>5. SameSeen(h, f, {}) /\ Chain(f, a, c)
  BY <1>4, SameCells
<1>6. Len(a) \in 0..Len(a)
  OBVIOUS
<1>7. s \in Slots(h)
  BY <1>6 DEF Chain
<1>8. At(h, s) \in CellType(h) /\ m \in Nodes(f) /\ Nodes(h) \subseteq Nodes(f)
  BY <1>2, <1>4, <1>7, HeapFacts DEF HeapOK, Nodes
<1>9. d \in CellType(f) /\ d.rec = m
  BY <1>8 DEF CellType
<1> HIDE DEF d
<1>10. \A n \in 0..(Len(a) - 1) : d.rec # NodeIn(f, Stop(c, n))
  <2>1. ASSUME NEW n \in 0..(Len(a) - 1)
        PROVE  d.rec # NodeIn(f, Stop(c, n))
    <3>1. n \in 0..Len(a)
      OBVIOUS
    <3>2. Stop(c, n) \in Slots(h) /\ NodeIn(h, Stop(c, n)) # NoNode
      BY <3>1 DEF Chain
    <3>3. NodeIn(h, Stop(c, n)) \in DOMAIN h
      BY <3>2, HeapFacts
    <3>4. NodeIn(f, Stop(c, n)) = NodeIn(h, Stop(c, n))
      BY <1>4, <3>2 DEF NodeIn
    <3> QED BY <1>2, <1>9, <3>3, <3>4
  <2> QED BY <2>1
<1>11. /\ HeapOK(g) /\ Chain(g, a, c) /\ SameSeen(f, g, {"map"})
       /\ \A r \in Seq(Byte) : Sees(g, "map", a \o r) = Value(f, d, r)
       /\ \A q \in Seq(Byte) : ~Begins(a, q) => Sees(g, "map", q) = Sees(f, "map", q)
  BY <1>1, <1>4, <1>5, <1>9, <1>10, WriteSeen
<1>12. SameSeen(h, g, {"map"})
  BY <1>5, <1>11, SameSeenTrans
<1>13. ASSUME NEW r \in Seq(Byte), r # <<>>
       PROVE  Sees(g, "map", a \o r) = NoVal
  <2>1. IsEmpty(f, d.rec)
    BY <1>4, <1>9 DEF IsEmpty
  <2>2. CellBelow(f, d, r) = NoCell
    BY <1>4, <1>13, <2>1, EmptyBelow
  <2> QED BY <1>11, <2>2 DEF Value, NoCell
<1>14. \A q \in Seq(Byte) : ~Begins(a, q) => Sees(g, "map", q) = Sees(h, "map", q)
  <2>1. \A q \in Seq(Byte) : Sees(f, "map", q) = Sees(h, "map", q)
    BY <1>5, HeapFacts DEF SameSeen, HeadSlot
  <2> QED BY <1>11, <2>1
<1> QED BY <1>11, <1>12, <1>13, <1>14

-------------------------------------------------------------------------------
(* Grafting.                                                               *)

\* The part of graft that is about nodes: below path a is what was below x, the cell of a slot
\* that is off the chain or at its end.
LEMMA GraftNode ==
    ASSUME NEW h, HeapOK(h), NEW a \in Seq(Byte), NEW c, Chain(h, a, c),
           NEW t \in Slots(h), OffChain(c, Len(a) - 1, t), NEW x, x = At(h, t),
           NEW s, s = Stop(c, Len(a)), NEW own, own = At(h, s),
           NEW k, k = CASE ~IsEmpty(h, x.rec) -> WithCell(h, s, [own EXCEPT !.rec = x.rec])
                        [] IsEmpty(h, x.rec) /\ ~IsEmpty(h, own.rec) -> Allocate(h, s, EmptyNode)
                        [] OTHER -> h
    PROVE  /\ HeapOK(k) /\ Chain(k, a, c) /\ SameSeen(h, k, {"map"})
           /\ \A r \in Seq(Byte) : r # <<>> => Sees(k, "map", a \o r) = Value(h, x, r)
           /\ \A q \in Seq(Byte) : ~Begins(a, q) => Sees(k, "map", q) = Sees(h, "map", q)
<1>1. Len(a) \in 0..Len(a) /\ Begins(a, a)
  BY DEF Begins
<1>2. s \in Slots(h)
  BY <1>1 DEF Chain
<1>3. own \in CellType(h) /\ x \in CellType(h) /\ x.rec = NodeIn(h, t)
  BY <1>2, HeapFacts DEF NodeIn
<1>4. CASE ~IsEmpty(h, x.rec)
  <2> DEFINE d == [own EXCEPT !.rec = x.rec]
  <2>1. k = WithCell(h, Stop(c, Len(a)), d)
    BY <1>4
  <2>2. d \in CellType(h) /\ d.rec = x.rec
    BY <1>3 DEF CellType
  <2> HIDE DEF d
  <2>3. \A n \in 0..(Len(a) - 1) : d.rec # NodeIn(h, Stop(c, n))
    BY <1>3, <2>2, NodeOff
  <2>4. /\ HeapOK(k) /\ Chain(k, a, c) /\ SameSeen(h, k, {"map"})
        /\ \A r \in Seq(Byte) : Sees(k, "map", a \o r) = Value(h, d, r)
        /\ \A q \in Seq(Byte) : ~Begins(a, q) => Sees(k, "map", q) = Sees(h, "map", q)
    BY <2>1, <2>2, <2>3, WriteSeen
  <2>5. ASSUME NEW r \in Seq(Byte), r # <<>>
        PROVE  Sees(k, "map", a \o r) = Value(h, x, r)
    <3>1. CellBelow(h, d, r) = CellBelow(h, x, r)
      BY <2>2, <2>5, CellBelowNode
    <3> QED BY <2>4, <3>1 DEF Value
  <2> QED BY <2>4, <2>5
<1>5. ASSUME IsEmpty(h, x.rec), NEW r \in Seq(Byte), r # <<>>
      PROVE  Value(h, x, r) = NoVal
  <2>1. CellBelow(h, x, r) = NoCell
    BY <1>5, EmptyBelow
  <2> QED BY <2>1 DEF Value, NoCell
<1>6. CASE IsEmpty(h, x.rec) /\ ~IsEmpty(h, own.rec)
  <2>1. k = Allocate(h, Stop(c, Len(a)), EmptyNode)
    BY <1>6
  <2>2. /\ HeapOK(k) /\ Chain(k, a, c) /\ SameSeen(h, k, {"map"})
        /\ \A r \in Seq(Byte) : r # <<>> => Sees(k, "map", a \o r) = NoVal
        /\ \A q \in Seq(Byte) : ~Begins(a, q) => Sees(k, "map", q) = Sees(h, "map", q)
    BY <2>1, EmptySeen
  <2> QED BY <1>5, <1>6, <2>2
<1>7. CASE IsEmpty(h, x.rec) /\ IsEmpty(h, own.rec)
  <2>1. k = h
    BY <1>7
  <2> DEFINE m == At(h, HeadSlot)
  <2>2. CellBelow(h, m, a) = own
    BY <1>1, CellBelowChain
  <2> HIDE DEF m
  <2>3. ASSUME NEW r \in Seq(Byte), r # <<>>
        PROVE  Sees(h, "map", a \o r) = Value(h, x, r)
    <3>1. CellBelow(h, m, a \o r) = CellBelow(h, own, r)
      BY <2>2, CellBelowConcat
    <3>2. CellBelow(h, own, r) = NoCell
      BY <1>7, <2>3, EmptyBelow
    <3>3. Sees(h, "map", a \o r) = NoVal
      BY <3>1, <3>2 DEF Sees, Value, HeadSlot, NoCell, m
    <3> QED BY <1>5, <1>7, <2>3, <3>3
  <2>4. SameSeen(h, h, {"map"})
    BY DEF SameSeen
  <2> QED BY <2>1, <2>3, <2>4
<1> QED BY <1>4, <1>6, <1>7

\* What is below path a of the trie is what was below cell x; all else is as it was.
Grafted(h, g, a, x) ==
    /\ SameSeen(h, g, {"map"})
    /\ \A r \in Seq(Byte) : Sees(g, "map", a \o r) = Value(h, x, r)
    /\ \A q \in Seq(Byte) : ~Begins(a, q) => Sees(g, "map", q) = Sees(h, "map", q)

\* The value at the root is grafted, too.
LEMMA GraftValue ==
    ASSUME NEW h, HeapOK(h), NEW a \in Seq(Byte), NEW c, NEW x,
           NEW k, HeapOK(k), Chain(k, a, c), SameSeen(h, k, {"map"}),
           \A r \in Seq(Byte) : r # <<>> => Sees(k, "map", a \o r) = Value(h, x, r),
           \A q \in Seq(Byte) : ~Begins(a, q) => Sees(k, "map", q) = Sees(h, "map", q),
           NEW d \in CellType(k), d.rec = NodeIn(k, Stop(c, Len(a))), d.val = x.val,
           NEW g, g = WithCell(k, Stop(c, Len(a)), d)
    PROVE  HeapOK(g) /\ Grafted(h, g, a, x)
<1>1. HeapOK(g) /\ Assigned(k, g, a, d.val)
  BY AssignLookup
<1>2. SameSeen(h, g, {"map"})
  BY <1>1 DEF Assigned, SameSeen
<1>3. ASSUME NEW r \in Seq(Byte)
      PROVE  Sees(g, "map", a \o r) = Value(h, x, r)
  <2>1. CASE r = <<>>
    <3>1. a \o r = a
      BY <2>1, ConcatFacts
    <3>2. CellBelow(h, x, r) = x
      BY <2>1, CellBelowEmpty
    <3> QED BY <1>1, <3>1, <3>2 DEF Assigned, Value
  <2>2. CASE r # <<>>
    <3>1. a \o r \in Seq(Byte) /\ a \o r # a
      BY <2>2
    <3> DEFINE q == a \o r
    <3>2. q \in Seq(Byte) /\ q # a /\ Sees(k, "map", q) = Value(h, x, r)
      BY <2>2, <3>1
    <3> HIDE DEF q
    <3>3. Sees(g, "map", q) = Sees(k, "map", q)
      BY <1>1, <3>2 DEF Assigned
    <3> QED BY <3>2, <3>3 DEF q
  <2> QED BY <2>1, <2>2
<1>4. ASSUME NEW q \in Seq(Byte), ~Begins(a, q)
      PROVE  Sees(g, "map", q) = Sees(h, "map", q)
  <2>1. q # a
    BY <1>4 DEF Begins
  <2> QED BY <1>1, <1>4, <2>1 DEF Assigned
<1> QED BY <1>1, <1>2, <1>3, <1>4 DEF Grafted

\* graft at the writer's root: below it is what the source has.
LEMMA GraftEffect ==
    ASSUME Good, Seen, NEW i \in Zipper, NEW j \in Zipper, Graft(i, j)
    PROVE  /\ i \in Writers /\ zip[i].abs \in TriePath
           /\ zip[j] # NoZipper /\ zip[j].stage \in {"open", "map"}
           /\ Grafted(heap, heap', zip[i].abs, CellOf(j)) /\ Bounded(heap')
           /\ \A e \in Zipper : Alike(zip[e], zip'[e])
<1> DEFINE a == zip[i].abs
           s == zip[i].slot
           t == zip[j].slot
           x == CellOf(j)
           own == CellOf(i)
           k == CASE ~IsEmpty(heap, x.rec) -> WithCell(heap, s, [own EXCEPT !.rec = x.rec])
                  [] IsEmpty(heap, x.rec) /\ ~IsEmpty(heap, own.rec) -> Allocate(heap, s, EmptyNode)
                  [] OTHER -> heap
           d == [At(k, s) EXCEPT !.val = x.val]
           g == WithCell(k, s, d)
           f == heap'
           y == zip
<1>1. Settle(g, y) /\ CanWrite(i) /\ y = zip
  BY DEF Graft, WriterStep
<1>2. /\ HeapOK(heap) /\ s \in Slots(heap) /\ a \in Seq(Byte) /\ a \in TriePath
      /\ Writing(zip[i]) /\ i \in Writers
  BY <1>1, WriterChain
<1>3. PICK c : Chain(heap, a, c) /\ Stop(c, Len(a)) = s
  BY <1>1, WriterChain
<1>4. zip[j] # NoZipper /\ zip[j].stage \in {"open", "map"}
  BY DEF Graft, Is
<1>5. t \in Slots(heap) /\ \A q \in Seq(Byte) : Value(heap, x, q) # NoVal => q \in TriePath
  BY <1>4, SlotSees
<1>6. x = At(heap, t) /\ own = At(heap, s)
  BY DEF CellOf
<1>7. ASSUME NEW p \in TriePath, CellBelow(heap, x, p) # NoCell
      PROVE  a \o p \in TriePath
  <2>1. a \o p \in head.within
    BY <1>7 DEF Graft, Fits
  <2>2. head.within \in SUBSET TriePath
    BY HeadAssumption DEF Good, HeadType
  <2> QED BY <2>1, <2>2
<1>8. OffChain(c, Len(a) - 1, t)
  BY <1>2, <1>3, <1>4, SlotOff DEF Good
<1>9. x.val \in Val \cup {NoVal}
  BY <1>2, <1>5, <1>6, HeapFacts DEF CellType
<1>0. f = heap'
  OBVIOUS
<1> HIDE DEF a, s, t, x, own, y, f
<1>10. /\ HeapOK(k) /\ Chain(k, a, c) /\ SameSeen(heap, k, {"map"})
       /\ \A r \in Seq(Byte) : r # <<>> => Sees(k, "map", a \o r) = Value(heap, x, r)
       /\ \A q \in Seq(Byte) : ~Begins(a, q) => Sees(k, "map", q) = Sees(heap, "map", q)
  <2> DEFINE h == heap
             e == CASE ~IsEmpty(h, x.rec) -> WithCell(h, s, [own EXCEPT !.rec = x.rec])
                    [] IsEmpty(h, x.rec) /\ ~IsEmpty(h, own.rec) -> Allocate(h, s, EmptyNode)
                    [] OTHER -> h
  <2>1. /\ HeapOK(h) /\ Chain(h, a, c) /\ t \in Slots(h) /\ x = At(h, t) /\ own = At(h, s)
        /\ s = Stop(c, Len(a))
    BY <1>2, <1>3, <1>5, <1>6
  <2>2. k = e
    OBVIOUS
  <2> HIDE DEF h, k
  <2>3. /\ HeapOK(e) /\ Chain(e, a, c) /\ SameSeen(h, e, {"map"})
        /\ \A r \in Seq(Byte) : r # <<>> => Sees(e, "map", a \o r) = Value(h, x, r)
        /\ \A q \in Seq(Byte) : ~Begins(a, q) => Sees(e, "map", q) = Sees(h, "map", q)
    BY <1>2, <1>8, <2>1, GraftNode
  <2> HIDE DEF e
  <2> QED BY <2>2, <2>3 DEF h
<1> HIDE DEF k
<1>11. d \in CellType(k) /\ d.rec = NodeIn(k, Stop(c, Len(a))) /\ d.val = x.val
  <2>1. Len(a) \in 0..Len(a)
    BY <1>2
  <2>2. s \in Slots(k)
    BY <1>3, <1>10, <2>1 DEF Chain
  <2> DEFINE v == x.val
  <2>3. v \in Val \cup {NoVal} /\ d = [At(k, s) EXCEPT !.val = v]
    BY <1>9
  <2> HIDE DEF v, d
  <2>4. d \in CellType(k) /\ d.rec = NodeIn(k, s) /\ d.val = v
    BY <1>10, <2>2, <2>3, ValueCell
  <2> QED BY <1>3, <2>4 DEF v
<1>12. g = WithCell(k, Stop(c, Len(a)), d)
  BY <1>3
<1> HIDE DEF d, g
<1>13. HeapOK(g) /\ Grafted(heap, g, a, x)
  <2> DEFINE h == heap
  <2>1. /\ HeapOK(h) /\ SameSeen(h, k, {"map"})
        /\ \A r \in Seq(Byte) : r # <<>> => Sees(k, "map", a \o r) = Value(h, x, r)
        /\ \A q \in Seq(Byte) : ~Begins(a, q) => Sees(k, "map", q) = Sees(h, "map", q)
    BY <1>2, <1>10
  <2> HIDE DEF h
  <2>2. HeapOK(g) /\ Grafted(h, g, a, x)
    BY <1>2, <1>10, <1>11, <1>12, <2>1, GraftValue
  <2> QED BY <2>2 DEF h
<1>14. HeadSlot \in Slots(heap) /\ HeadSlot \in Slots(g) /\ Bounded(heap)
  BY <1>2, <1>13, HeapFacts DEF Seen
<1>15. ASSUME NEW q \in Seq(Byte), Sees(g, "map", q) # NoVal
       PROVE  q \in TriePath
  <2>1. CASE Begins(a, q)
    <3>1. PICK r \in Seq(Byte) : q = a \o r
      BY <1>2, <2>1, BeginsRest
    <3>2. Value(heap, x, r) # NoVal
      BY <1>13, <1>15, <3>1 DEF Grafted
    <3>3. r \in TriePath
      BY <1>5, <3>2
    <3>4. CellBelow(heap, x, r) # NoCell
      BY <3>2 DEF Value, NoCell
    <3> QED BY <1>7, <3>1, <3>3, <3>4
  <2>2. CASE ~Begins(a, q)
    <3>1. Sees(heap, "map", q) # NoVal
      BY <1>13, <1>15, <2>2 DEF Grafted
    <3> QED BY <1>14, <3>1 DEF Bounded, HeadSlot
  <2> QED BY <2>1, <2>2
<1>16. /\ SameSeen(heap, f, {"map"}) /\ Bounded(f) /\ SameSeen(g, f, {})
       /\ \A e \in Zipper : y[e] = zip[e] => Alike(zip[e], zip'[e])
  <2>1. SameSeen(heap, g, {"map"})
    BY <1>13 DEF Grafted
  <2> QED BY <1>0, <1>1, <1>13, <1>15, <2>1, EffectEnds
<1>17. Grafted(heap, f, a, x)
  <2>1. \A q \in Seq(Byte) : Sees(f, "map", q) = Sees(g, "map", q)
    BY <1>14, <1>16 DEF SameSeen, HeadSlot
  <2>2. \A r \in Seq(Byte) : a \o r \in Seq(Byte)
    BY <1>2, ConcatFacts
  <2> QED BY <1>13, <1>16, <2>1, <2>2 DEF Grafted
<1> QED BY <1>0, <1>1, <1>2, <1>4, <1>16, <1>17 DEF a, x

-------------------------------------------------------------------------------
(* Who else sees a step.                                                   *)

\* Two beginnings of one path are comparable.
LEMMA BeginsBoth ==
    ASSUME NEW a \in Seq(Byte), NEW b \in Seq(Byte), NEW q \in Seq(Byte), Begins(a, b \o q)
    PROVE  Begins(a, b) \/ Begins(b, a)
<1>1. /\ Len(b \o q) = Len(b) + Len(q) /\ Len(b) \in Nat /\ Len(q) \in Nat /\ Len(a) \in Nat
      /\ \A k \in 1..Len(b) : (b \o q)[k] = b[k]
  OBVIOUS
<1> DEFINE p == b \o q
<1>2. Len(a) <= Len(p) /\ \A k \in 1..Len(a) : a[k] = p[k]
  BY DEF Begins
<1>3. \A k \in 1..Len(b) : p[k] = b[k]
  BY <1>1
<1>4. Len(p) = Len(b) + Len(q)
  BY <1>1
<1> HIDE DEF p
<1> QED BY <1>1, <1>2, <1>3, <1>4 DEF Begins

\* The zippers that read the trie, and what an unchanged one is.
LEMMA AlikeReader ==
    ASSUME NEW x, NEW y, Alike(x, y), Sharing(y), y.stage = "open"
    PROVE  Sharing(x) /\ x.stage = "open" /\ x.abs = y.abs
BY DEF Alike, Like, Sharing

\* The trie that the head holds, and what its readers have, are in the heap.
LEMMA HeldCells ==
    ASSUME Good
    PROVE  /\ HeadSlot \in Slots(heap)
           /\ \A i \in Zipper : Sharing(zip[i]) => <<Roots, i>> \in Slots(heap)
           /\ \A i \in Zipper : i # "map"
<1>1. HeapOK(heap)
  BY GoodFacts
<1>2. HeadSlot \in Slots(heap)
  BY <1>1, HeapFacts
<1>3. \A i \in Zipper : Sharing(zip[i]) => <<Roots, i>> \in Slots(heap)
  BY DEF Good, Secure, Shared, Sharing
<1> QED BY <1>2, <1>3, HeadAssumption

\* A step that writes no value: the step's own zipper may begin to read.
LEMMA SeenQuiet ==
    ASSUME Good, Seen, NEW i \in Zipper, SameSeen(heap, heap', {i}), Bounded(heap'),
           \A j \in Zipper : j # i => Alike(zip[j], zip'[j]),
           Sharing(zip'[i]) /\ zip'[i].stage = "open" =>
              /\ zip'[i].abs \in Seq(Byte)
              /\ \A q \in Seq(Byte) : Sees(heap', i, q) = Sees(heap, "map", zip'[i].abs \o q)
    PROVE  Seen'
<1> DEFINE k == heap'
           y == zip'
           v(h, j, q) == Sees(h, j, q)
<1>1. ASSUME NEW j \in Zipper, Sharing(y[j]), y[j].stage = "open", NEW q \in Seq(Byte)
      PROVE  Sees(k, j, q) = Sees(k, "map", y[j].abs \o q)
  <2> DEFINE a == y[j].abs
             p == a \o q
  <2>1. a \in Seq(Byte)
    <3>1. CASE j = i
      BY <1>1, <3>1
    <3>2. CASE j # i
      <4>1. Sharing(zip[j]) /\ zip[j].abs = a
        BY <1>1, <3>2, AlikeReader
      <4>2. zip[j].abs \in Seq(Byte)
        BY <4>1, ZipTypes DEF Sharing
      <4> QED BY <4>1, <4>2
    <3> QED BY <3>1, <3>2
  <2>2. Sees(k, j, q) = Sees(heap, "map", a \o q)
    <3>1. CASE j = i
      BY <1>1, <3>1
    <3>2. CASE j # i
      <4>1. Sharing(zip[j]) /\ zip[j].stage = "open" /\ zip[j].abs = a
        BY <1>1, <3>2, AlikeReader
      <4>2. <<Roots, j>> \in Slots(heap)
        BY <4>1, HeldCells
      <4>3. Sees(k, j, q) = Sees(heap, j, q)
        BY <1>1, <3>2, <4>2 DEF SameSeen
      <4>4. Sees(heap, j, q) = Sees(heap, "map", a \o q)
        BY <1>1, <4>1 DEF Seen
      <4> QED BY <4>3, <4>4
    <3> QED BY <3>1, <3>2
  <2>3. p \in Seq(Byte)
    BY <1>1, <2>1
  <2> HIDE DEF p
  <2>4. Sees(k, "map", p) = Sees(heap, "map", p)
    BY <2>3, HeldCells DEF SameSeen, HeadSlot
  <2> QED BY <2>2, <2>4 DEF p
<1> QED BY <1>1 DEF Seen

\* A writer's step: what is not below its path stays as it was.
LEMMA SeenWritten ==
    ASSUME Good, Seen, NEW i \in Writers, SameSeen(heap, heap', {"map"}), Bounded(heap'),
           \A q \in Seq(Byte) : ~Begins(zip[i].abs, q) => Sees(heap', "map", q) = Sees(heap, "map", q),
           \A j \in Zipper : Alike(zip[j], zip'[j])
    PROVE  Seen'
<1> DEFINE k == heap'
           y == zip'
           b == zip[i].abs
<1>0. b \in Seq(Byte) /\ i \in Zipper
  BY ZipTypes DEF Writers, Open, Is
<1>1. ASSUME NEW j \in Zipper, Sharing(y[j]), y[j].stage = "open", NEW q \in Seq(Byte)
      PROVE  Sees(k, j, q) = Sees(k, "map", y[j].abs \o q)
  <2> DEFINE a == y[j].abs
             p == a \o q
  <2>1. Sharing(zip[j]) /\ zip[j].stage = "open" /\ zip[j].abs = a
    BY <1>1, AlikeReader
  <2>2. a \in Seq(Byte)
    BY <2>1, ZipTypes DEF Sharing
  <2>3. Sees(k, j, q) = Sees(heap, j, q)
    BY <1>1, <2>1, HeldCells DEF SameSeen
  <2>4. Sees(heap, j, q) = Sees(heap, "map", p)
    BY <1>1, <2>1 DEF Seen
  <2>5. ~Comparable(b, a)
    <3>1. j \in Readers
      BY <2>1 DEF Readers, Open, Is, Sharing
    <3>2. i # j /\ ~({i, j} \subseteq Readers)
      BY <3>1 DEF Readers, Writers, Open, Is
    <3> QED BY <2>1, <3>1, <3>2, OpenApart
  <2>6. ~Begins(b, a) /\ ~Begins(a, b)
    BY <1>0, <2>2, <2>5, BeginsComparable
  <2>7. p \in Seq(Byte) /\ ~Begins(b, p)
    BY <1>0, <1>1, <2>2, <2>6, BeginsBoth
  <2> HIDE DEF p
  <2>8. Sees(k, "map", p) = Sees(heap, "map", p)
    BY <2>7
  <2> QED BY <2>3, <2>4, <2>8 DEF p
<1> QED BY <1>1 DEF Seen

-------------------------------------------------------------------------------
(* The agreement is kept.                                                  *)

\* What nobody sees is not seen outside any set of owners.
LEMMA SeenMore ==
    ASSUME NEW h, NEW g, SameSeen(h, g, {}), NEW O
    PROVE  SameSeen(h, g, O)
BY DEF SameSeen

\* A value written below a writer's path, and a graft there, leave the rest as it was.
LEMMA SeenAssigned ==
    ASSUME Good, Seen, NEW i \in Writers, NEW r \in Seq(Byte), NEW v,
           Assigned(heap, heap', zip[i].abs \o r, v), Bounded(heap'),
           \A j \in Zipper : Alike(zip[j], zip'[j])
    PROVE  Seen'
<1> DEFINE b == zip[i].abs
           p == b \o r
<1>1. b \in Seq(Byte)
  BY ZipTypes DEF Writers, Open, Is
<1>2. Begins(b, p)
  BY <1>1, BeginsConcat
<1>3. \A q \in Seq(Byte) : ~Begins(b, q) => Sees(heap', "map", q) = Sees(heap, "map", q)
  <2>1. \A q \in Seq(Byte) : q # p => Sees(heap', "map", q) = Sees(heap, "map", q)
    BY DEF Assigned
  <2> HIDE DEF p
  <2> QED BY <1>2, <2>1
<1>4. SameSeen(heap, heap', {"map"})
  BY DEF Assigned
<1> QED BY <1>3, <1>4, SeenWritten

\* So does what is grafted there.
LEMMA SeenGrafted ==
    ASSUME Good, Seen, NEW i \in Writers, NEW x,
           Grafted(heap, heap', zip[i].abs, x), Bounded(heap'),
           \A j \in Zipper : Alike(zip[j], zip'[j])
    PROVE  Seen'
<1>1. SameSeen(heap, heap', {"map"})
  BY DEF Grafted
<1>2. \A q \in Seq(Byte) : ~Begins(zip[i].abs, q) => Sees(heap', "map", q) = Sees(heap, "map", q)
  BY DEF Grafted
<1> QED BY <1>1, <1>2, SeenWritten

\* A step that leaves the heap alone, of a zipper that does not read afterwards.
LEMMA SeenStill ==
    ASSUME Good, Seen, NEW i \in Zipper, heap' = heap, \A j \in Zipper : j # i => zip'[j] = zip[j],
           ~(Sharing(zip'[i]) /\ zip'[i].stage = "open")
    PROVE  Seen'
<1>1. SameSeen(heap, heap', {i}) /\ Bounded(heap')
  BY DEF SameSeen, Seen
<1>2. \A j \in Zipper : j # i => Alike(zip[j], zip'[j])
  BY DEF Alike, Like
<1> QED BY <1>1, <1>2, SeenQuiet

\* Every step of a zipper keeps what readers see in agreement with the trie.
LEMMA SeenKeeps ==
    ASSUME Good, Seen, NEW i \in Zipper, ZipperStep(i)
    PROVE  Seen'
<1>1. CASE \E p \in head.paths, mode \in L!Mode : Request(i, p, mode)
  <2>1. /\ heap' = heap /\ \A j \in Zipper : j # i => zip'[j] = zip[j]
        /\ ~Sharing(zip'[i])
    BY <1>1, RequestEffect
  <2> QED BY <2>1, SeenStill
<1>2. CASE EnterRead(i)
  <2>1. zip'[i].abs \in Seq(Byte)
    BY <1>2, EnterReadEffect, TriePathFacts
  <2>2. /\ SameSeen(heap, heap', {i}) /\ Bounded(heap')
        /\ \A j \in Zipper : j # i => Alike(zip[j], zip'[j])
        /\ \A q \in Seq(Byte) : Sees(heap', i, q) = Sees(heap, "map", zip'[i].abs \o q)
    BY <1>2, EnterReadEffect
  <2> QED BY <2>1, <2>2, SeenQuiet
<1>3. CASE EnterWrite(i)
  <2>1. /\ SameSeen(heap, heap', {}) /\ Bounded(heap') /\ ~Sharing(zip'[i])
        /\ \A j \in Zipper : j # i => Alike(zip[j], zip'[j])
    BY <1>3, EnterWriteEffect DEF Sharing
  <2>2. SameSeen(heap, heap', {i})
    BY <2>1, SeenMore
  <2> QED BY <2>1, <2>2, SeenQuiet
<1>4. CASE \E r \in {<<>>} \cup {<<b>> : b \in Byte}, v \in Val : Set(i, r, v)
  <2>1. PICK r \in {<<>>} \cup {<<b>> : b \in Byte}, v \in Val : Set(i, r, v)
    BY <1>4
  <2>2. <<>> \in Seq(Byte) /\ \A b \in Byte : <<b>> \in Seq(Byte)
    OBVIOUS
  <2>3. r \in Seq(Byte)
    BY <2>2
  <2>4. i \in Writers /\ Assigned(heap, heap', zip[i].abs \o r, v) /\ Bounded(heap')
        /\ \A j \in Zipper : Alike(zip[j], zip'[j])
    BY <2>1, <2>3, SetEffect
  <2> QED BY <2>3, <2>4, SeenAssigned
<1>5. CASE RemoveRootVal(i)
  <2> DEFINE r == <<>>
  <2>1. i \in Writers /\ Assigned(heap, heap', zip[i].abs, NoVal) /\ Bounded(heap')
        /\ \A j \in Zipper : Alike(zip[j], zip'[j])
    BY <1>5, RemoveRootValEffect
  <2>2. zip[i].abs \in Seq(Byte)
    BY <2>1, ZipTypes DEF Writers, Open, Is
  <2>3. r \in Seq(Byte) /\ zip[i].abs \o r = zip[i].abs
    BY <2>2
  <2> HIDE DEF r
  <2>4. Assigned(heap, heap', zip[i].abs \o r, NoVal)
    BY <2>1, <2>3
  <2>5. r \in Seq(Byte)
    BY <2>3
  <2> QED BY <2>1, <2>4, <2>5, SeenAssigned
<1>6. CASE \E b \in Byte : RemoveValBelow(i, b)
  <2>1. PICK b \in Byte : RemoveValBelow(i, b)
    BY <1>6
  <2> DEFINE r == <<b>>
  <2>2. /\ i \in Writers /\ Append(zip[i].abs, b) \in Seq(Byte)
        /\ Assigned(heap, heap', Append(zip[i].abs, b), NoVal) /\ Bounded(heap')
        /\ \A j \in Zipper : Alike(zip[j], zip'[j])
    BY <2>1, RemoveValBelowEffect
  <2>3. zip[i].abs \in Seq(Byte)
    BY <2>2, ZipTypes DEF Writers, Open, Is
  <2>4. r \in Seq(Byte) /\ zip[i].abs \o r = Append(zip[i].abs, b)
    BY <2>3
  <2> HIDE DEF r
  <2>5. Assigned(heap, heap', zip[i].abs \o r, NoVal)
    BY <2>2, <2>4
  <2>6. r \in Seq(Byte)
    BY <2>4
  <2> QED BY <2>2, <2>5, <2>6, SeenAssigned
<1>7. CASE \E j \in Zipper : Graft(i, j)
  <2>1. PICK j \in Zipper : Graft(i, j)
    BY <1>7
  <2>2. /\ i \in Writers /\ Grafted(heap, heap', zip[i].abs, CellOf(j)) /\ Bounded(heap')
        /\ \A e \in Zipper : Alike(zip[e], zip'[e])
    BY <2>1, GraftEffect
  <2> QED BY <2>2, SeenGrafted
<1>8. CASE \E j \in Zipper : MakeMap(i, j)
  <2>1. PICK j \in Zipper : MakeMap(i, j)
    BY <1>8
  <2>2. /\ SameSeen(heap, heap', {j}) /\ Bounded(heap') /\ zip'[j].stage = "map"
        /\ \A k \in Zipper : k # j => Alike(zip[k], zip'[k])
    BY <2>1, MakeMapEffect
  <2> QED BY <2>2, SeenQuiet
<1>9. CASE IntoReader(i)
  BY <1>9 DEF IntoReader, Good, Disciplined
<1>10. CASE DropShare(i)
  <2>1. /\ SameSeen(heap, heap', {i}) /\ Bounded(heap') /\ zip'[i] = NoZipper
        /\ \A k \in Zipper : k # i => Alike(zip[k], zip'[k])
    BY <1>10, DropShareEffect
  <2> QED BY <2>1, SeenQuiet DEF Sharing
<1>11. CASE DropWriter(i) \/ Leave(i)
  <2>1. /\ heap' = heap /\ \A j \in Zipper : j # i => zip'[j] = zip[j]
        /\ ~(zip'[i] # NoZipper /\ zip'[i].stage \in {"open", "map"})
    BY <1>11, WriterGoes
  <2> QED BY <2>1, SeenStill DEF Sharing
<1>12. CASE Cleanup(i)
  <2>1. /\ SameSeen(heap, heap', {}) /\ Bounded(heap') /\ zip'[i] = NoZipper
        /\ \A j \in Zipper : j # i => Alike(zip[j], zip'[j])
    BY <1>12, CleanupEffect
  <2>2. SameSeen(heap, heap', {i})
    BY <2>1, SeenMore
  <2> QED BY <2>1, <2>2, SeenQuiet DEF Sharing
<1> QED BY <1>1, <1>2, <1>3, <1>4, <1>5, <1>6, <1>7, <1>8, <1>9, <1>10, <1>11, <1>12 DEF ZipperStep

\* There is nothing to see at the start.
LEMMA InitSeen ==
    ASSUME Init
    PROVE  Seen
<1>1. \A s \in Slots(heap) : s = HeadSlot /\ \A p \in Seq(Byte) : CellBelow(heap, At(heap, s), p).val = NoVal
  BY InitHeap DEF Barren
<1>2. Bounded(heap)
  BY <1>1 DEF Bounded, Sees, Value
<1>3. \A i \in Zipper : ~Sharing(zip[i])
  BY DEF Init, Sharing
<1> QED BY <1>2, <1>3 DEF Seen

\* The invariant, with what readers see.
SeenInv == HeadInv /\ (Disciplined(head) => Seen)

\* Every step keeps it.
LEMMA NextSeen ==
    ASSUME SeenInv, [Next]_vars
    PROVE  SeenInv'
<1>0. HeadInv'
  BY NextInv DEF SeenInv
<1>1. CASE Next
  <2>1. PICK i \in Zipper : ZipperStep(i) /\ head' = head
    BY <1>1 DEF Next
  <2>2. CASE Disciplined(head)
    <3>1. Good /\ Seen
      BY <2>2 DEF SeenInv, HeadInv, Good
    <3>2. Seen'
      BY <2>1, <3>1, SeenKeeps
    <3> QED BY <1>0, <3>2 DEF SeenInv
  <2>3. CASE ~Disciplined(head)
    <3>1. ~Disciplined(head')
      BY <2>1, <2>3
    <3> QED BY <1>0, <3>1 DEF SeenInv
  <2> QED BY <2>2, <2>3
<1>2. CASE UNCHANGED vars
  BY <1>0, <1>2 DEF vars, SeenInv, Seen
<1> QED BY <1>1, <1>2

\* It is an invariant.
LEMMA SeenInvariant == Spec => []SeenInv
<1>1. Init => SeenInv
  BY InitInv, InitSeen DEF SeenInv
<1>2. SeenInv /\ [Next]_vars => SeenInv'
  BY NextSeen
<1> QED BY <1>1, <1>2, PTL DEF Spec

-------------------------------------------------------------------------------
(* Readers see the trie.                                                   *)

\* Cells that lead to the same values.
LEMMA ValuesAgree ==
    ASSUME NEW h, NEW x, NEW g, NEW y, \A p \in TriePath : Value(h, x, p) = Value(g, y, p)
    PROVE  ValuesBelow(h, x) = ValuesBelow(g, y)
<1> DEFINE V == {p \in TriePath : Value(h, x, p) # NoVal}
           W == {p \in TriePath : Value(g, y, p) # NoVal}
<1>1. ValuesBelow(h, x) = [p \in V |-> Value(h, x, p)]
  BY DEF ValuesBelow, Value
<1>2. ValuesBelow(g, y) = [p \in W |-> Value(g, y, p)]
  BY DEF ValuesBelow, Value
<1>3. V = W /\ V \subseteq TriePath
  OBVIOUS
<1> HIDE DEF V, W
<1>4. \A p \in V : Value(h, x, p) = Value(g, y, p)
  BY <1>3
<1>5. [p \in V |-> Value(h, x, p)] = [p \in V |-> Value(g, y, p)]
  BY <1>4
<1> QED BY <1>1, <1>2, <1>3, <1>5

\* What a reader or a map sees, and what is below the slot of a zipper.
LEMMA ReaderCurrent ==
    ASSUME Good, Seen, NEW i \in Readers
    PROVE  Current(i)
<1>1. i \in Zipper /\ zip[i] # NoZipper /\ zip[i].stage = "open" /\ Sharing(zip[i])
  BY DEF Readers, Open, Is, Sharing
<1> DEFINE s == zip[i].slot
           a == zip[i].abs
           x == CellOf(i)
           m == At(heap, HeadSlot)
           y == CellBelow(heap, m, a)
<1>2. s \in Slots(heap)
  BY <1>1, SlotSees
<1>3. a \in Seq(Byte)
  BY <1>1, ZipTypes
<1>4. ASSUME NEW p \in TriePath
      PROVE  Value(heap, x, p) = Value(heap, y, p)
  <2>1. p \in Seq(Byte)
    BY TriePathFacts
  <2>2. Value(heap, x, p) = Sees(heap, i, p)
    BY <1>1, <2>1, SlotSees
  <2>3. Sees(heap, i, p) = Sees(heap, "map", a \o p)
    BY <1>1, <2>1 DEF Seen
  <2>4. CellBelow(heap, m, a \o p) = CellBelow(heap, y, p)
    BY <1>3, <2>1, CellBelowConcat
  <2>5. Sees(heap, "map", a \o p) = CellBelow(heap, m, a \o p).val
    BY DEF Sees, Value, HeadSlot
  <2>6. Value(heap, y, p) = CellBelow(heap, y, p).val
    BY DEF Value
  <2> QED BY <2>2, <2>3, <2>4, <2>5, <2>6
<1> HIDE DEF x, y
<1>5. ValuesBelow(heap, x) = ValuesBelow(heap, y)
  BY <1>4, ValuesAgree
<1> QED BY <1>2, <1>5 DEF Current, Attached, x, y

\* A reader sees the trie as it is, for as long as it lives, although it owns its own copy
\* (new_isolated_in): no writer can change what is at, above or below the reader's path.
THEOREM ReadersSeeTrie == Spec => [](Disciplined(head) => ReadersCurrent)
<1>1. SeenInv => (Disciplined(head) => ReadersCurrent)
  <2> SUFFICES ASSUME SeenInv, Disciplined(head)
               PROVE  ReadersCurrent
    OBVIOUS
  <2>1. Good /\ Seen
    BY DEF SeenInv, HeadInv, Good
  <2> QED BY <2>1, ReaderCurrent DEF ReadersCurrent
<1> QED BY <1>1, SeenInvariant, PTL

-------------------------------------------------------------------------------
(* The state of the store.                                                 *)

\* What an owner has, as a mapping; what a zipper sees, and where it writes.
Has(h, o) == ValuesBelow(h, At(h, <<Roots, o>>))
OpenToWrite(x) == x # NoZipper /\ x.stage = "open" /\ x.mode = "write"

\* Views and Places, zipper by zipper.
ViewsOf(h, z, f, g) ==
    /\ f = [j \in Zipper |-> f[j]] /\ g = [j \in Zipper |-> g[j]]
    /\ \A j \in Zipper : /\ Sharing(z[j]) => f[j] = Has(h, j)
                         /\ ~Sharing(z[j]) => f[j] = NoZipper
                         /\ OpenToWrite(z[j]) => g[j] = z[j].abs
                         /\ ~OpenToWrite(z[j]) => g[j] = NoZipper
Viewed == ViewsOf(heap, zip, Views, Places)
\* Views and Places say of each zipper what its record does.
LEMMA ViewsFacts == Good => Viewed
<1> SUFFICES ASSUME Good
             PROVE  Viewed
  OBVIOUS
<1>1. Views = [j \in Zipper |-> Views[j]] /\ Places = [j \in Zipper |-> Places[j]]
  BY DEF Views, Places
<1>2. ASSUME NEW j \in Zipper
      PROVE  /\ Sharing(zip[j]) => Views[j] = Has(heap, j)
             /\ ~Sharing(zip[j]) => Views[j] = NoZipper
  <2>1. Views[j] = IF (j \in Readers \/ Is(j, "map")) /\ Attached(heap, zip[j].slot)
                   THEN ValuesBelow(heap, CellOf(j)) ELSE NoZipper
    BY DEF Views
  <2>2. zip[j] # NoZipper /\ zip[j].stage = "map" => zip[j].mode = "read"
    BY ZipTypes DEF Lawful
  <2>3. (j \in Readers \/ Is(j, "map")) <=> Sharing(zip[j])
    BY <2>2 DEF Readers, Open, Is, Sharing
  <2>4. Sharing(zip[j]) => zip[j].slot = <<Roots, j>> /\ <<Roots, j>> \in Slots(heap)
    BY DEF Good, Secure, Shared, Sharing
  <2>5. Sharing(zip[j]) => Attached(heap, zip[j].slot) /\ ValuesBelow(heap, CellOf(j)) = Has(heap, j)
    BY <2>4 DEF Attached, CellOf, Has
  <2> QED BY <2>1, <2>3, <2>5
<1>3. ASSUME NEW j \in Zipper
      PROVE  /\ OpenToWrite(zip[j]) => Places[j] = zip[j].abs
             /\ ~OpenToWrite(zip[j]) => Places[j] = NoZipper
  BY DEF Places, Writers, Open, Is, OpenToWrite
<1> QED BY <1>1, <1>2, <1>3 DEF Viewed, ViewsOf

\* So they do in the next state.
LEMMA ViewsThen == Good' => Viewed'
BY ViewsFacts, PTL
\* The same, unfolded.
LEMMA ViewsNext ==
    ASSUME Good'
    PROVE  ViewsOf(heap', zip', Views', Places')
BY ViewsThen DEF Viewed

-------------------------------------------------------------------------------
(* The steps of the store.                                                 *)

\* Functions of zippers that differ at one, or nowhere.
LEMMA OneDiffers ==
    ASSUME NEW f, f = [j \in Zipper |-> f[j]], NEW g, g = [j \in Zipper |-> g[j]], NEW i \in Zipper,
           NEW x, g[i] = x, \A j \in Zipper : j # i => g[j] = f[j]
    PROVE  g = [f EXCEPT ![i] = x]
OBVIOUS

\* They are equal if they differ nowhere.
LEMMA NoneDiffers ==
    ASSUME NEW f, f = [j \in Zipper |-> f[j]], NEW g, g = [j \in Zipper |-> g[j]],
           \A j \in Zipper : g[j] = f[j]
    PROVE  g = f
OBVIOUS

\* A zipper that a step leaves alone sees what it saw, and writes where it wrote.
LEMMA SameView ==
    ASSUME Good, Good', NEW O, SameSeen(heap, heap', O), NEW j \in Zipper, j \notin O,
           Alike(zip[j], zip'[j])
    PROVE  Views'[j] = Views[j] /\ Places'[j] = Places[j]
<1> DEFINE x == zip[j]
           y == zip'[j]
           k == heap'
<1>1. /\ Sharing(x) => Views[j] = Has(heap, j)
      /\ ~Sharing(x) => Views[j] = NoZipper
      /\ OpenToWrite(x) => Places[j] = x.abs
      /\ ~OpenToWrite(x) => Places[j] = NoZipper
  BY ViewsFacts DEF Viewed, ViewsOf
<1>2. /\ Sharing(y) => Views'[j] = Has(k, j)
      /\ ~Sharing(y) => Views'[j] = NoZipper
      /\ OpenToWrite(y) => Places'[j] = y.abs
      /\ ~OpenToWrite(y) => Places'[j] = NoZipper
  BY ViewsNext DEF ViewsOf
<1>3. Alike(x, y)
  OBVIOUS
<1>4. Sharing(x) => Has(k, j) = Has(heap, j)
  <2> SUFFICES ASSUME Sharing(x)
               PROVE  Has(k, j) = Has(heap, j)
    OBVIOUS
  <2>1. <<Roots, j>> \in Slots(heap)
    BY HeldCells
  <2>2. \A q \in Seq(Byte) : Sees(k, j, q) = Sees(heap, j, q)
    BY <2>1 DEF SameSeen
  <2> HIDE DEF k, x
  <2>3. \A p \in TriePath : Value(k, At(k, <<Roots, j>>), p) = Value(heap, At(heap, <<Roots, j>>), p)
    BY <2>2, TriePathFacts DEF Sees
  <2> QED BY <2>3, ValuesAgree DEF Has
<1> HIDE DEF x, y, k
<1>5. (Sharing(x) <=> Sharing(y)) /\ (OpenToWrite(x) <=> OpenToWrite(y)) /\ (OpenToWrite(x) => x.abs = y.abs)
  BY <1>3 DEF Alike, Like, Sharing, OpenToWrite
<1> QED BY <1>1, <1>2, <1>4, <1>5

\* The head's contents are the same when its owner sees no difference.
LEMMA SameContents ==
    ASSUME Good, NEW O, SameSeen(heap, heap', O), "map" \notin O
    PROVE  Contents' = Contents
<1> DEFINE k == heap'
<1>1. \A q \in Seq(Byte) : Sees(k, "map", q) = Sees(heap, "map", q)
  BY HeldCells DEF SameSeen, HeadSlot
<1>2. Contents' = ValuesBelow(k, At(k, HeadSlot))
  BY DEF Contents
<1> HIDE DEF k
<1>3. \A p \in TriePath : Value(k, At(k, HeadSlot), p) = Value(heap, At(heap, HeadSlot), p)
  BY <1>1, TriePathFacts DEF Sees, HeadSlot
<1> QED BY <1>2, <1>3, ValuesAgree DEF Contents

\* IsPrefix is the same in PathStore.
LEMMA StorePrefix ==
    ASSUME NEW p, NEW q
    PROVE  Store!IsPrefix(p, q) <=> IsPrefix(p, q)
BY DEF IsPrefix, Store!IsPrefix

\* Steps of the store.
LEMMA StoreIdle ==
    ASSUME Contents' = Contents, Views' = Views, Places' = Places
    PROVE  [Store!StoreNext]_Store!storeVars
BY DEF Store!storeVars

\* Look: a view of the store, or another's view.
LEMMA StoreLook ==
    ASSUME NEW i \in Zipper, Contents' = Contents, Places' = Places, Views[i] = NoZipper,
           \/ \E p \in TriePath : Views' = [Views EXCEPT ![i] = Store!SubStore(Contents, p)]
           \/ \E j \in Zipper : Views' = [Views EXCEPT ![i] = Views[j]]
    PROVE  [Store!StoreNext]_Store!storeVars
BY DEF Store!storeVars, Store!StoreNext, Store!Look

\* Forget: a view less.
LEMMA StoreForget ==
    ASSUME NEW i \in Zipper, Contents' = Contents, Places' = Places,
           Views' = [Views EXCEPT ![i] = NoZipper]
    PROVE  [Store!StoreNext]_Store!storeVars
BY DEF Store!storeVars, Store!StoreNext, Store!Forget

\* Begin: a place apart from the others.
LEMMA StoreBegin ==
    ASSUME NEW i \in Zipper, NEW p \in TriePath, Contents' = Contents, Views' = Views,
           Places[i] = NoZipper,
           \A j \in Zipper : Places[j] # NoZipper => ~IsPrefix(p, Places[j]) /\ ~IsPrefix(Places[j], p),
           Places' = [Places EXCEPT ![i] = p]
    PROVE  [Store!StoreNext]_Store!storeVars
<1>1. \A j \in Zipper : Places[j] # NoZipper
         => ~Store!IsPrefix(p, Places[j]) /\ ~Store!IsPrefix(Places[j], p)
  BY StorePrefix
<1>2. Store!Begin(i, p)
  BY <1>1 DEF Store!Begin
<1> QED BY <1>2 DEF Store!storeVars, Store!StoreNext

\* End: a place less.
LEMMA StoreEnd ==
    ASSUME NEW i \in Zipper, Contents' = Contents, Views' = Views,
           Places' = [Places EXCEPT ![i] = NoZipper]
    PROVE  [Store!StoreNext]_Store!storeVars
BY DEF Store!storeVars, Store!StoreNext, Store!End

\* Write: one value, or all that is below a path.
LEMMA StoreWrite ==
    ASSUME NEW i \in Zipper, Views' = Views, Places' = Places, Places[i] # NoZipper,
           NEW p \in TriePath, IsPrefix(Places[i], p),
           \/ \E v \in Val : Contents' = Store!With(Contents, p, v)
           \/ Contents' = Store!Without(Contents, p)
           \/ \E q \in TriePath : Contents' = Store!Replaced(Contents, p, Store!SubStore(Contents, q))
           \/ \E j \in Zipper : Views[j] # NoZipper /\ Contents' = Store!Replaced(Contents, p, Views[j])
    PROVE  [Store!StoreNext]_Store!storeVars
<1> DEFINE P == {q \in TriePath : Store!IsPrefix(Places[i], q)}
           V == {Views[j] : j \in Zipper} \ {NoZipper}
           S == {Store!SubStore(Contents, q) : q \in TriePath}
           W == Contents
<1>1. p \in P
  BY StorePrefix
<1>2. Contents' \in Store!Writes(W, P, V)
  <2>1. CASE \E v \in Val : Contents' = Store!With(W, p, v)
    BY <1>1, <2>1 DEF Store!Writes
  <2>2. CASE Contents' = Store!Without(W, p)
    BY <1>1, <2>2 DEF Store!Writes
  <2>3. CASE \E q \in TriePath : Contents' = Store!Replaced(W, p, Store!SubStore(W, q))
    <3>1. PICK q \in TriePath : Contents' = Store!Replaced(W, p, Store!SubStore(W, q))
      BY <2>3
    <3>2. Store!SubStore(W, q) \in S
      OBVIOUS
    <3> QED BY <1>1, <3>1, <3>2 DEF Store!Writes
  <2>4. CASE \E j \in Zipper : Views[j] # NoZipper /\ Contents' = Store!Replaced(W, p, Views[j])
    <3>1. PICK j \in Zipper : Views[j] # NoZipper /\ Contents' = Store!Replaced(W, p, Views[j])
      BY <2>4
    <3>2. Views[j] \in V
      BY <3>1
    <3> QED BY <1>1, <3>1, <3>2 DEF Store!Writes
  <2> QED BY <2>1, <2>2, <2>3, <2>4
<1>3. Store!Write(i)
  BY <1>2 DEF Store!Write
<1> QED BY <1>3 DEF Store!storeVars, Store!StoreNext

-------------------------------------------------------------------------------
(* The contents of the store.                                              *)

\* The rest of a path.
LEMMA RestOfPath ==
    ASSUME NEW p \in Seq(Byte), NEW r \in Seq(Byte)
    PROVE  SubSeq(p \o r, Len(p) + 1, Len(p \o r)) = r
<1> DEFINE a == p \o r
           n == Len(p)
           s == SubSeq(a, n + 1, Len(a))
<1>1. a \in Seq(Byte) /\ Len(a) = n + Len(r) /\ n \in Nat /\ Len(r) \in Nat
  OBVIOUS
<1>2. \A k \in 1..Len(r) : a[n + k] = r[k]
  OBVIOUS
<1> HIDE DEF a, n
<1>3. Len(s) = Len(r)
  BY <1>1
<1>4. \A k \in 1..Len(r) : s[k] = a[n + k]
  BY <1>1
<1>5. s \in Seq(Byte)
  BY <1>1
<1> HIDE DEF s
<1>6. s = r
  BY <1>2, <1>3, <1>4, <1>5
<1> QED BY <1>6 DEF s, a, n

\* ValuesBelow is a function.
Valued(h, x) == {q \in TriePath : Value(h, x, q) # NoVal}
\* Where it is defined, and what it yields.
LEMMA ValuesFacts ==
    ASSUME NEW h, NEW x
    PROVE  /\ ValuesBelow(h, x) = [q \in Valued(h, x) |-> Value(h, x, q)]
           /\ DOMAIN ValuesBelow(h, x) = Valued(h, x)
           /\ \A q \in Valued(h, x) : ValuesBelow(h, x)[q] = Value(h, x, q)
BY DEF ValuesBelow, Valued, Value

\* The part of a store below a path.
LEMMA SubStoreIs ==
    ASSUME NEW h, NEW x, \A q \in Seq(Byte) : Value(h, x, q) # NoVal => q \in TriePath,
           NEW p \in Seq(Byte), NEW g, NEW y, \A q \in TriePath : Value(g, y, q) = Value(h, x, p \o q)
    PROVE  ValuesBelow(g, y) = Store!SubStore(ValuesBelow(h, x), p)
<1> DEFINE w == ValuesBelow(h, x)
           u == ValuesBelow(g, y)
           D == {r \in TriePath : p \o r \in DOMAIN w}
<1>1. DOMAIN w = Valued(h, x) /\ \A q \in Valued(h, x) : w[q] = Value(h, x, q)
  BY ValuesFacts
<1>2. u = [q \in Valued(g, y) |-> Value(g, y, q)]
  BY ValuesFacts
<1> HIDE DEF w, u
<1>3. ASSUME NEW r \in TriePath
      PROVE  /\ r \in D <=> r \in Valued(g, y)
             /\ r \in D => w[p \o r] = Value(g, y, r)
  <2> DEFINE a == p \o r
  <2>1. a \in Seq(Byte) /\ Value(g, y, r) = Value(h, x, a)
    BY TriePathFacts
  <2>2. r \in D <=> a \in DOMAIN w
    OBVIOUS
  <2> HIDE DEF a, D
  <2>3. a \in DOMAIN w <=> Value(h, x, a) # NoVal
    BY <1>1, <2>1 DEF Valued
  <2>4. a \in DOMAIN w => w[a] = Value(h, x, a)
    BY <1>1
  <2>5. (r \in D <=> r \in Valued(g, y)) /\ (r \in D => w[a] = Value(g, y, r))
    BY <2>1, <2>2, <2>3, <2>4 DEF Valued
  <2> QED BY <2>5 DEF a
<1>4. D \subseteq TriePath /\ Valued(g, y) \subseteq TriePath
  BY DEF Valued
<1>5. Store!SubStore(w, p) = [q \in D |-> w[p \o q]]
  BY DEF Store!SubStore
<1> HIDE DEF D
<1>6. D = Valued(g, y)
  BY <1>3, <1>4
<1>7. \A q \in D : w[p \o q] = Value(g, y, q)
  BY <1>3, <1>4
<1>8. [q \in D |-> w[p \o q]] = [q \in Valued(g, y) |-> Value(g, y, q)]
  BY <1>6, <1>7
<1> QED BY <1>2, <1>5, <1>8 DEF w, u

\* A value more, or another one; and one less.
LEMMA WithIs ==
    ASSUME NEW h, NEW x, NEW g, NEW y, NEW p \in TriePath, NEW v, v # NoVal, Value(g, y, p) = v,
           \A q \in TriePath : q # p => Value(g, y, q) = Value(h, x, q)
    PROVE  ValuesBelow(g, y) = Store!With(ValuesBelow(h, x), p, v)
<1> DEFINE w == ValuesBelow(h, x)
           u == ValuesBelow(g, y)
           S == Valued(h, x)
           T == Valued(g, y)
<1>1. DOMAIN w = S /\ \A q \in S : w[q] = Value(h, x, q)
  BY ValuesFacts
<1>2. u = [q \in T |-> Value(g, y, q)]
  BY ValuesFacts
<1>3. T = S \cup {p}
  BY DEF Valued
<1>4. \A q \in S : q # p => Value(g, y, q) = Value(h, x, q)
  BY DEF Valued
<1> HIDE DEF w, u, S, T
<1>5. Store!With(w, p, v) = [q \in DOMAIN w \cup {p} |-> IF q = p THEN v ELSE w[q]]
  BY DEF Store!With
<1>6. \A q \in T : Value(g, y, q) = IF q = p THEN v ELSE w[q]
  BY <1>1, <1>3, <1>4
<1>7. u = Store!With(w, p, v)
  BY <1>1, <1>2, <1>3, <1>5, <1>6
<1> QED BY <1>7 DEF w, u

\* A value less.
LEMMA WithoutIs ==
    ASSUME NEW h, NEW x, NEW g, NEW y, NEW p, p \in TriePath, Value(g, y, p) = NoVal,
           \A q \in TriePath : q # p => Value(g, y, q) = Value(h, x, q)
    PROVE  ValuesBelow(g, y) = Store!Without(ValuesBelow(h, x), p)
<1> DEFINE w == ValuesBelow(h, x)
           u == ValuesBelow(g, y)
           S == Valued(h, x)
           T == Valued(g, y)
<1>1. DOMAIN w = S /\ \A q \in S : w[q] = Value(h, x, q)
  BY ValuesFacts
<1>2. u = [q \in T |-> Value(g, y, q)]
  BY ValuesFacts
<1>3. T = S \ {p}
  BY DEF Valued
<1>4. \A q \in S : q # p => Value(g, y, q) = Value(h, x, q)
  BY DEF Valued
<1> HIDE DEF w, u, S, T
<1>5. Store!Without(w, p) = [q \in DOMAIN w \ {p} |-> w[q]]
  BY DEF Store!Without, Store!Restrict
<1>6. \A q \in T : Value(g, y, q) = w[q]
  BY <1>1, <1>3, <1>4
<1>7. u = Store!Without(w, p)
  BY <1>1, <1>2, <1>3, <1>5, <1>6
<1> QED BY <1>7 DEF w, u

\* All below a path replaced.
LEMMA ReplacedIs ==
    ASSUME NEW h, NEW x, NEW g, NEW y, NEW e, NEW z, NEW p \in Seq(Byte),
           \A q \in Seq(Byte) : Value(g, y, q) # NoVal => q \in TriePath,
           \A q \in Seq(Byte) : Value(e, z, q) # NoVal => q \in TriePath,
           \A r \in Seq(Byte) : Value(g, y, p \o r) = Value(e, z, r),
           \A q \in Seq(Byte) : ~Begins(p, q) => Value(g, y, q) = Value(h, x, q)
    PROVE  ValuesBelow(g, y) = Store!Replaced(ValuesBelow(h, x), p, ValuesBelow(e, z))
<1> DEFINE w == ValuesBelow(h, x)
           u == ValuesBelow(g, y)
           m == ValuesBelow(e, z)
           S == Valued(h, x)
           T == Valued(g, y)
           M == Valued(e, z)
           kept == {q \in DOMAIN w : ~Store!IsPrefix(p, q)}
           new == {p \o r : r \in DOMAIN m}
           rest(q) == SubSeq(q, Len(p) + 1, Len(q))
<1>1. DOMAIN w = S /\ \A q \in S : w[q] = Value(h, x, q)
  BY ValuesFacts
<1>2. u = [q \in T |-> Value(g, y, q)]
  BY ValuesFacts
<1>3. DOMAIN m = M /\ \A q \in M : m[q] = Value(e, z, q)
  BY ValuesFacts
<1>4. T \subseteq Seq(Byte) /\ S \subseteq Seq(Byte) /\ M \subseteq Seq(Byte)
  BY TriePathFacts DEF Valued
<1>5. /\ \A q \in Seq(Byte) : q \in T <=> Value(g, y, q) # NoVal
      /\ \A q \in Seq(Byte) : q \in M <=> Value(e, z, q) # NoVal
      /\ \A q \in S : Value(h, x, q) # NoVal
      /\ \A q \in TriePath : Value(h, x, q) # NoVal => q \in S
      /\ T \subseteq TriePath
  BY TriePathFacts DEF Valued
<1> HIDE DEF w, u, m, S, T, M
<1>6. \A q \in Seq(Byte) : Store!IsPrefix(p, q) <=> Begins(p, q)
  BY BeginsFacts, StorePrefix
<1>7. \A q : q \in kept <=> q \in S /\ ~Begins(p, q)
  BY <1>1, <1>4, <1>6
<1>8. ASSUME NEW r \in Seq(Byte)
      PROVE  /\ p \o r \in Seq(Byte) /\ Begins(p, p \o r)
             /\ p \o r \in T <=> r \in M
             /\ rest(p \o r) = r
  <2>1. p \o r \in Seq(Byte) /\ Begins(p, p \o r)
    BY BeginsConcat
  <2>2. rest(p \o r) = r
    BY RestOfPath
  <2>3. Value(g, y, p \o r) = Value(e, z, r)
    OBVIOUS
  <2>4. p \o r \in T <=> r \in M
    BY <1>5, <2>1, <2>3
  <2> QED BY <2>1, <2>2, <2>4
<1>9. ASSUME NEW q
      PROVE  /\ q \in T <=> q \in kept \cup new
             /\ q \in T => Value(g, y, q) = IF q \in kept THEN w[q] ELSE m[rest(q)]
  <2>1. CASE q \in Seq(Byte) /\ Begins(p, q)
    <3>1. PICK r \in Seq(Byte) : q = p \o r
      BY <2>1, BeginsRest
    <3>2. (q \in T <=> r \in M) /\ rest(q) = r
      BY <1>8, <3>1
    <3>3. q \notin kept
      BY <1>7, <2>1
    <3>4. r \in M => q \in new
      BY <1>3, <3>1
    <3>5. q \in new => r \in M
      <4> SUFFICES ASSUME NEW t \in M, q = p \o t
                   PROVE  r \in M
        BY <1>3
      <4>1. t \in Seq(Byte)
        BY <1>4
      <4>2. rest(q) = t
        BY <1>8, <4>1
      <4> QED BY <3>2, <4>2
    <3>6. r \in M => Value(g, y, q) = m[r]
      BY <1>3, <3>1
    <3> QED BY <3>2, <3>3, <3>4, <3>5, <3>6
  <2>2. CASE q \in Seq(Byte) /\ ~Begins(p, q)
    <3>1. Value(g, y, q) = Value(h, x, q)
      BY <2>2
    <3>2. q \in T <=> q \in S
      BY <1>5, <2>2, <3>1
    <3>3. q \notin new
      <4> SUFFICES ASSUME NEW t \in M, q = p \o t
                   PROVE  FALSE
        BY <1>3
      <4>1. t \in Seq(Byte)
        BY <1>4
      <4> QED BY <1>8, <2>2, <4>1
    <3> QED BY <1>1, <1>7, <2>2, <3>1, <3>2, <3>3
  <2>3. CASE q \notin Seq(Byte)
    <3>1. q \notin T /\ q \notin kept
      BY <1>4, <1>7, <2>3
    <3>2. q \notin new
      <4> SUFFICES ASSUME NEW t \in M, q = p \o t
                   PROVE  FALSE
        BY <1>3
      <4>1. t \in Seq(Byte)
        BY <1>4
      <4> QED BY <1>8, <2>3, <4>1
    <3> QED BY <3>1, <3>2
  <2> QED BY <2>1, <2>2, <2>3
<1>10. Store!Replaced(w, p, m) = [q \in kept \cup new |-> IF q \in kept THEN w[q] ELSE m[rest(q)]]
  BY DEF Store!Replaced
<1> HIDE DEF kept, new, rest
<1>11. T = kept \cup new
  BY <1>9
<1>12. u = Store!Replaced(w, p, m)
  BY <1>2, <1>9, <1>10, <1>11
<1> QED BY <1>12 DEF w, u, m

-------------------------------------------------------------------------------
(* Looking, forgetting, beginning and ending.                              *)

\* What becomes of the views and places when one zipper makes a step.
LEMMA ViewsBut ==
    ASSUME Good, Good', NEW i \in Zipper, SameSeen(heap, heap', {i}),
           \A j \in Zipper : j # i => Alike(zip[j], zip'[j])
    PROVE  /\ Contents' = Contents
           /\ \A j \in Zipper : j # i => Views'[j] = Views[j] /\ Places'[j] = Places[j]
           /\ Views = [j \in Zipper |-> Views[j]] /\ Places = [j \in Zipper |-> Places[j]]
           /\ Views' = [j \in Zipper |-> Views'[j]] /\ Places' = [j \in Zipper |-> Places'[j]]
<1>1. "map" \notin {i}
  BY HeldCells
<1>2. Contents' = Contents
  BY <1>1, SameContents
<1>3. \A j \in Zipper : j # i => Views'[j] = Views[j] /\ Places'[j] = Places[j]
  <2> SUFFICES ASSUME NEW j \in Zipper, j # i
               PROVE  Views'[j] = Views[j] /\ Places'[j] = Places[j]
    OBVIOUS
  <2>1. j \notin {i}
    OBVIOUS
  <2> QED BY <2>1, SameView
<1>4. /\ Views = [j \in Zipper |-> Views[j]] /\ Places = [j \in Zipper |-> Places[j]]
      /\ Views' = [j \in Zipper |-> Views'[j]] /\ Places' = [j \in Zipper |-> Places'[j]]
  BY ViewsFacts, ViewsNext DEF Viewed, ViewsOf
<1> QED BY <1>2, <1>3, <1>4

\* What a zipper sees and where it writes, before and after.
LEMMA ViewOf ==
    ASSUME Good, Good', NEW i \in Zipper
    PROVE  /\ Sharing(zip[i]) => Views[i] = Has(heap, i)
           /\ ~Sharing(zip[i]) => Views[i] = NoZipper
           /\ OpenToWrite(zip[i]) => Places[i] = zip[i].abs
           /\ ~OpenToWrite(zip[i]) => Places[i] = NoZipper
           /\ Sharing(zip'[i]) => Views'[i] = Has(heap', i)
           /\ ~Sharing(zip'[i]) => Views'[i] = NoZipper
           /\ OpenToWrite(zip'[i]) => Places'[i] = zip'[i].abs
           /\ ~OpenToWrite(zip'[i]) => Places'[i] = NoZipper
BY ViewsFacts, ViewsNext DEF Viewed, ViewsOf

\* Steps that nobody sees; the beginning and the end of seeing something.
LEMMA IdleStep ==
    ASSUME Good, Good', NEW i \in Zipper, SameSeen(heap, heap', {i}),
           \A j \in Zipper : j # i => Alike(zip[j], zip'[j]),
           ~Sharing(zip[i]), ~OpenToWrite(zip[i]), ~Sharing(zip'[i]), ~OpenToWrite(zip'[i])
    PROVE  [Store!StoreNext]_Store!storeVars
<1>1. Views'[i] = Views[i] /\ Places'[i] = Places[i]
  BY ViewOf
<1> DEFINE f == Views
           f1 == Views'
           g == Places
           g1 == Places'
<1>2. /\ f = [j \in Zipper |-> f[j]] /\ g = [j \in Zipper |-> g[j]]
      /\ f1 = [j \in Zipper |-> f1[j]] /\ g1 = [j \in Zipper |-> g1[j]]
      /\ \A j \in Zipper : f1[j] = f[j] /\ g1[j] = g[j]
  BY <1>1, ViewsBut
<1> HIDE DEF f, f1, g, g1
<1>3. f1 = f /\ g1 = g
  BY <1>2, NoneDiffers
<1>4. Contents' = Contents
  BY ViewsBut
<1> QED BY <1>3, <1>4, StoreIdle DEF f, f1, g, g1

\* A zipper begins to see something.
LEMMA LookStep ==
    ASSUME Good, Good', NEW i \in Zipper, SameSeen(heap, heap', {i}),
           \A j \in Zipper : j # i => Alike(zip[j], zip'[j]),
           ~Sharing(zip[i]), ~OpenToWrite(zip[i]), Sharing(zip'[i]), ~OpenToWrite(zip'[i]),
           \/ \E p \in TriePath : Has(heap', i) = Store!SubStore(Contents, p)
           \/ \E j \in Zipper : Has(heap', i) = Views[j]
    PROVE  [Store!StoreNext]_Store!storeVars
<1> DEFINE f == Views
           f1 == Views'
           g == Places
           g1 == Places'
           x == Has(heap', i)
<1>1. f1[i] = x /\ g1[i] = g[i] /\ f[i] = NoZipper
  BY ViewOf
<1>2. /\ f = [j \in Zipper |-> f[j]] /\ g = [j \in Zipper |-> g[j]]
      /\ f1 = [j \in Zipper |-> f1[j]] /\ g1 = [j \in Zipper |-> g1[j]]
      /\ \A j \in Zipper : j # i => f1[j] = f[j] /\ g1[j] = g[j]
  BY ViewsBut
<1>3. Contents' = Contents
  BY ViewsBut
<1>4. \/ \E p \in TriePath : x = Store!SubStore(Contents, p)
      \/ \E j \in Zipper : x = f[j]
  OBVIOUS
<1> HIDE DEF f, f1, g, g1, x
<1>5. g1 = g
  BY <1>1, <1>2, NoneDiffers
<1>6. f1 = [f EXCEPT ![i] = x]
  BY <1>1, <1>2, OneDiffers
<1>7. \/ \E p \in TriePath : f1 = [f EXCEPT ![i] = Store!SubStore(Contents, p)]
      \/ \E j \in Zipper : f1 = [f EXCEPT ![i] = f[j]]
  BY <1>4, <1>6
<1> QED BY <1>1, <1>3, <1>5, <1>7, StoreLook DEF f, f1, g, g1

\* A zipper sees no more.
LEMMA ForgetStep ==
    ASSUME Good, Good', NEW i \in Zipper, SameSeen(heap, heap', {i}),
           \A j \in Zipper : j # i => Alike(zip[j], zip'[j]),
           ~OpenToWrite(zip[i]), ~Sharing(zip'[i]), ~OpenToWrite(zip'[i])
    PROVE  [Store!StoreNext]_Store!storeVars
<1> DEFINE f == Views
           f1 == Views'
           g == Places
           g1 == Places'
           x == NoZipper
<1>1. f1[i] = x /\ g1[i] = g[i]
  BY ViewOf
<1>2. /\ f = [j \in Zipper |-> f[j]] /\ g = [j \in Zipper |-> g[j]]
      /\ f1 = [j \in Zipper |-> f1[j]] /\ g1 = [j \in Zipper |-> g1[j]]
      /\ \A j \in Zipper : j # i => f1[j] = f[j] /\ g1[j] = g[j]
  BY ViewsBut
<1>3. Contents' = Contents
  BY ViewsBut
<1> HIDE DEF f, f1, g, g1, x
<1>4. g1 = g
  BY <1>1, <1>2, NoneDiffers
<1>5. f1 = [f EXCEPT ![i] = x]
  BY <1>1, <1>2, OneDiffers
<1> QED BY <1>3, <1>4, <1>5, StoreForget DEF f, f1, g, g1, x

\* The beginning and the end of writing.
LEMMA PlaceStep ==
    ASSUME Good, Good', NEW i \in Zipper, SameSeen(heap, heap', {i}),
           \A j \in Zipper : j # i => Alike(zip[j], zip'[j]),
           ~Sharing(zip[i]), ~Sharing(zip'[i])
    PROVE  /\ Contents' = Contents /\ Views' = Views
           /\ Places' = [Places EXCEPT ![i] = Places'[i]]
<1> DEFINE f == Views
           f1 == Views'
           g == Places
           g1 == Places'
           x == Places'[i]
<1>1. f1[i] = f[i] /\ g1[i] = x
  BY ViewOf
<1>2. /\ f = [j \in Zipper |-> f[j]] /\ g = [j \in Zipper |-> g[j]]
      /\ f1 = [j \in Zipper |-> f1[j]] /\ g1 = [j \in Zipper |-> g1[j]]
      /\ \A j \in Zipper : j # i => f1[j] = f[j] /\ g1[j] = g[j]
  BY ViewsBut
<1>3. Contents' = Contents
  BY ViewsBut
<1> HIDE DEF f, f1, g, g1, x
<1>4. f1 = f
  BY <1>1, <1>2, NoneDiffers
<1>5. g1 = [g EXCEPT ![i] = x]
  BY <1>1, <1>2, OneDiffers
<1> QED BY <1>3, <1>4, <1>5 DEF f, f1, g, g1, x

\* Open zippers exclude one another, now.
LEMMA OpenExclusion == Good => OpenExclusive
BY OpenApart DEF OpenExclusive
\* So they do in the next state.
LEMMA OpenThen == Good' => OpenExclusive'
BY OpenExclusion, PTL

\* A zipper begins to write.
LEMMA BeginStep ==
    ASSUME Good, Good', NEW i \in Zipper, SameSeen(heap, heap', {i}),
           \A j \in Zipper : j # i => Alike(zip[j], zip'[j]),
           ~Sharing(zip[i]), ~OpenToWrite(zip[i]), ~Sharing(zip'[i]), OpenToWrite(zip'[i]),
           zip'[i].abs \in TriePath
    PROVE  [Store!StoreNext]_Store!storeVars
<1> DEFINE p == zip'[i].abs
<1>1. /\ Contents' = Contents /\ Views' = Views
      /\ Places' = [Places EXCEPT ![i] = Places'[i]]
  BY PlaceStep
<1>2. Places'[i] = p /\ Places[i] = NoZipper
  BY ViewOf
<1>3. ASSUME NEW j \in Zipper, Places[j] # NoZipper
      PROVE  ~IsPrefix(p, Places[j]) /\ ~IsPrefix(Places[j], p)
  <2>1. j # i /\ OpenToWrite(zip[j]) /\ Places[j] = zip[j].abs
    BY <1>2, <1>3, ViewOf
  <2>2. OpenToWrite(zip'[j]) /\ zip'[j].abs = zip[j].abs
    BY <2>1 DEF Alike, Like, OpenToWrite
  <2>3. i \in Writers' /\ j \in Writers' /\ j \notin Readers'
    BY <2>2 DEF Writers, Readers, Open, Is, OpenToWrite
  <2>4. OpenExclusive'
    BY OpenThen
  <2>5. ~Comparable(zip'[i].abs, zip'[j].abs)
    BY <2>1, <2>3, <2>4 DEF OpenExclusive
  <2> QED BY <2>1, <2>2, <2>5 DEF Comparable
<1>4. p \in TriePath
  OBVIOUS
<1>5. Places' = [Places EXCEPT ![i] = p]
  BY <1>1, <1>2
<1> HIDE DEF p
<1> QED BY <1>1, <1>2, <1>3, <1>4, <1>5, StoreBegin

\* A zipper writes no more.
LEMMA EndStep ==
    ASSUME Good, Good', NEW i \in Zipper, SameSeen(heap, heap', {i}),
           \A j \in Zipper : j # i => Alike(zip[j], zip'[j]),
           ~Sharing(zip[i]), ~Sharing(zip'[i]), ~OpenToWrite(zip'[i])
    PROVE  [Store!StoreNext]_Store!storeVars
<1>1. /\ Contents' = Contents /\ Views' = Views
      /\ Places' = [Places EXCEPT ![i] = Places'[i]]
  BY PlaceStep
<1>2. Places'[i] = NoZipper
  BY ViewOf
<1>3. Places' = [Places EXCEPT ![i] = NoZipper]
  BY <1>1, <1>2
<1> QED BY <1>1, <1>3, StoreEnd

-------------------------------------------------------------------------------
(* Writing.                                                                *)

\* What an owner has is a mapping to values, and so not mistaken for none.
LEMMA HasSomething ==
    ASSUME NEW h, HeapOK(h), NEW o, <<Roots, o>> \in Slots(h)
    PROVE  Has(h, o) # NoZipper
<1> DEFINE s == <<Roots, o>>
           U == Slots(h)
           x == At(h, s)
           S == Valued(h, x)
           u == ValuesBelow(h, x)
<1>1. \A t \in U : t \in Slots(h) /\ At(h, t) = At(h, t)
  OBVIOUS
<1>2. \A t \in U : \A b \in Byte : <<NodeIn(h, t), b>> \in Slots(h) => <<NodeIn(h, t), b>> \in U
  OBVIOUS
<1>3. s \in U
  OBVIOUS
<1>4. \A t \in U : At(h, t) \in CellType(h)
  BY HeapFacts
<1> HIDE DEF U, s
<1>5. \A r \in Seq(Byte) : CellBelow(h, x, r) = NoCell \/ \E t \in U : CellBelow(h, x, r) = At(h, t)
  BY <1>1, <1>2, <1>3, LookupAgrees
<1> HIDE DEF x
<1>6. \A r \in Seq(Byte) : Value(h, x, r) \in Val \cup {NoVal}
  BY <1>4, <1>5 DEF Value, CellType, NoCell
<1>7. u = [q \in S |-> Value(h, x, q)] /\ S \in SUBSET TriePath
  BY ValuesFacts DEF Valued
<1>8. \A q \in S : Value(h, x, q) \in Val
  BY <1>6, TriePathFacts DEF Valued
<1> HIDE DEF u, S
<1>9. u \in [S -> Val]
  BY <1>7, <1>8
<1>10. u # NoZipper
  BY <1>7, <1>9, NothingAssumption
<1> QED BY <1>10 DEF u, x, s, Has

\* A write is a write of the store, by a writer at or below its place.
LEMMA WriteStep ==
    ASSUME Good, Good', NEW i \in Writers, SameSeen(heap, heap', {"map"}),
           \A j \in Zipper : Alike(zip[j], zip'[j]),
           NEW p \in TriePath, Begins(zip[i].abs, p),
           \/ \E v \in Val : Contents' = Store!With(Contents, p, v)
           \/ Contents' = Store!Without(Contents, p)
           \/ \E q \in TriePath : Contents' = Store!Replaced(Contents, p, Store!SubStore(Contents, q))
           \/ \E j \in Zipper : Views[j] # NoZipper /\ Contents' = Store!Replaced(Contents, p, Views[j])
    PROVE  [Store!StoreNext]_Store!storeVars
<1>1. i \in Zipper /\ OpenToWrite(zip[i])
  BY DEF Writers, Open, Is, OpenToWrite
<1>2. zip[i].abs \in TriePath /\ zip[i].abs \in Seq(Byte)
  BY <1>1, ZipTypes DEF OpenToWrite
<1>3. Places[i] = zip[i].abs
  BY <1>1, ViewOf
<1>4. Places[i] # NoZipper /\ IsPrefix(Places[i], p)
  BY <1>2, <1>3, NothingAssumption, BeginsFacts, TriePathFacts
<1> DEFINE f == Views
           f1 == Views'
           g == Places
           g1 == Places'
<1>5. \A j \in Zipper : f1[j] = f[j] /\ g1[j] = g[j]
  <2> SUFFICES ASSUME NEW j \in Zipper
               PROVE  Views'[j] = Views[j] /\ Places'[j] = Places[j]
    OBVIOUS
  <2>1. j \notin {"map"}
    BY HeldCells
  <2> QED BY <2>1, SameView
<1>6. /\ f = [j \in Zipper |-> f[j]] /\ g = [j \in Zipper |-> g[j]]
      /\ f1 = [j \in Zipper |-> f1[j]] /\ g1 = [j \in Zipper |-> g1[j]]
  BY ViewsFacts, ViewsNext DEF Viewed, ViewsOf
<1> HIDE DEF f, f1, g, g1
<1>7. f1 = f /\ g1 = g
  BY <1>5, <1>6, NoneDiffers
<1>8. Views' = Views /\ Places' = Places
  BY <1>7 DEF f, f1, g, g1
<1> QED BY <1>1, <1>4, <1>8, StoreWrite

\* A step of a writer that changes no value.
LEMMA AlikeIdle ==
    ASSUME Good, Good', SameSeen(heap, heap', {"map"}), Contents' = Contents,
           \A j \in Zipper : Alike(zip[j], zip'[j])
    PROVE  [Store!StoreNext]_Store!storeVars
<1> DEFINE f == Views
           f1 == Views'
           g == Places
           g1 == Places'
<1>1. \A j \in Zipper : f1[j] = f[j] /\ g1[j] = g[j]
  <2> SUFFICES ASSUME NEW j \in Zipper
               PROVE  Views'[j] = Views[j] /\ Places'[j] = Places[j]
    OBVIOUS
  <2>1. j \notin {"map"}
    BY HeldCells
  <2> QED BY <2>1, SameView
<1>2. /\ f = [j \in Zipper |-> f[j]] /\ g = [j \in Zipper |-> g[j]]
      /\ f1 = [j \in Zipper |-> f1[j]] /\ g1 = [j \in Zipper |-> g1[j]]
  BY ViewsFacts, ViewsNext DEF Viewed, ViewsOf
<1> HIDE DEF f, f1, g, g1
<1>3. f1 = f /\ g1 = g
  BY <1>1, <1>2, NoneDiffers
<1> QED BY <1>3, StoreIdle DEF f, f1, g, g1

\* The contents are what the head's owner sees.
LEMMA ContentsSeen ==
    /\ Contents = ValuesBelow(heap, At(heap, HeadSlot))
    /\ Contents' = ValuesBelow(heap', At(heap', HeadSlot))
    /\ \A q : Value(heap, At(heap, HeadSlot), q) = Sees(heap, "map", q)
    /\ \A q : Value(heap', At(heap', HeadSlot), q) = Sees(heap', "map", q)
BY DEF Contents, Sees, HeadSlot

\* One value is set or removed.
LEMMA AssignStep ==
    ASSUME Good, Seen, Good', NEW i \in Writers, NEW r \in Seq(Byte), NEW v \in Val \cup {NoVal},
           Assigned(heap, heap', zip[i].abs \o r, v), Bounded(heap'),
           \A j \in Zipper : Alike(zip[j], zip'[j])
    PROVE  [Store!StoreNext]_Store!storeVars
<1> DEFINE p == zip[i].abs \o r
           h == heap
           k == heap'
           x == At(heap, HeadSlot)
           y == At(heap', HeadSlot)
<1>1. zip[i].abs \in Seq(Byte)
  BY ZipTypes DEF Writers, Open, Is
<1>2. p \in Seq(Byte) /\ Begins(zip[i].abs, p)
  BY <1>1, BeginsConcat
<1>3. /\ SameSeen(h, k, {"map"}) /\ Sees(k, "map", p) = v
      /\ \A q \in Seq(Byte) : q # p => Sees(k, "map", q) = Sees(h, "map", q)
  BY DEF Assigned
<1>4. <<Roots, "map">> \in Slots(k)
  <2>1. HeapOK(heap')
    BY DEF Good, Secure
  <2> QED BY <2>1, HeapFacts DEF HeadSlot
<1> HIDE DEF p
<1>5. p \notin TriePath => v = NoVal
  BY <1>2, <1>3, <1>4 DEF Bounded
<1>6. /\ Contents = ValuesBelow(h, x) /\ Contents' = ValuesBelow(k, y)
      /\ \A q : Value(h, x, q) = Sees(h, "map", q)
      /\ \A q : Value(k, y, q) = Sees(k, "map", q)
  BY ContentsSeen
<1> HIDE DEF x, y, h, k
<1>7. Value(k, y, p) = v /\ \A q \in TriePath : q # p => Value(k, y, q) = Value(h, x, q)
  BY <1>3, <1>6, TriePathFacts
<1>8. CASE p \in TriePath /\ v # NoVal
  <2>1. ValuesBelow(k, y) = Store!With(ValuesBelow(h, x), p, v)
    BY <1>7, <1>8, WithIs
  <2>2. v \in Val
    BY <1>8
  <2>3. \E w \in Val : Contents' = Store!With(Contents, p, w)
    BY <1>6, <2>1, <2>2
  <2> QED BY <1>2, <1>3, <1>8, <2>3, WriteStep DEF h, k
<1>9. CASE p \in TriePath /\ v = NoVal
  <2>1. ValuesBelow(k, y) = Store!Without(ValuesBelow(h, x), p)
    BY <1>7, <1>9, WithoutIs
  <2>2. Contents' = Store!Without(Contents, p)
    BY <1>6, <2>1
  <2> QED BY <1>2, <1>3, <1>9, <2>2, WriteStep DEF h, k
<1>10. CASE p \notin TriePath
  <2>1. \A q \in TriePath : Value(k, y, q) = Value(h, x, q)
    BY <1>7, <1>10
  <2>2. Contents' = Contents
    BY <1>6, <2>1, ValuesAgree
  <2> QED BY <1>3, <2>2, AlikeIdle DEF h, k
<1> QED BY <1>8, <1>9, <1>10

\* A graft.
LEMMA GraftedStep ==
    ASSUME Good, Seen, Good', NEW i \in Writers, NEW j \in Zipper,
           zip[i].abs \in TriePath, zip[j] # NoZipper, zip[j].stage \in {"open", "map"},
           Grafted(heap, heap', zip[i].abs, CellOf(j)), Bounded(heap'),
           \A e \in Zipper : Alike(zip[e], zip'[e])
    PROVE  [Store!StoreNext]_Store!storeVars
<1> DEFINE a == zip[i].abs
           h == heap
           k == heap'
           x == At(heap, HeadSlot)
           y == At(heap', HeadSlot)
           z == CellOf(j)
           m == "map"
<1>1. a \in Seq(Byte)
  BY TriePathFacts
<1>2. /\ SameSeen(h, k, {"map"})
      /\ \A r \in Seq(Byte) : Sees(k, "map", a \o r) = Value(h, z, r)
      /\ \A q \in Seq(Byte) : ~Begins(a, q) => Sees(k, "map", q) = Sees(h, "map", q)
  BY DEF Grafted
<1>3. <<Roots, m>> \in Slots(k)
  <2>1. HeapOK(heap')
    BY DEF Good, Secure
  <2> QED BY <2>1, HeapFacts DEF HeadSlot
<1>4. \A q \in Seq(Byte) : Sees(k, m, q) # NoVal => q \in TriePath
  BY <1>3 DEF Bounded
<1>5. /\ Contents = ValuesBelow(h, x) /\ Contents' = ValuesBelow(k, y)
      /\ \A q : Value(h, x, q) = Sees(h, "map", q)
      /\ \A q : Value(k, y, q) = Sees(k, "map", q)
  BY ContentsSeen
<1>6. /\ \A q \in Seq(Byte) : Value(h, z, q) # NoVal => q \in TriePath
      /\ Sharing(zip[j]) => \A q \in Seq(Byte) : Value(h, z, q) = Sees(h, j, q)
      /\ Sharing(zip[j]) \/ Writing(zip[j])
      /\ Writing(zip[j]) => \A q \in Seq(Byte) : Value(h, z, q) = Sees(h, "map", zip[j].abs \o q)
  BY SlotSees
<1>7. a \in TriePath /\ Begins(a, a)
  BY <1>1 DEF Begins
<1> HIDE DEF a
<1> HIDE DEF x, y, z, h, k
<1>8. ValuesBelow(k, y) = Store!Replaced(ValuesBelow(h, x), a, ValuesBelow(h, z))
  <2>1. \A q \in Seq(Byte) : Value(k, y, q) # NoVal => q \in TriePath
    BY <1>4, <1>5
  <2>2. \A r \in Seq(Byte) : Value(k, y, a \o r) = Value(h, z, r)
    BY <1>2, <1>5
  <2>3. \A q \in Seq(Byte) : ~Begins(a, q) => Value(k, y, q) = Value(h, x, q)
    BY <1>2, <1>5
  <2>4. \A q \in Seq(Byte) : Value(h, z, q) # NoVal => q \in TriePath
    BY <1>6
  <2> QED BY <1>1, <2>1, <2>2, <2>3, <2>4, ReplacedIs
<1>9. CASE Sharing(zip[j])
  <2>1. \A q \in TriePath : Value(h, z, q) = Value(h, At(h, <<Roots, j>>), q)
    BY <1>6, <1>9, TriePathFacts DEF Sees
  <2>2. ValuesBelow(h, z) = Has(h, j)
    BY <2>1, ValuesAgree DEF Has
  <2>3. Views[j] = Has(heap, j)
    BY <1>9, ViewOf
  <2>4. <<Roots, j>> \in Slots(heap) /\ HeapOK(heap)
    BY <1>9, HeldCells, GoodFacts
  <2>5. Views[j] # NoZipper
    BY <2>3, <2>4, HasSomething
  <2>6. Contents' = Store!Replaced(Contents, a, Views[j])
    BY <1>5, <1>8, <2>2, <2>3 DEF h
  <2>7. \E e \in Zipper : Views[e] # NoZipper /\ Contents' = Store!Replaced(Contents, a, Views[e])
    BY <2>5, <2>6
  <2> QED BY <1>2, <1>7, <2>7, WriteStep DEF h, k, a
<1>10. CASE Writing(zip[j])
  <2> DEFINE b == zip[j].abs
  <2>1. b \in TriePath /\ b \in Seq(Byte)
    BY ZipTypes
  <2>2. \A q \in TriePath : Value(h, z, q) = Sees(h, "map", b \o q)
    BY <1>6, <1>10, TriePathFacts
  <2> HIDE DEF b
  <2>3. \A q \in TriePath : Value(h, z, q) = Value(h, x, b \o q)
    BY <1>5, <2>2
  <2>4. \A q \in Seq(Byte) : Value(h, x, q) # NoVal => q \in TriePath
    <3>1. <<Roots, m>> \in Slots(h)
      BY HeldCells DEF h, HeadSlot
    <3>2. \A q \in Seq(Byte) : Sees(h, m, q) # NoVal => q \in TriePath
      BY <3>1 DEF Seen, Bounded, h
    <3> QED BY <1>5, <3>2
  <2>5. ValuesBelow(h, z) = Store!SubStore(ValuesBelow(h, x), b)
    BY <2>1, <2>3, <2>4, SubStoreIs
  <2>6. \E q \in TriePath : Contents' = Store!Replaced(Contents, a, Store!SubStore(Contents, q))
    BY <1>5, <1>8, <2>1, <2>5
  <2> QED BY <1>2, <1>7, <2>6, WriteStep DEF h, k, a
<1> QED BY <1>6, <1>9, <1>10

-------------------------------------------------------------------------------
(* The refinement.                                                         *)

\* Every step of a zipper is a step of the store, or nobody sees it.
LEMMA StepImplements ==
    ASSUME Good, Seen, Good', NEW i \in Zipper, ZipperStep(i)
    PROVE  [Store!StoreNext]_Store!storeVars
<1>0. /\ \A x : OpenToWrite(x) => Writing(x) /\ ~Sharing(x)
      /\ ~Sharing(NoZipper) /\ ~OpenToWrite(NoZipper)
  BY DEF OpenToWrite, Writing, Sharing
<1>1. CASE \E p \in head.paths, mode \in L!Mode : Request(i, p, mode)
  <2>1. /\ heap' = heap /\ zip[i] = NoZipper /\ \A j \in Zipper : j # i => zip'[j] = zip[j]
        /\ ~Writing(zip'[i]) /\ ~Sharing(zip'[i])
    BY <1>1, RequestEffect
  <2>2. SameSeen(heap, heap', {i}) /\ \A j \in Zipper : j # i => Alike(zip[j], zip'[j])
    BY <2>1 DEF SameSeen, Alike, Like
  <2> QED BY <1>0, <2>1, <2>2, IdleStep
<1>2. CASE EnterRead(i)
  <2> DEFINE p == zip'[i].abs
             h == heap
             k == heap'
             x == At(heap, HeadSlot)
             y == At(heap', <<Roots, i>>)
             m == "map"
  <2>1. /\ SameSeen(h, k, {i})
        /\ \A j \in Zipper : j # i => Alike(zip[j], zip'[j])
        /\ zip[i] # NoZipper /\ zip[i].stage = "asking"
        /\ zip'[i] # NoZipper /\ zip'[i].mode = "read" /\ zip'[i].stage = "open"
        /\ p \in TriePath
        /\ \A q \in Seq(Byte) : Sees(k, i, q) = Sees(h, m, p \o q)
    BY <1>2, EnterReadEffect
  <2>2. /\ ~Sharing(zip[i]) /\ ~OpenToWrite(zip[i]) /\ Sharing(zip'[i]) /\ ~OpenToWrite(zip'[i])
    BY <2>1 DEF Sharing, OpenToWrite
  <2>3. <<Roots, m>> \in Slots(h)
    BY HeldCells DEF HeadSlot
  <2>4. \A q \in Seq(Byte) : Sees(h, m, q) # NoVal => q \in TriePath
    BY <2>3 DEF Seen, Bounded
  <2>5. /\ Contents = ValuesBelow(h, x)
        /\ \A q : Value(h, x, q) = Sees(h, m, q)
    BY ContentsSeen
  <2>6. /\ Has(k, i) = ValuesBelow(k, y)
        /\ \A q : Value(k, y, q) = Sees(k, i, q)
    BY DEF Has, Sees
  <2> HIDE DEF p, x, y, h, k, m
  <2>7. p \in Seq(Byte)
    BY <2>1, TriePathFacts
  <2>8. \A q \in Seq(Byte) : Value(h, x, q) # NoVal => q \in TriePath
    BY <2>4, <2>5
  <2>9. \A q \in TriePath : Value(k, y, q) = Value(h, x, p \o q)
    BY <2>1, <2>5, <2>6, TriePathFacts
  <2>10. ValuesBelow(k, y) = Store!SubStore(ValuesBelow(h, x), p)
    BY <2>7, <2>8, <2>9, SubStoreIs
  <2>11. \E q \in TriePath : Has(heap', i) = Store!SubStore(Contents, q)
    BY <2>1, <2>5, <2>6, <2>10 DEF k
  <2> QED BY <2>1, <2>2, <2>11, LookStep DEF h, k
<1>3. CASE EnterWrite(i)
  <2>1. /\ SameSeen(heap, heap', {})
        /\ \A j \in Zipper : j # i => Alike(zip[j], zip'[j])
        /\ zip[i] # NoZipper /\ zip[i].stage = "asking"
        /\ zip'[i] # NoZipper /\ zip'[i].mode = "write" /\ zip'[i].stage = "open"
        /\ zip'[i].abs \in TriePath
    BY <1>3, EnterWriteEffect
  <2>2. SameSeen(heap, heap', {i})
    BY <2>1, SeenMore
  <2>3. ~Sharing(zip[i]) /\ ~OpenToWrite(zip[i]) /\ ~Sharing(zip'[i]) /\ OpenToWrite(zip'[i])
    BY <2>1 DEF Sharing, OpenToWrite
  <2> QED BY <2>1, <2>2, <2>3, BeginStep
<1>4. CASE \E r \in {<<>>} \cup {<<b>> : b \in Byte}, v \in Val : Set(i, r, v)
  <2>1. PICK r \in {<<>>} \cup {<<b>> : b \in Byte}, v \in Val : Set(i, r, v)
    BY <1>4
  <2>2. <<>> \in Seq(Byte) /\ \A b \in Byte : <<b>> \in Seq(Byte)
    OBVIOUS
  <2>3. r \in Seq(Byte)
    BY <2>2
  <2>4. i \in Writers /\ Assigned(heap, heap', zip[i].abs \o r, v) /\ Bounded(heap')
        /\ \A j \in Zipper : Alike(zip[j], zip'[j])
    BY <2>1, <2>3, SetEffect
  <2> QED BY <2>3, <2>4, AssignStep
<1>5. CASE RemoveRootVal(i)
  <2> DEFINE r == <<>>
             v == NoVal
  <2>1. i \in Writers /\ Assigned(heap, heap', zip[i].abs, v) /\ Bounded(heap')
        /\ \A j \in Zipper : Alike(zip[j], zip'[j])
    BY <1>5, RemoveRootValEffect
  <2>2. zip[i].abs \in Seq(Byte)
    BY <2>1, ZipTypes DEF Writers, Open, Is
  <2>3. r \in Seq(Byte) /\ zip[i].abs \o r = zip[i].abs
    BY <2>2
  <2>4. v \in Val \cup {NoVal}
    OBVIOUS
  <2> HIDE DEF r, v
  <2>5. Assigned(heap, heap', zip[i].abs \o r, v)
    BY <2>1, <2>3
  <2>6. r \in Seq(Byte)
    BY <2>3
  <2> QED BY <2>1, <2>4, <2>5, <2>6, AssignStep
<1>6. CASE \E b \in Byte : RemoveValBelow(i, b)
  <2>1. PICK b \in Byte : RemoveValBelow(i, b)
    BY <1>6
  <2> DEFINE r == <<b>>
             v == NoVal
  <2>2. /\ i \in Writers
        /\ Assigned(heap, heap', Append(zip[i].abs, b), v) /\ Bounded(heap')
        /\ \A j \in Zipper : Alike(zip[j], zip'[j])
    BY <2>1, RemoveValBelowEffect
  <2>3. zip[i].abs \in Seq(Byte)
    BY <2>2, ZipTypes DEF Writers, Open, Is
  <2>4. r \in Seq(Byte) /\ zip[i].abs \o r = Append(zip[i].abs, b)
    BY <2>3
  <2>5. v \in Val \cup {NoVal}
    OBVIOUS
  <2> HIDE DEF r, v
  <2>6. Assigned(heap, heap', zip[i].abs \o r, v)
    BY <2>2, <2>4
  <2>7. r \in Seq(Byte)
    BY <2>4
  <2> QED BY <2>2, <2>5, <2>6, <2>7, AssignStep
<1>7. CASE \E j \in Zipper : Graft(i, j)
  <2>1. PICK j \in Zipper : Graft(i, j)
    BY <1>7
  <2>2. /\ i \in Writers /\ zip[i].abs \in TriePath
        /\ zip[j] # NoZipper /\ zip[j].stage \in {"open", "map"}
        /\ Grafted(heap, heap', zip[i].abs, CellOf(j)) /\ Bounded(heap')
        /\ \A e \in Zipper : Alike(zip[e], zip'[e])
    BY <2>1, GraftEffect
  <2> QED BY <2>2, GraftedStep
<1>8. CASE \E j \in Zipper : MakeMap(i, j)
  <2>1. PICK j \in Zipper : MakeMap(i, j)
    BY <1>8
  <2> DEFINE h == heap
             k == heap'
             x == At(heap, HeadSlot)
             y == At(heap', <<Roots, j>>)
             z == CellOf(i)
             m == "map"
  <2>2. /\ SameSeen(h, k, {j})
        /\ \A e \in Zipper : e # j => Alike(zip[e], zip'[e])
        /\ zip[j] = NoZipper /\ zip[i] # NoZipper /\ zip[i].stage = "open"
        /\ zip'[j] # NoZipper /\ zip'[j].mode = "read" /\ zip'[j].stage = "map"
        /\ \A q \in Seq(Byte) : Sees(k, j, q) = Value(h, z, q)
    BY <2>1, MakeMapEffect
  <2>3. ~Sharing(zip[j]) /\ ~OpenToWrite(zip[j]) /\ Sharing(zip'[j]) /\ ~OpenToWrite(zip'[j])
    BY <2>2 DEF Sharing, OpenToWrite
  <2>4. /\ Sharing(zip[i]) => \A q \in Seq(Byte) : Value(h, z, q) = Sees(h, i, q)
        /\ Sharing(zip[i]) \/ Writing(zip[i])
        /\ Writing(zip[i]) => \A q \in Seq(Byte) : Value(h, z, q) = Sees(h, m, zip[i].abs \o q)
    BY <2>2, SlotSees
  <2>5. <<Roots, m>> \in Slots(h)
    BY HeldCells DEF HeadSlot
  <2>6. \A q \in Seq(Byte) : Sees(h, m, q) # NoVal => q \in TriePath
    BY <2>5 DEF Seen, Bounded
  <2>7. /\ Contents = ValuesBelow(h, x)
        /\ \A q : Value(h, x, q) = Sees(h, m, q)
    BY ContentsSeen
  <2>8. /\ Has(k, j) = ValuesBelow(k, y)
        /\ \A q : Value(k, y, q) = Sees(k, j, q)
    BY DEF Has, Sees
  <2> HIDE DEF x, y, h, k, m, z
  <2>9. CASE Sharing(zip[i])
    <3>1. \A q \in TriePath : Value(k, y, q) = Value(h, At(h, <<Roots, i>>), q)
      BY <2>2, <2>4, <2>8, <2>9, TriePathFacts DEF Sees
    <3>2. Has(k, j) = Has(h, i)
      BY <2>8, <3>1, ValuesAgree DEF Has
    <3>3. Views[i] = Has(heap, i)
      BY <2>9, ViewOf
    <3>4. \E e \in Zipper : Has(heap', j) = Views[e]
      BY <3>2, <3>3 DEF h, k
    <3> QED BY <2>2, <2>3, <3>4, LookStep DEF h, k
  <2>10. CASE Writing(zip[i])
    <3> DEFINE b == zip[i].abs
    <3>1. b \in TriePath /\ b \in Seq(Byte)
      BY <2>2, ZipTypes
    <3>2. \A q \in TriePath : Value(k, y, q) = Sees(h, m, b \o q)
      BY <2>2, <2>4, <2>8, <2>10, TriePathFacts
    <3> HIDE DEF b
    <3>3. \A q \in TriePath : Value(k, y, q) = Value(h, x, b \o q)
      BY <2>7, <3>2
    <3>4. \A q \in Seq(Byte) : Value(h, x, q) # NoVal => q \in TriePath
      BY <2>6, <2>7
    <3>5. ValuesBelow(k, y) = Store!SubStore(ValuesBelow(h, x), b)
      BY <3>1, <3>3, <3>4, SubStoreIs
    <3>6. \E q \in TriePath : Has(heap', j) = Store!SubStore(Contents, q)
      BY <2>7, <2>8, <3>1, <3>5 DEF k
    <3> QED BY <2>2, <2>3, <3>6, LookStep DEF h, k
  <2> QED BY <2>4, <2>9, <2>10
<1>9. CASE IntoReader(i)
  BY <1>9 DEF IntoReader, Good, Disciplined
<1>10. CASE DropShare(i)
  <2>1. /\ SameSeen(heap, heap', {i}) /\ zip'[i] = NoZipper /\ Sharing(zip[i])
        /\ \A j \in Zipper : j # i => Alike(zip[j], zip'[j])
    BY <1>10, DropShareEffect
  <2>2. ~OpenToWrite(zip[i])
    BY <2>1 DEF Sharing, OpenToWrite
  <2> QED BY <1>0, <2>1, <2>2, ForgetStep
<1>11. CASE DropWriter(i) \/ Leave(i)
  <2>1. /\ heap' = heap /\ \A j \in Zipper : j # i => zip'[j] = zip[j]
        /\ ~(zip'[i] # NoZipper /\ zip'[i].stage \in {"open", "map"})
        /\ i \in Writers
    BY <1>11, WriterGoes
  <2>2. SameSeen(heap, heap', {i}) /\ \A j \in Zipper : j # i => Alike(zip[j], zip'[j])
    BY <2>1 DEF SameSeen, Alike, Like
  <2>3. ~Sharing(zip'[i]) /\ ~OpenToWrite(zip'[i]) /\ ~Sharing(zip[i])
    BY <2>1 DEF Sharing, OpenToWrite, Writers, Open, Is
  <2> QED BY <2>2, <2>3, EndStep
<1>12. CASE Cleanup(i)
  <2>1. /\ SameSeen(heap, heap', {}) /\ zip'[i] = NoZipper
        /\ zip[i] # NoZipper /\ zip[i].stage = "leaving"
        /\ \A j \in Zipper : j # i => Alike(zip[j], zip'[j])
    BY <1>12, CleanupEffect
  <2>2. SameSeen(heap, heap', {i})
    BY <2>1, SeenMore
  <2>3. ~Sharing(zip[i]) /\ ~OpenToWrite(zip[i]) /\ ~Sharing(zip'[i]) /\ ~OpenToWrite(zip'[i])
    BY <1>0, <2>1 DEF Sharing, OpenToWrite
  <2> QED BY <2>1, <2>2, <2>3, IdleStep
<1> QED BY <1>1, <1>2, <1>3, <1>4, <1>5, <1>6, <1>7, <1>8, <1>9, <1>10, <1>11, <1>12 DEF ZipperStep

\* At the start the store is empty and nobody looks.
LEMMA InitImplements ==
    ASSUME Init
    PROVE  Store!StoreInit
<1>1. HeapOK(heap) /\ Barren(heap)
  BY InitHeap
<1>2. HeadSlot \in Slots(heap)
  BY <1>1, HeapFacts
<1>3. \A p \in TriePath : CellBelow(heap, At(heap, HeadSlot), p).val = NoVal
  BY <1>1, <1>2, TriePathFacts DEF Barren
<1> DEFINE x == At(heap, HeadSlot)
           S == Valued(heap, x)
<1>4. S = {}
  BY <1>3 DEF Valued, Value
<1>5. Contents = [q \in S |-> Value(heap, x, q)]
  BY ValuesFacts DEF Contents
<1> HIDE DEF x, S
<1>6. Contents = <<>>
  BY <1>4, <1>5
<1>7. \A i \in Zipper : zip[i] = NoZipper
  BY DEF Init
<1>8. \A i \in Zipper : ~(i \in Readers \/ Is(i, "map")) /\ i \notin Writers
  BY <1>7 DEF Readers, Writers, Open, Is
<1>9. Views = [i \in Zipper |-> NoZipper]
  BY <1>8 DEF Views
<1>10. Places = [i \in Zipper |-> NoZipper]
  BY <1>8 DEF Places
<1> QED BY <1>6, <1>9, <1>10 DEF Store!StoreInit

\* The same of any step.
LEMMA NextImplements ==
    ASSUME Disciplined(head), SeenInv, SeenInv', [Next]_vars
    PROVE  Disciplined(head)' /\ [Store!StoreNext]_Store!storeVars
<1>1. CASE Next
  <2>1. PICK i \in Zipper : ZipperStep(i) /\ head' = head
    BY <1>1 DEF Next
  <2>2. Disciplined(head')
    BY <2>1
  <2>3. Good /\ Seen
    BY DEF SeenInv, HeadInv, Good
  <2>4. Good'
    BY <2>2 DEF SeenInv, HeadInv, Good
  <2> QED BY <2>1, <2>2, <2>3, <2>4, StepImplements
<1>2. CASE UNCHANGED vars
  <2>1. Disciplined(head')
    BY <1>2 DEF vars
  <2>2. Contents' = Contents /\ Views' = Views /\ Places' = Places
    BY <1>2 DEF vars, Contents, Views, Places, Readers, Writers, Open, Is, CellOf
  <2> QED BY <2>1, <2>2, StoreIdle
<1> QED BY <1>1, <1>2

\* Under the discipline of the documentation the head, its zippers and the maps made from them
\* are the mapping PathStore describes: preparing paths, copying and sharing nodes, and cleaning
\* up are seen by nobody, a write changes what is below its writer's place, and what a reader or
\* map has never changes (zipper_head.rs, make_unique).
THEOREM HeadImplementsStore == Spec /\ Disciplined(head) => ImplementsStore
<1>1. Init => Store!StoreInit
  BY InitImplements
<1>2. Disciplined(head) /\ SeenInv /\ SeenInv' /\ [Next]_vars
      => Disciplined(head)' /\ [Store!StoreNext]_Store!storeVars
  BY NextImplements
<1> QED BY <1>1, <1>2, SeenInvariant, PTL DEF Spec, ImplementsStore, Store!StoreSpec

-------------------------------------------------------------------------------
(* Fruitful paths.                                                         *)

\* The part of graft that is about nodes.
LEMMA GraftNodeLeads ==
    ASSUME NEW h, HeapOK(h), NEW a \in Seq(Byte), NEW c, Chain(h, a, c),
           NEW t \in Slots(h), OffChain(c, Len(a) - 1, t), NEW x, x = At(h, t),
           NEW s, s = Stop(c, Len(a)), NEW own, own = At(h, s),
           NEW k, k = CASE ~IsEmpty(h, x.rec) -> WithCell(h, s, [own EXCEPT !.rec = x.rec])
                        [] IsEmpty(h, x.rec) /\ ~IsEmpty(h, own.rec) -> Allocate(h, s, EmptyNode)
                        [] OTHER -> h
    PROVE  Grafts(h, k, a, x)
<1>1. Len(a) \in 0..Len(a) /\ Begins(a, a)
  BY DEF Begins
<1>2. s \in Slots(h)
  BY <1>1 DEF Chain
<1>3. own \in CellType(h) /\ x \in CellType(h) /\ x.rec = NodeIn(h, t)
  BY <1>2, HeapFacts DEF NodeIn
<1>4. CASE ~IsEmpty(h, x.rec)
  <2> DEFINE d == [own EXCEPT !.rec = x.rec]
  <2>1. k = WithCell(h, Stop(c, Len(a)), d)
    BY <1>4
  <2>2. d \in CellType(h) /\ d.rec = x.rec
    BY <1>3 DEF CellType
  <2> HIDE DEF d
  <2>3. \A n \in 0..(Len(a) - 1) : d.rec # NodeIn(h, Stop(c, n))
    BY <1>3, <2>2, NodeOff
  <2>4. d \in CellType(h)
    BY <2>2
  <2>5. d.rec = x.rec
    BY <2>2
  <2> QED BY <2>1, <2>3, <2>4, <2>5, WriteGrafts
<1>5. ASSUME IsEmpty(h, own.rec), NEW f, f = h
      PROVE  Grafts(h, f, a, x)
  <2> DEFINE m == At(h, HeadSlot)
  <2>1. CellBelow(h, m, a) = own
    BY <1>1, CellBelowChain
  <2>2. ASSUME NEW p \in Seq(Byte), NEW b \in Byte, Leads(h, "map", p, b), Begins(a, p)
        PROVE  FALSE
    <3>1. PICK r \in Seq(Byte) : p = a \o r
      BY <2>2, BeginsRest
    <3>2. On(h, CellBelow(h, m, p), b)
      BY <2>2 DEF Leads, HeadSlot
    <3> HIDE DEF m
    <3>3. CellBelow(h, m, p) = CellBelow(h, own, r)
      BY <2>1, <3>1, CellBelowConcat
    <3> QED BY <1>5, <3>2, <3>3, EmptyLeads
  <2> QED BY <1>5, <2>2 DEF Grafts
<1>6. CASE IsEmpty(h, x.rec) /\ ~IsEmpty(h, own.rec)
  <2>1. k = Allocate(h, s, EmptyNode)
    BY <1>6
  <2> DEFINE m == NodeIn(k, s)
  <2>2. /\ HeapOK(k)
        /\ m \notin DOMAIN h /\ m # NoNode
        /\ \A u : u \in Slots(k) <=> u \in Slots(h)
        /\ \A u \in Slots(h) : u # s => At(k, u) = At(h, u)
    BY <1>2, <2>1, EmptyPut
  <2>3. \A b : <<m, b>> \notin Slots(k)
    BY <2>2, SlotsDef
  <2> HIDE DEF m
  <2>4. \A u \in Slots(k) : /\ u \in Slots(h)
                            /\ NodeIn(k, u) = NodeIn(h, u) \/ \A b : <<NodeIn(k, u), b>> \notin Slots(k)
    BY <2>2, <2>3 DEF NodeIn, m
  <2>5. Adds(h, k, <<>>)
    BY <2>2, <2>4, FewerAdds
  <2>6. Chain(k, a, c)
    <3>1. k = Allocate(h, Stop(c, Len(a)), EmptyNode)
      BY <2>1
    <3> QED BY <3>1, EmptySeen
  <2>7. ASSUME NEW p \in Seq(Byte), NEW b \in Byte, Leads(k, "map", p, b), Begins(a, p)
        PROVE  FALSE
    <3> DEFINE e == At(k, HeadSlot)
               w == At(k, s)
    <3>1. PICK r \in Seq(Byte) : p = a \o r
      BY <2>7, BeginsRest
    <3>2. On(k, CellBelow(k, e, p), b)
      BY <2>7 DEF Leads, HeadSlot
    <3>3. CellBelow(k, e, a) = w
      BY <1>1, <2>2, <2>6, CellBelowChain
    <3> HIDE DEF e, w
    <3>5. CellBelow(k, e, p) = CellBelow(k, w, r)
      BY <3>1, <3>3, CellBelowConcat
    <3>6. s \in Slots(k)
      BY <1>2, <2>2
    <3>7. ~On(k, CellBelow(k, At(k, s), r), b)
      <4>1. \A e1 \in Byte : <<NodeIn(k, s), e1>> \notin Slots(k)
        BY <2>3 DEF m
      <4> QED BY <2>2, <3>6, <4>1, BareLeads
    <3> QED BY <3>2, <3>5, <3>7 DEF w
  <2>8. ASSUME NEW o, NEW p \in Seq(Byte), NEW b \in Byte, Leads(k, o, p, b)
        PROVE  Leads(h, o, p, b)
    <3>1. Leads(h, o, p, b) \/ (o = "map" /\ Begins(Append(p, b), <<>>))
      BY <2>5, <2>8 DEF Adds
    <3>2. Len(Append(p, b)) = Len(p) + 1 /\ Len(p) \in Nat /\ Len(<<>>) = 0
      OBVIOUS
    <3> QED BY <3>1, <3>2 DEF Begins
  <2> QED BY <2>7, <2>8 DEF Grafts
<1>7. CASE IsEmpty(h, x.rec) /\ IsEmpty(h, own.rec)
  <2>1. k = h
    BY <1>7
  <2> QED BY <1>5, <1>7, <2>1
<1> QED BY <1>4, <1>6, <1>7

\* Does owner o see a value at path q or below it?  Is a writer at work there?
Bears(h, o, q) == \E r \in Seq(Byte) : Sees(h, o, q \o r) # NoVal
Awaited(z, q) == \E i \in Zipper : Writing(z[i]) /\ Begins(q, z[i].abs)
Fruitful(h, z, o, q) == Bears(h, o, q) \/ (o = "map" /\ Awaited(z, q))

\* No owner has a path without fruit.
Tended(h, z) ==
    \A o : \A p \in Seq(Byte) : \A b \in Byte : Leads(h, o, p, b) => Fruitful(h, z, o, Append(p, b))

\* A value at the end of a path is the fruit of its beginnings.
LEMMA BearsValue ==
    ASSUME NEW h, NEW o, NEW q \in Seq(Byte), NEW a \in Seq(Byte), Begins(q, a), Sees(h, o, a) # NoVal
    PROVE  Bears(h, o, q)
<1>1. PICK r \in Seq(Byte) : a = q \o r
  BY BeginsRest
<1> QED BY <1>1 DEF Bears

\* The fruit of a path is a value at the end of one that it begins.
LEMMA BearsWhere ==
    ASSUME NEW h, NEW o, NEW q \in Seq(Byte), Bears(h, o, q)
    PROVE  \E a \in Seq(Byte) : Begins(q, a) /\ Sees(h, o, a) # NoVal
<1>1. PICK r \in Seq(Byte) : Sees(h, o, q \o r) # NoVal
  BY DEF Bears
<1>2. q \o r \in Seq(Byte) /\ Begins(q, q \o r)
  BY ConcatFacts
<1> QED BY <1>1, <1>2

\* Beginnings of beginnings.
LEMMA BeginsTrans ==
    ASSUME NEW p \in Seq(Byte), NEW q \in Seq(Byte), NEW a \in Seq(Byte), Begins(p, q), Begins(q, a)
    PROVE  Begins(p, a)
<1>1. PICK r \in Seq(Byte) : q = p \o r
  BY BeginsRest
<1> QED BY <1>1, BeginsLess

\* A path one longer does not begin what its beginning ends; its beginning begins it.
LEMMA BeginsAppend ==
    ASSUME NEW p \in Seq(Byte), NEW b \in Byte
    PROVE  /\ Append(p, b) \in Seq(Byte) /\ Begins(p, Append(p, b))
           /\ ~Begins(Append(p, b), p) /\ ~Begins(Append(p, b), <<>>)
<1>1. Len(Append(p, b)) = Len(p) + 1 /\ Len(p) \in Nat /\ Append(p, b) \in Seq(Byte)
  OBVIOUS
<1>2. \A k \in 1..Len(p) : Append(p, b)[k] = p[k]
  OBVIOUS
<1>3. Len(<<>>) = 0
  OBVIOUS
<1> QED BY <1>1, <1>2, <1>3 DEF Begins

\* What an owner sees as before bears what it bore.
LEMMA BearsKept ==
    ASSUME NEW h, NEW g, NEW O, SameSeen(h, g, O), NEW o, o \notin O, <<Roots, o>> \in Slots(h),
           NEW q \in Seq(Byte), Bears(h, o, q)
    PROVE  Bears(g, o, q)
<1>1. PICK a \in Seq(Byte) : Begins(q, a) /\ Sees(h, o, a) # NoVal
  BY BearsWhere
<1>2. Sees(g, o, a) = Sees(h, o, a)
  BY DEF SameSeen
<1> QED BY <1>1, <1>2, BearsValue

\* A writer of which nothing changes remains one, at its path.
LEMMA AlikeWriter ==
    ASSUME NEW x, NEW y, Alike(x, y), Writing(x)
    PROVE  Writing(y) /\ y.abs = x.abs
BY DEF Alike, Like, Writing

\* What is awaited remains so as long as the writers remain.
LEMMA AwaitedKept ==
    ASSUME NEW z, NEW y, \A j \in Zipper : Writing(z[j]) => Alike(z[j], y[j]), NEW q, Awaited(z, q)
    PROVE  Awaited(y, q)
<1>1. PICK j \in Zipper : Writing(z[j]) /\ Begins(q, z[j].abs)
  BY DEF Awaited
<1>2. Writing(y[j]) /\ y[j].abs = z[j].abs
  BY <1>1, AlikeWriter
<1> QED BY <1>1, <1>2 DEF Awaited

\* The beginnings of a path that is awaited are awaited.
LEMMA AwaitedLess ==
    ASSUME NEW z, \A j \in Zipper : Writing(z[j]) => z[j].abs \in Seq(Byte),
           NEW a \in Seq(Byte), Awaited(z, a), NEW q \in Seq(Byte), Begins(q, a)
    PROVE  Awaited(z, q)
<1>1. PICK j \in Zipper : Writing(z[j]) /\ Begins(a, z[j].abs)
  BY DEF Awaited
<1>2. z[j].abs \in Seq(Byte)
  BY <1>1
<1>3. Begins(q, z[j].abs)
  BY <1>1, <1>2, BeginsTrans
<1> QED BY <1>1, <1>3 DEF Awaited

\* A step of zipper i, which does not write: what the others see stays as it was, and new
\* paths are the beginnings of one that is awaited, or bear.
LEMMA TendQuiet ==
    ASSUME Good, Tended(heap, zip), NEW i \in Zipper, ~Writing(zip[i]),
           \A j \in Zipper : j # i => Alike(zip[j], zip'[j]), SameSeen(heap, heap', {i}),
           NEW y, y = zip', \A j \in Zipper : Writing(y[j]) => y[j].abs \in Seq(Byte),
           NEW a \in Seq(Byte), a = <<>> \/ Awaited(y, a), NEW g, g = heap',
           \A o : \A p \in Seq(Byte) : \A b \in Byte : Leads(g, o, p, b) =>
              \/ o # i /\ Leads(heap, o, p, b)
              \/ o = "map" /\ Begins(Append(p, b), a)
              \/ Bears(g, o, Append(p, b))
    PROVE  Tended(g, y)
<1>1. SUFFICES ASSUME NEW o, NEW p \in Seq(Byte), NEW b \in Byte, Leads(g, o, p, b),
                      NEW q, q = Append(p, b)
               PROVE  Fruitful(g, y, o, q)
  BY DEF Tended
<1>2. q \in Seq(Byte) /\ ~Begins(q, <<>>)
  BY <1>1, BeginsAppend
<1>3. CASE o # i /\ Leads(heap, o, p, b)
  <2>1. Fruitful(heap, zip, o, q)
    BY <1>1, <1>3 DEF Tended
  <2>2. CASE Bears(heap, o, q)
    <3>1. <<Roots, o>> \in Slots(heap)
      BY <1>3 DEF Leads
    <3>2. o \notin {i}
      BY <1>3
    <3>3. Bears(g, o, q)
      BY <1>2, <2>2, <3>1, <3>2, BearsKept
    <3> QED BY <3>3 DEF Fruitful
  <2>3. CASE o = "map" /\ Awaited(zip, q)
    <3>1. \A j \in Zipper : Writing(zip[j]) => Alike(zip[j], y[j])
      OBVIOUS
    <3>2. Awaited(y, q)
      BY <2>3, <3>1, AwaitedKept
    <3> QED BY <2>3, <3>2 DEF Fruitful
  <2> QED BY <2>1, <2>2, <2>3 DEF Fruitful
<1>4. CASE o = "map" /\ Begins(q, a)
  <2>1. a # <<>>
    BY <1>2, <1>4
  <2>2. Awaited(y, q)
    BY <1>2, <1>4, <2>1, AwaitedLess
  <2> QED BY <1>4, <2>2 DEF Fruitful
<1>5. CASE Bears(g, o, q)
  BY <1>5 DEF Fruitful
<1> QED BY <1>1, <1>3, <1>4, <1>5

\* A step of a writer: what the others see stays as it was; what is new, and what has lost its
\* fruit, bears or is on the way to the writer.
LEMMA TendWritten ==
    ASSUME Good, Tended(heap, zip), NEW i \in Zipper, Writing(zip[i]), zip[i].abs \in Seq(Byte),
           \A j \in Zipper : Alike(zip[j], zip'[j]), SameSeen(heap, heap', {"map"}),
           NEW y, y = zip', NEW g, g = heap',
           \A o : \A p \in Seq(Byte) : \A b \in Byte : Leads(g, o, p, b) =>
              \/ /\ Leads(heap, o, p, b)
                 /\ o = "map" /\ Bears(heap, o, Append(p, b)) =>
                       Bears(g, o, Append(p, b)) \/ Begins(Append(p, b), zip[i].abs)
              \/ o = "map" /\ (Bears(g, o, Append(p, b)) \/ Begins(Append(p, b), zip[i].abs))
    PROVE  Tended(g, y)
<1>1. SUFFICES ASSUME NEW o, NEW p \in Seq(Byte), NEW b \in Byte, Leads(g, o, p, b),
                      NEW q, q = Append(p, b)
               PROVE  Fruitful(g, y, o, q)
  BY DEF Tended
<1>2. q \in Seq(Byte)
  BY <1>1, BeginsAppend
<1>3. ASSUME Begins(q, zip[i].abs)
      PROVE  Awaited(y, q)
  <2>1. Writing(y[i]) /\ y[i].abs = zip[i].abs
    BY AlikeWriter
  <2> QED BY <1>3, <2>1 DEF Awaited
<1>4. CASE o = "map" /\ (Bears(g, o, q) \/ Begins(q, zip[i].abs))
  BY <1>3, <1>4 DEF Fruitful
<1>5. CASE /\ Leads(heap, o, p, b)
           /\ o = "map" /\ Bears(heap, o, q) => Bears(g, o, q) \/ Begins(q, zip[i].abs)
  <2>1. Fruitful(heap, zip, o, q)
    BY <1>1, <1>5 DEF Tended
  <2>2. CASE o # "map"
    <3>1. Bears(heap, o, q)
      BY <2>1, <2>2 DEF Fruitful
    <3>2. <<Roots, o>> \in Slots(heap)
      BY <1>5 DEF Leads
    <3>3. o \notin {"map"}
      BY <2>2
    <3>4. Bears(g, o, q)
      BY <1>2, <3>1, <3>2, <3>3, BearsKept
    <3> QED BY <3>4 DEF Fruitful
  <2>3. CASE o = "map" /\ Bears(heap, o, q)
    BY <1>3, <1>5, <2>3 DEF Fruitful
  <2>4. CASE o = "map" /\ Awaited(zip, q)
    <3>1. \A j \in Zipper : Writing(zip[j]) => Alike(zip[j], y[j])
      OBVIOUS
    <3>2. Awaited(y, q)
      BY <2>4, <3>1, AwaitedKept
    <3> QED BY <2>4, <3>2 DEF Fruitful
  <2> QED BY <2>1, <2>2, <2>3, <2>4 DEF Fruitful
<1> QED BY <1>1, <1>4, <1>5

\* What the discipline says of a head whose writers are all cleaned up after.
LEMMA KemptFacts ==
    ASSUME Good, head.ends = {"cleanup"}
    PROVE  focus = <<>> /\ head.base = <<>> /\ ~head.converts /\ "drop" \notin head.ends
<1>1. "cleanup" \in head.ends /\ "drop" \notin head.ends
  OBVIOUS
<1>2. Disciplined(head) /\ focus = head.base
  BY DEF Good
<1> QED BY <1>1, <1>2 DEF Disciplined

\* A value written brings no path.
LEMMA ValueAdds ==
    ASSUME NEW h, HeapOK(h), NEW s \in Slots(h), NEW d \in CellType(h), d.rec = NodeIn(h, s),
           NEW g, g = WithCell(h, s, d)
    PROVE  HeapOK(g) /\ Adds(h, g, <<>>)
<1>1. Named(h, s)
  BY HeapFacts
<1>2. /\ HeapOK(g) /\ Slots(g) = Slots(h) \cup {s} /\ At(g, s) = d
      /\ \A t \in Slots(h) : t # s => At(g, t) = At(h, t)
  BY <1>1, WithCellFacts
<1>3. \A t \in Slots(g) : /\ t \in Slots(h)
                          /\ NodeIn(g, t) = NodeIn(h, t) \/ \A b : <<NodeIn(g, t), b>> \notin Slots(g)
  <2>1. ASSUME NEW t \in Slots(g)
        PROVE  t \in Slots(h) /\ NodeIn(g, t) = NodeIn(h, t)
    BY <1>2 DEF NodeIn
  <2> QED BY <2>1
<1> QED BY <1>2, <1>3, FewerAdds

\* Nor does a cell that is taken out.
LEMMA CutAdds ==
    ASSUME NEW h, HeapOK(h), NEW s \in Slots(h), s # HeadSlot, NEW g, g = WithoutCell(h, s)
    PROVE  HeapOK(g) /\ Adds(h, g, <<>>)
<1>1. HeapOK(g) /\ Slots(g) = Slots(h) \ {s} /\ \A t \in Slots(g) : At(g, t) = At(h, t)
  BY WithoutCellFacts
<1>2. \A t \in Slots(g) : /\ t \in Slots(h)
                          /\ NodeIn(g, t) = NodeIn(h, t) \/ \A b : <<NodeIn(g, t), b>> \notin Slots(g)
  <2>1. ASSUME NEW t \in Slots(g)
        PROVE  t \in Slots(h) /\ NodeIn(g, t) = NodeIn(h, t)
    BY <1>1 DEF NodeIn
  <2> QED BY <2>1
<1> QED BY <1>1, <1>2, FewerAdds

\* The beginnings of a path, and those of the path one shorter.
LEMMA BeginsOneLess ==
    ASSUME NEW q \in Seq(Byte), NEW x \in Seq(Byte), NEW b \in Byte, Begins(q, Append(x, b))
    PROVE  q = Append(x, b) \/ Begins(q, x)
<1> DEFINE a == Append(x, b)
<1>1. a \in Seq(Byte) /\ Len(a) = Len(x) + 1 /\ Len(x) \in Nat /\ Len(q) \in Nat
      /\ \A k \in 1..Len(x) : a[k] = x[k]
  OBVIOUS
<1> HIDE DEF a
<1>2. Len(q) <= Len(a) /\ \A k \in 1..Len(q) : q[k] = a[k]
  BY DEF Begins, a
<1>3. CASE Len(q) = Len(a)
  <2>1. q = a
    BY <1>1, <1>2, <1>3, BeginsFacts DEF Begins
  <2> QED BY <2>1 DEF a
<1>4. CASE Len(q) <= Len(x)
  <2>1. \A k \in 1..Len(q) : q[k] = x[k]
    BY <1>1, <1>2, <1>4
  <2> QED BY <1>4, <2>1 DEF Begins
<1> QED BY <1>1, <1>2, <1>3, <1>4

\* Nobody writes below a path that another zipper has a claim to.
LEMMA NoOneBelow ==
    ASSUME Good, NEW i \in Zipper, Holds(zip[i]), NEW a, a = head.base \o zip[i].path,
           NEW q \in Seq(Byte), Begins(a, q), Writing(zip[i]) => ~Begins(q, zip[i].abs)
    PROVE  ~Awaited(zip, q)
<1> SUFFICES ASSUME Awaited(zip, q) PROVE FALSE
  OBVIOUS
<1>1. PICK j \in Zipper : Writing(zip[j]) /\ Begins(q, zip[j].abs)
  BY DEF Awaited
<1>2. j # i
  BY <1>1
<1>3. head \in Heads /\ Secure(heap, zip) /\ Granted(head, zip)
  BY DEF Good
<1>4. a \in Seq(Byte) /\ zip[j].abs \in Seq(Byte) /\ ~Begins(a, zip[j].abs)
  BY <1>1, <1>2, <1>3, Apart
<1>5. Begins(a, zip[j].abs)
  BY <1>1, <1>4, BeginsTrans
<1> QED BY <1>4, <1>5

\* Is there a value at path q below cell x, or below that?
Yields(h, x, q) == \E r \in Seq(Byte) : Value(h, x, q \o r) # NoVal

\* What a writer has below its slot is what the head has below its path.
LEMMA WriterCell ==
    ASSUME Good, NEW i \in Zipper, Writing(zip[i]), zip[i].stage = "open"
    PROVE  /\ zip[i].abs \in Seq(Byte)
           /\ CellOf(i) = CellBelow(heap, At(heap, HeadSlot), zip[i].abs)
<1>1. HeapOK(heap) /\ zip[i] # NoZipper /\ zip[i].abs \in Seq(Byte)
  BY GoodFacts
<1>2. PICK c : Chain(heap, zip[i].abs, c) /\ zip[i].slot = Stop(c, Len(zip[i].abs))
  BY <1>1 DEF Good, Secure, Rooted
<1>3. Begins(zip[i].abs, zip[i].abs)
  BY <1>1 DEF Begins
<1>4. CellBelow(heap, At(heap, HeadSlot), zip[i].abs) = At(heap, zip[i].slot)
  BY <1>1, <1>2, <1>3, CellBelowChain
<1> QED BY <1>1, <1>4 DEF CellOf

\* Paths below an open zipper, or a map, have fruit.
LEMMA SourceFruit ==
    ASSUME Good, Seen, Tended(heap, zip), NEW i \in Zipper, zip[i] # NoZipper,
           zip[i].stage \in {"open", "map"}, NEW p \in Seq(Byte), NEW b \in Byte,
           On(heap, CellBelow(heap, CellOf(i), p), b)
    PROVE  Yields(heap, CellOf(i), Append(p, b))
<1> DEFINE q == Append(p, b)
           x == CellOf(i)
<1>0. q \in Seq(Byte) /\ i # "map" /\ HeapOK(heap)
  BY GoodFacts
<1>1. Sharing(zip[i]) \/ (Writing(zip[i]) /\ zip[i].stage = "open")
  BY SlotSees
<1>2. CASE Sharing(zip[i])
  <2>1. zip[i].slot = <<Roots, i>> /\ <<Roots, i>> \in Slots(heap)
    BY <1>2 DEF Good, Secure, Shared
  <2>2. x = At(heap, <<Roots, i>>)
    BY <2>1 DEF CellOf
  <2>3. Leads(heap, i, p, b)
    BY <2>1, <2>2 DEF Leads
  <2>4. Bears(heap, i, q)
    BY <1>0, <2>3 DEF Tended, Fruitful
  <2> HIDE DEF q, x
  <2>5. PICK r \in Seq(Byte) : Sees(heap, i, q \o r) # NoVal
    BY <2>4 DEF Bears
  <2>6. Value(heap, x, q \o r) # NoVal
    BY <2>2, <2>5 DEF Sees
  <2> QED BY <2>6 DEF Yields, q, x
<1>3. CASE Writing(zip[i]) /\ zip[i].stage = "open"
  <2> DEFINE a == zip[i].abs
             d == At(heap, HeadSlot)
             u == a \o p
  <2>1. a \in Seq(Byte) /\ x = CellBelow(heap, d, a)
    BY <1>3, WriterCell
  <2>2. u \in Seq(Byte) /\ a \o q = Append(u, b) /\ a \o q \in Seq(Byte) /\ Begins(a, u)
    <3> HIDE DEF a
    <3>1. u \in Seq(Byte) /\ Begins(a, u) /\ a \o q = Append(u, b)
      BY <2>1, ConcatFacts
    <3> QED BY <3>1, BeginsAppend
  <2>3. a = head.base \o zip[i].path /\ Holds(zip[i])
    BY <1>3, ZipTypes DEF Lawful, Holds
  <2> HIDE DEF a, d, q, x, u
  <2>4. CellBelow(heap, d, u) = CellBelow(heap, x, p)
    BY <2>1, CellBelowConcat DEF u
  <2>5. On(heap, CellBelow(heap, d, u), b)
    BY <2>4 DEF x
  <2>6. HeadSlot \in Slots(heap)
    BY GoodFacts
  <2>7. Leads(heap, "map", u, b)
    BY <2>5, <2>6 DEF Leads, HeadSlot, d
  <2>8. Fruitful(heap, zip, "map", a \o q)
    BY <2>2, <2>7 DEF Tended
  <2>9. Begins(a, a \o q) /\ ~Begins(a \o q, a)
    <3>1. Begins(u, a \o q) /\ ~Begins(Append(u, b), u)
      BY <2>2, BeginsAppend
    <3>2. Begins(a, a \o q)
      BY <2>1, <2>2, <3>1, BeginsTrans
    <3>3. ASSUME Begins(a \o q, a) PROVE FALSE
      <4>1. Begins(a \o q, u)
        BY <2>1, <2>2, <3>3, BeginsTrans
      <4> QED BY <2>2, <3>1, <4>1
    <3> QED BY <3>2, <3>3
  <2>10. ~Awaited(zip, a \o q)
    <3>1. Writing(zip[i]) => ~Begins(a \o q, zip[i].abs)
      BY <2>9 DEF a
    <3> QED BY <2>2, <2>3, <2>9, <3>1, NoOneBelow
  <2>11. Bears(heap, "map", a \o q)
    BY <2>8, <2>10 DEF Fruitful
  <2>12. PICK r \in Seq(Byte) : Sees(heap, "map", (a \o q) \o r) # NoVal
    BY <2>11 DEF Bears
  <2>13. CellBelow(heap, d, (a \o q) \o r) = CellBelow(heap, x, q \o r)
    <3>0. q \in Seq(Byte)
      BY <1>0 DEF q
    <3>1. CellBelow(heap, d, (a \o q) \o r) = CellBelow(heap, CellBelow(heap, d, a \o q), r)
      <4> DEFINE w == a \o q
      <4>1. w \in Seq(Byte)
        BY <2>2
      <4> HIDE DEF w
      <4>2. CellBelow(heap, d, w \o r) = CellBelow(heap, CellBelow(heap, d, w), r)
        BY <4>1, CellBelowConcat
      <4> QED BY <4>2 DEF w
    <3>2. CellBelow(heap, d, a \o q) = CellBelow(heap, CellBelow(heap, d, a), q)
      BY <2>1, <3>0, CellBelowConcat
    <3>3. CellBelow(heap, x, q \o r) = CellBelow(heap, CellBelow(heap, x, q), r)
      BY <3>0, CellBelowConcat
    <3> QED BY <2>1, <3>1, <3>2, <3>3
  <2>14. Value(heap, x, q \o r) # NoVal
    BY <2>12, <2>13 DEF Sees, Value, HeadSlot, d
  <2> QED BY <2>14 DEF Yields, q, x
<1> QED BY <1>1, <1>2, <1>3

\* Three paths after another.
LEMMA ConcatThree ==
    ASSUME NEW p \in Seq(Byte), NEW q \in Seq(Byte), NEW r \in Seq(Byte)
    PROVE  (p \o q) \o r = p \o (q \o r)
OBVIOUS

\* A heap that settles brings no path.
LEMMA SettledPaths ==
    ASSUME NEW g, HeapOK(g), NEW z, Settle(g, z), NEW k, k = heap'
    PROVE  Adds(g, k, <<>>)
<1> DEFINE e == <<>>
<1>1. e \in Seq(Byte)
  OBVIOUS
<1>2. Adds(g, g, e)
  BY AddsSame
<1> HIDE DEF e
<1>3. Adds(g, k, e)
  BY <1>1, <1>2, SettleAdds
<1> QED BY <1>3 DEF e

\* When no path is brought, every path was there before.
LEMMA AddsLeads ==
    ASSUME NEW h, NEW g, Adds(h, g, <<>>), NEW o, NEW p \in Seq(Byte), NEW b \in Byte, Leads(g, o, p, b)
    PROVE  Leads(h, o, p, b)
<1>1. ~Begins(Append(p, b), <<>>)
  BY BeginsAppend
<1> QED BY <1>1 DEF Adds

\* What is known of a zipper that has been let in.
LEMMA EnteredRecord ==
    ASSUME Good, NEW i \in Zipper, Is(i, "asking"), NEW g, HeapOK(g), NEW s \in Slots(g),
           Settle(g, Now(i, Opened(i, s))), NEW y, y = zip'
    PROVE  /\ y[i] # NoZipper /\ y[i].stage = "open" /\ y[i].mode = zip[i].mode
           /\ y[i].abs = head.base \o zip[i].path /\ y[i].abs \in Seq(Byte)
           /\ zip[i] # NoZipper /\ zip[i].stage = "asking"
<1> DEFINE x == Opened(i, s)
           z == Now(i, x)
           a == head.base \o zip[i].path
<1>1. x \in ZipperIn(g) /\ x # NoZipper /\ Opens(zip[i], x, a, s) /\ a \in TriePath
  BY OpenedFacts
<1>2. a \in Seq(Byte)
  <2> HIDE DEF a
  <2> QED BY <1>1, HeadPaths
<1>3. Updates(zip, i, x, z)
  <2> HIDE DEF x
  <2> QED BY GoodFacts, NowUpdates
<1>4. Settle(g, z)
  OBVIOUS
<1>5. zip[i] # NoZipper /\ zip[i].stage = "asking"
  BY DEF Is
<1> HIDE DEF x, z
<1>6. zip'[i] # NoZipper /\ Like(x, zip'[i])
  <2>1. z[i] = x /\ x \in ZipType
    BY <1>1, <1>3, ZipperInFacts DEF Updates
  <2> QED BY <1>1, <1>4, <2>1, SettledAlike
<1> QED BY <1>1, <1>2, <1>5, <1>6 DEF Like, Opens

\* Where the writers are after a step of one zipper.
LEMMA AbsAfter ==
    ASSUME Good, NEW i \in Zipper, NEW y, \A j \in Zipper : j # i => Alike(zip[j], y[j]),
           Writing(y[i]) => y[i].abs \in Seq(Byte)
    PROVE  \A j \in Zipper : Writing(y[j]) => y[j].abs \in Seq(Byte)
<1>1. SUFFICES ASSUME NEW j \in Zipper, j # i, Writing(y[j])
               PROVE  y[j].abs \in Seq(Byte)
  OBVIOUS
<1>2. Writing(zip[j]) /\ y[j].abs = zip[j].abs
  BY <1>1 DEF Alike, Like, Writing
<1> QED BY <1>2, GoodFacts

\* The cell of a reader that is let in leads to where another one leads.
LEMMA FoundCell ==
    ASSUME NEW h, HeapOK(h), NEW i, i # "map", NEW p \in Seq(Byte),
           NEW c, c = CellBelow(h, At(h, HeadSlot), p)
    PROVE  c \in CellType(h) /\ (c.rec = NoNode \/ \E t \in Slots(h) : t # <<Roots, i>> /\ c.rec = NodeIn(h, t))
<1> DEFINE s == <<Roots, i>>
           d == HeadSlot
<1>1. d \in Slots(h) /\ d # s /\ s[1] = Roots
  BY HeapFacts DEF HeadSlot
<1>2. c = CellBelow(h, At(h, d), p)
  OBVIOUS
<1>3. NoCell \in CellType(h) /\ NoCell.rec = NoNode
  BY DEF NoCell, CellType
<1> HIDE DEF s, d
<1>4. CellBelow(h, At(h, d), p) = NoCell \/ \E u \in Slots(h) : u # s /\ CellBelow(h, At(h, d), p) = At(h, u)
  BY <1>1, RootElse
<1>5. c \in CellType(h) /\ (c.rec = NoNode \/ \E t \in Slots(h) : t # s /\ c.rec = NodeIn(h, t))
  BY <1>2, <1>3, <1>4, HeapFacts DEF NodeIn
<1> QED BY <1>5 DEF s

\* A reader is let in: it has the paths that the trie has below its place, with their fruit.
LEMMA EnterReadTends ==
    ASSUME Good, Seen, Tended(heap, zip), head.ends = {"cleanup"}, NEW i \in Zipper, EnterRead(i),
           NEW k, k = heap', NEW y, y = zip'
    PROVE  Tended(k, y)
<1> DEFINE h == SplitAtFocus(heap)
           a == focus \o zip[i].path
           c == CellBelow(h, At(h, HeadSlot), a)
           s == <<Roots, i>>
           g == WithCell(h, s, c)
<1>1. Is(i, "asking") /\ zip[i].mode = "read" /\ Settle(g, Now(i, Opened(i, s)))
  BY DEF EnterRead
<1>2. HeapOK(heap) /\ focus = head.base /\ focus \in Seq(Byte) /\ i # "map" /\ focus = <<>>
  BY GoodFacts, KemptFacts
<1>3. HeapOK(h) /\ Adds(heap, h, <<>>)
  BY <1>2, SplitFacts, SplitAdds
<1>4. a = head.base \o zip[i].path /\ a \in Seq(Byte)
  <2>1. zip[i] # NoZipper
    BY <1>1 DEF Is
  <2> QED BY <1>2, <2>1, ZipTypes
<1> HIDE DEF h, a
<1>20. a \in Seq(Byte)
  BY <1>4
<1>5. c \in CellType(h) /\ (c.rec = NoNode \/ \E t \in Slots(h) : t # <<Roots, i>> /\ c.rec = NodeIn(h, t))
  <2>1. c = CellBelow(h, At(h, HeadSlot), a)
    OBVIOUS
  <2>2. HeapOK(h) /\ i # "map"
    BY <1>2, <1>3
  <2> HIDE DEF c, s
  <2> QED BY <1>20, <2>1, <2>2, FoundCell
<1>6. i \in Owner
  BY DEF Owner
<1>7. HeapOK(g) /\ s \in Slots(g)
  <2> HIDE DEF c
  <2> QED BY <1>2, <1>3, <1>5, <1>6, RootWrite
<1>8. c = CellBelow(h, At(h, HeadSlot), a) /\ g = WithCell(h, <<Roots, i>>, c)
  OBVIOUS
<1> HIDE DEF c, g
<1>9. /\ SameSeen(heap, heap', {i})
      /\ \A j \in Zipper : j # i => Alike(zip[j], zip'[j])
      /\ \A q \in Seq(Byte) : Sees(heap', i, q) = Sees(heap, "map", zip'[i].abs \o q)
  BY EnterReadEffect
<1>10. /\ y[i] # NoZipper /\ y[i].stage = "open" /\ y[i].mode = zip[i].mode
       /\ y[i].abs = head.base \o zip[i].path /\ y[i].abs \in Seq(Byte)
       /\ zip[i] # NoZipper /\ zip[i].stage = "asking"
  <2> HIDE DEF s
  <2> QED BY <1>1, <1>7, EnteredRecord
<1>11. Adds(g, k, <<>>)
  BY <1>1, <1>7, SettledPaths
<1>12. Holds(zip[i]) /\ ~Writing(zip[i])
  BY <1>1, <1>10 DEF Holds, Writing
<1>13. ASSUME NEW o, NEW p \in Seq(Byte), NEW b \in Byte, Leads(k, o, p, b)
       PROVE  \/ o # i /\ Leads(heap, o, p, b)
              \/ o = "map" /\ Begins(Append(p, b), <<>>)
              \/ Bears(k, o, Append(p, b))
  <2> DEFINE q == Append(p, b)
  <2>1. q \in Seq(Byte) /\ ~Begins(q, <<>>)
    BY BeginsAppend
  <2>2. Leads(g, o, p, b)
    BY <1>11, <1>13, <2>1 DEF Adds
  <2>3. /\ o # i => Leads(h, o, p, b)
        /\ o = i => On(h, CellBelow(h, c, p), b)
    BY <1>2, <1>3, <1>5, <1>6, <1>8, <2>2, RootAdds
  <2>4. CASE o # i
    BY <1>3, <2>1, <2>3, <2>4 DEF Adds
  <2>5. CASE o = i
    <3> DEFINE d == At(h, HeadSlot)
               u == a \o p
               e == a \o q
    <3>1. u \in Seq(Byte) /\ e \in Seq(Byte) /\ e = Append(u, b) /\ Begins(a, e)
      <4>1. u \in Seq(Byte) /\ a \o Append(p, b) = Append(a \o p, b)
        BY <1>20, ConcatFacts
      <4>2. e \in Seq(Byte) /\ Begins(a, e)
        <5> HIDE DEF q
        <5> QED BY <1>20, <2>1, ConcatFacts
      <4> QED BY <4>1, <4>2
    <3>2. c = CellBelow(h, d, a)
      BY <1>8
    <3> HIDE DEF q, d
    <3>3. CellBelow(h, d, u) = CellBelow(h, c, p)
      <4>1. CellBelow(h, d, a \o p) = CellBelow(h, CellBelow(h, d, a), p)
        BY <1>20, CellBelowConcat
      <4> QED BY <3>2, <4>1
    <3> HIDE DEF u, e
    <3>4. On(h, CellBelow(h, d, u), b) /\ HeadSlot \in Slots(h)
      BY <1>3, <2>3, <2>5, <3>3, HeapFacts
    <3>5. Leads(h, "map", u, b)
      BY <3>4 DEF Leads, HeadSlot, d
    <3>6. ~Begins(Append(u, b), <<>>)
      BY <3>1, BeginsAppend
    <3>7. Leads(heap, "map", u, b)
      BY <1>3, <3>1, <3>5, <3>6 DEF Adds
    <3>8. Fruitful(heap, zip, "map", e)
      BY <3>1, <3>7 DEF Tended
    <3>9. ~Awaited(zip, e)
      BY <1>4, <1>12, <3>1, NoOneBelow
    <3>10. Bears(heap, "map", e)
      BY <3>8, <3>9 DEF Fruitful
    <3>11. PICK r \in Seq(Byte) : Sees(heap, "map", e \o r) # NoVal
      BY <3>10 DEF Bears
    <3>12. e \o r = a \o (q \o r) /\ q \o r \in Seq(Byte)
      <4>1. q \in Seq(Byte)
        BY <2>1 DEF q
      <4>2. q \o r \in Seq(Byte)
        BY <4>1, ConcatFacts
      <4>3. (a \o q) \o r = a \o (q \o r)
        BY <1>20, <4>1, ConcatThree
      <4> QED BY <4>2, <4>3 DEF e
    <3>13. Sees(k, i, q \o r) = Sees(heap, "map", a \o (q \o r))
      <4> DEFINE v == q \o r
      <4>1. v \in Seq(Byte)
        BY <3>12
      <4> HIDE DEF v
      <4>2. Sees(k, i, v) = Sees(heap, "map", zip'[i].abs \o v)
        BY <1>9, <4>1
      <4>3. zip'[i].abs = a
        BY <1>4, <1>10
      <4>4. Sees(k, i, v) = Sees(heap, "map", a \o v)
        BY <4>2, <4>3
      <4> QED BY <4>4 DEF v
    <3>14. Sees(k, i, q \o r) # NoVal
      BY <3>11, <3>12, <3>13
    <3>15. Bears(k, i, q)
      BY <3>14 DEF Bears
    <3> QED BY <2>5, <3>15 DEF q
  <2> QED BY <2>4, <2>5
<1>14. \A j \in Zipper : Writing(y[j]) => y[j].abs \in Seq(Byte)
  BY <1>9, <1>10, AbsAfter
<1> DEFINE e == <<>>
<1>15. e \in Seq(Byte) /\ (e = <<>> \/ Awaited(y, e))
  OBVIOUS
<1>16. \A o : \A p \in Seq(Byte) : \A b \in Byte : Leads(k, o, p, b) =>
              \/ o # i /\ Leads(heap, o, p, b)
              \/ o = "map" /\ Begins(Append(p, b), e)
              \/ Bears(k, o, Append(p, b))
  BY <1>13
<1> HIDE DEF e
<1> QED BY <1>9, <1>12, <1>14, <1>15, <1>16, TendQuiet

\* A writer is let in: the paths that are new lead to its place.
LEMMA EnterWriteTends ==
    ASSUME Good, Seen, Tended(heap, zip), NEW i \in Zipper, EnterWrite(i),
           NEW k, k = heap', NEW y, y = zip'
    PROVE  Tended(k, y)
<1> DEFINE p0 == zip[i].path
           w == Prepare(heap, p0)
           g == HeapOf(w)
           s == SlotOf(w)
           a == focus \o p0
<1>1. Is(i, "asking") /\ zip[i].mode = "write" /\ Settle(g, Now(i, Opened(i, s)))
  BY DEF EnterWrite, HeapOf, SlotOf
<1>2. HeapOK(heap) /\ focus = head.base /\ focus \in Seq(Byte) /\ i # "map"
  BY GoodFacts
<1>3. p0 \in Seq(Byte)
  <2>1. zip[i] # NoZipper
    BY <1>1 DEF Is
  <2> QED BY <2>1, ZipTypes
<1>4. HeapOK(g) /\ s \in Slots(g) /\ Adds(heap, g, a)
  BY <1>2, <1>3, PrepareOwn, PrepareAdds
<1> HIDE DEF w, g, s
<1>5. /\ y[i] # NoZipper /\ y[i].stage = "open" /\ y[i].mode = zip[i].mode
      /\ y[i].abs = head.base \o zip[i].path /\ y[i].abs \in Seq(Byte)
      /\ zip[i] # NoZipper /\ zip[i].stage = "asking"
  BY <1>1, <1>4, EnteredRecord
<1>6. a = y[i].abs
  BY <1>2, <1>5
<1>7. a \in Seq(Byte)
  BY <1>5, <1>6
<1> HIDE DEF a, p0
<1>8. Adds(heap, k, a)
  BY <1>1, <1>4, <1>7, SettleAdds
<1>9. SameSeen(heap, heap', {}) /\ \A j \in Zipper : j # i => Alike(zip[j], zip'[j])
  BY EnterWriteEffect
<1>10. SameSeen(heap, heap', {i})
  <2> DEFINE O == {i}
             g1 == heap'
  <2>1. SameSeen(heap, g1, {})
    BY <1>9
  <2> HIDE DEF O, g1
  <2>2. SameSeen(heap, g1, O)
    BY <2>1, SeenMore
  <2> QED BY <2>2 DEF O, g1
<1>11. Awaited(y, a)
  <2>1. Writing(y[i]) /\ Begins(a, y[i].abs)
    BY <1>1, <1>5, <1>6, <1>7 DEF Writing, Begins
  <2> QED BY <2>1 DEF Awaited
<1>12. ~Writing(zip[i])
  BY <1>5 DEF Writing
<1>13. \A j \in Zipper : Writing(y[j]) => y[j].abs \in Seq(Byte)
  BY <1>5, <1>9, AbsAfter
<1>14. ASSUME NEW o, NEW p \in Seq(Byte), NEW b \in Byte, Leads(k, o, p, b)
       PROVE  \/ o # i /\ Leads(heap, o, p, b)
              \/ o = "map" /\ Begins(Append(p, b), a)
              \/ Bears(k, o, Append(p, b))
  <2>1. CASE o = "map" /\ Begins(Append(p, b), a)
    BY <2>1
  <2>2. CASE Leads(heap, o, p, b) /\ o = i
    <3>1. Append(p, b) \in Seq(Byte)
      BY BeginsAppend
    <3>2. Bears(heap, o, Append(p, b))
      BY <1>2, <2>2 DEF Tended, Fruitful
    <3>3. <<Roots, o>> \in Slots(heap)
      BY <2>2 DEF Leads
    <3> DEFINE q == Append(p, b)
    <3> HIDE DEF q
    <3>4. q \in Seq(Byte) /\ Bears(heap, o, q) /\ SameSeen(heap, k, {}) /\ o \notin {}
      BY <1>9, <3>1, <3>2 DEF q
    <3>5. Bears(k, o, q)
      BY <3>3, <3>4, BearsKept
    <3> QED BY <3>5 DEF q
  <2>3. CASE Leads(heap, o, p, b) /\ o # i
    BY <2>3
  <2> QED BY <1>8, <1>14, <2>1, <2>2, <2>3 DEF Adds
<1>15. \A o : \A p \in Seq(Byte) : \A b \in Byte : Leads(k, o, p, b) =>
              \/ o # i /\ Leads(heap, o, p, b)
              \/ o = "map" /\ Begins(Append(p, b), a)
              \/ Bears(k, o, Append(p, b))
  BY <1>14
<1> QED BY <1>7, <1>9, <1>10, <1>11, <1>12, <1>13, <1>15, TendQuiet

\* What leads on from a cell leads on from another, unless that one is empty.
LEMMA EmptiedLeads ==
    ASSUME NEW h, HeapOK(h), NEW x, NEW c, c.rec = x.rec \/ c.rec = NoNode,
           NEW p \in Seq(Byte), NEW b \in Byte, On(h, CellBelow(h, c, p), b)
    PROVE  On(h, CellBelow(h, x, p), b)
<1>1. c.rec # NoNode
  <2>1. SUFFICES ASSUME IsEmpty(h, c.rec) PROVE FALSE
    BY DEF IsEmpty
  <2> QED BY <2>1, EmptyLeads
<1>2. c.rec = x.rec
  BY <1>1
<1>3. CASE p = <<>>
  <2>1. CellBelow(h, c, p) = c /\ CellBelow(h, x, p) = x
    BY <1>3, CellBelowEmpty
  <2> QED BY <1>2, <2>1 DEF On
<1>4. CASE p # <<>>
  <2>1. CellBelow(h, c, p) = CellBelow(h, x, p)
    BY <1>2, <1>4, CellBelowNode
  <2> QED BY <2>1
<1> QED BY <1>3, <1>4

\* A map is made: it has the paths below the zipper it is made of, with their fruit.
LEMMA MakeMapTends ==
    ASSUME Good, Seen, Tended(heap, zip), NEW i \in Zipper, NEW j \in Zipper, MakeMap(i, j),
           NEW k, k = heap', NEW y, y = zip'
    PROVE  Tended(k, y)
<1> DEFINE u == CellOf(i)
           c == [u EXCEPT !.rec = IF IsEmpty(heap, @) THEN NoNode ELSE @]
           g == WithCell(heap, <<Roots, j>>, c)
           x == [mode |-> "read", stage |-> "map", path |-> <<>>, abs |-> <<>>, slot |-> <<Roots, j>>]
<1>1. Is(i, "open") /\ zip[j] = NoZipper /\ Settle(g, Now(j, x))
  BY DEF MakeMap
<1>2. HeapOK(heap) /\ zip[i] # NoZipper /\ zip[i].stage = "open" /\ j # "map" /\ i # j
  BY <1>1, GoodFacts DEF Is
<1>3. zip[i].slot \in Slots(heap) /\ zip[i].slot # <<Roots, j>>
  BY <1>2, SlotSees
<1>4. u \in CellType(heap) /\ u = At(heap, zip[i].slot)
  BY <1>2, <1>3, HeapFacts DEF CellOf
<1>5. c \in CellType(heap) /\ (c.rec = u.rec \/ c.rec = NoNode)
  <2> HIDE DEF u
  <2> QED BY <1>4 DEF CellType
<1>6. c.rec = NoNode \/ \E t \in Slots(heap) : t # <<Roots, j>> /\ c.rec = NodeIn(heap, t)
  <2> HIDE DEF c, u
  <2> QED BY <1>3, <1>4, <1>5 DEF NodeIn
<1>7. j \in Owner
  BY DEF Owner
<1> HIDE DEF c, u, x
<1>8. HeapOK(g) /\ g = WithCell(heap, <<Roots, j>>, c)
  BY <1>2, <1>5, <1>6, <1>7, RootWrite
<1> HIDE DEF g
<1>9. Adds(g, k, <<>>)
  BY <1>1, <1>8, SettledPaths
<1>10. /\ SameSeen(heap, heap', {j})
       /\ \A e \in Zipper : e # j => Alike(zip[e], zip'[e])
       /\ zip'[j] # NoZipper /\ zip'[j].mode = "read" /\ zip'[j].stage = "map"
       /\ \A q \in Seq(Byte) : Sees(heap', j, q) = Value(heap, CellOf(i), q)
  BY MakeMapEffect
<1>11. ~Writing(zip[j]) /\ ~Writing(y[j])
  BY <1>1, <1>10 DEF Writing
<1>12. \A e \in Zipper : Writing(y[e]) => y[e].abs \in Seq(Byte)
  BY <1>10, <1>11, AbsAfter
<1>13. ASSUME NEW o, NEW p \in Seq(Byte), NEW b \in Byte, Leads(k, o, p, b)
       PROVE  \/ o # j /\ Leads(heap, o, p, b)
              \/ o = "map" /\ Begins(Append(p, b), <<>>)
              \/ Bears(k, o, Append(p, b))
  <2>1. Leads(g, o, p, b)
    BY <1>9, <1>13, AddsLeads
  <2>2. /\ o # j => Leads(heap, o, p, b)
        /\ o = j => On(heap, CellBelow(heap, c, p), b)
    BY <1>2, <1>5, <1>6, <1>7, <1>8, <2>1, RootAdds
  <2>3. CASE o # j
    BY <2>2, <2>3
  <2>4. CASE o = j
    <3>1. On(heap, CellBelow(heap, u, p), b)
      BY <1>2, <1>5, <2>2, <2>4, EmptiedLeads
    <3>2. Yields(heap, u, Append(p, b))
      <4>1. On(heap, CellBelow(heap, CellOf(i), p), b)
        BY <3>1 DEF u
      <4>2. Yields(heap, CellOf(i), Append(p, b))
        BY <1>2, <4>1, SourceFruit
      <4> QED BY <4>2 DEF u
    <3> DEFINE q == Append(p, b)
    <3>3. q \in Seq(Byte)
      BY BeginsAppend
    <3> HIDE DEF q
    <3>4. PICK r \in Seq(Byte) : Value(heap, u, q \o r) # NoVal
      BY <3>2 DEF Yields, q
    <3>5. q \o r \in Seq(Byte)
      BY <3>3, ConcatFacts
    <3> DEFINE v == q \o r
    <3> HIDE DEF v
    <3>6. v \in Seq(Byte) /\ Value(heap, u, v) # NoVal
      BY <3>4, <3>5 DEF v
    <3>7. Sees(k, j, v) # NoVal
      BY <1>10, <3>6 DEF u
    <3>8. Bears(k, j, q)
      BY <3>7 DEF Bears, v
    <3> QED BY <2>4, <3>8 DEF q
  <2> QED BY <2>3, <2>4
<1> DEFINE e == <<>>
<1>14. e \in Seq(Byte) /\ (e = <<>> \/ Awaited(y, e))
  OBVIOUS
<1>15. \A o : \A p \in Seq(Byte) : \A b \in Byte : Leads(k, o, p, b) =>
              \/ o # j /\ Leads(heap, o, p, b)
              \/ o = "map" /\ Begins(Append(p, b), e)
              \/ Bears(k, o, Append(p, b))
  BY <1>13
<1> HIDE DEF e
<1> QED BY <1>10, <1>11, <1>12, <1>14, <1>15, TendQuiet

\* A reader or a map is dropped: its paths are gone.
LEMMA DropShareTends ==
    ASSUME Good, Seen, Tended(heap, zip), NEW i \in Zipper, DropShare(i),
           NEW k, k = heap', NEW y, y = zip'
    PROVE  Tended(k, y)
<1> DEFINE s == <<Roots, i>>
           g == WithoutCell(heap, s)
           z == Now(i, NoZipper)
<1>1. SameSeen(heap, heap', {i}) /\ Sharing(zip[i]) /\ zip'[i] = NoZipper
      /\ \A e \in Zipper : e # i => Alike(zip[e], zip'[e])
  BY DropShareEffect
<1>2. HeapOK(heap) /\ i # "map" /\ zip[i].slot = s /\ s \in Slots(heap)
  BY <1>1, GoodFacts DEF Good, Secure, Shared, Sharing
<1>3. Settle(g, z)
  BY <1>2 DEF DropShare
<1>4. s # HeadSlot
  BY <1>2 DEF HeadSlot
<1>5. HeapOK(g) /\ Adds(heap, g, <<>>)
  <2> HIDE DEF s
  <2> QED BY <1>2, <1>4, CutAdds
<1>6. s \notin Slots(g)
  <2> HIDE DEF s
  <2>1. Slots(g) = Slots(heap) \ {s}
    BY <1>2, <1>4, WithoutCellFacts
  <2> QED BY <2>1
<1> HIDE DEF g, z
<1>7. Adds(g, k, <<>>)
  BY <1>3, <1>5, SettledPaths
<1>8. ~Writing(zip[i]) /\ ~Writing(y[i])
  BY <1>1 DEF Writing, Sharing
<1>9. \A e \in Zipper : Writing(y[e]) => y[e].abs \in Seq(Byte)
  BY <1>1, <1>8, AbsAfter
<1>10. ASSUME NEW o, NEW p \in Seq(Byte), NEW b \in Byte, Leads(k, o, p, b)
       PROVE  o # i /\ Leads(heap, o, p, b)
  <2>1. Leads(g, o, p, b)
    BY <1>7, <1>10, AddsLeads
  <2>2. Leads(heap, o, p, b)
    BY <1>5, <2>1, AddsLeads
  <2>3. o # i
    BY <1>6, <2>1 DEF Leads
  <2> QED BY <2>2, <2>3
<1> DEFINE e == <<>>
<1>11. e \in Seq(Byte) /\ (e = <<>> \/ Awaited(y, e))
  OBVIOUS
<1>12. \A o : \A p \in Seq(Byte) : \A b \in Byte : Leads(k, o, p, b) =>
              \/ o # i /\ Leads(heap, o, p, b)
              \/ o = "map" /\ Begins(Append(p, b), e)
              \/ Bears(k, o, Append(p, b))
  BY <1>10
<1> HIDE DEF e
<1> QED BY <1>1, <1>8, <1>9, <1>11, <1>12, TendQuiet

\* What brings no path after what brings the beginnings of a.
LEMMA AddsThen ==
    ASSUME NEW h, NEW g, NEW k, NEW a, Adds(h, g, a), Adds(g, k, <<>>)
    PROVE  Adds(h, k, a)
<1>1. ASSUME NEW o, NEW p \in Seq(Byte), NEW b \in Byte, Leads(k, o, p, b)
      PROVE  Leads(h, o, p, b) \/ (o = "map" /\ Begins(Append(p, b), a))
  <2>1. Leads(g, o, p, b)
    BY <1>1, AddsLeads
  <2> QED BY <2>1 DEF Adds
<1> QED BY <1>1 DEF Adds

\* A writer sets or removes the value at path a: the paths there are tended if those that have
\* lost their fruit lead to the writer.
LEMMA AssignTends ==
    ASSUME Good, Tended(heap, zip), NEW i \in Zipper, Writing(zip[i]),
           \A j \in Zipper : Alike(zip[j], zip'[j]),
           NEW a \in Seq(Byte), NEW v, Assigned(heap, heap', a, v),
           NEW k, k = heap', NEW y, y = zip', Adds(heap, k, a),
           v = NoVal => \A p \in Seq(Byte) : \A b \in Byte :
              Leads(k, "map", p, b) /\ Begins(Append(p, b), a) =>
                 Bears(k, "map", Append(p, b)) \/ Begins(Append(p, b), zip[i].abs)
    PROVE  Tended(k, y)
<1>1. zip[i].abs \in Seq(Byte)
  BY GoodFacts
<1>2. SameSeen(heap, heap', {"map"}) /\ Sees(k, "map", a) = v
      /\ \A q \in Seq(Byte) : q # a => Sees(k, "map", q) = Sees(heap, "map", q)
  BY DEF Assigned
<1>3. ASSUME NEW p \in Seq(Byte), NEW b \in Byte, Leads(k, "map", p, b), Begins(Append(p, b), a)
      PROVE  Bears(k, "map", Append(p, b)) \/ Begins(Append(p, b), zip[i].abs)
  <2>1. CASE v # NoVal
    <3>1. Append(p, b) \in Seq(Byte) /\ Sees(k, "map", a) # NoVal
      BY <1>2, <2>1, BeginsAppend
    <3>2. Bears(k, "map", Append(p, b))
      BY <1>3, <3>1, BearsValue
    <3> QED BY <3>2
  <2>2. CASE v = NoVal
    BY <1>3, <2>2
  <2> QED BY <2>1, <2>2
<1>4. ASSUME NEW o, NEW p \in Seq(Byte), NEW b \in Byte, Leads(k, o, p, b)
      PROVE  \/ /\ Leads(heap, o, p, b)
                /\ o = "map" /\ Bears(heap, o, Append(p, b)) =>
                      Bears(k, o, Append(p, b)) \/ Begins(Append(p, b), zip[i].abs)
             \/ o = "map" /\ (Bears(k, o, Append(p, b)) \/ Begins(Append(p, b), zip[i].abs))
  <2> DEFINE q == Append(p, b)
  <2>1. q \in Seq(Byte)
    BY BeginsAppend
  <2>2. Leads(heap, o, p, b) \/ (o = "map" /\ Begins(q, a))
    BY <1>4 DEF Adds
  <2>3. o = "map" /\ Begins(q, a) => Bears(k, o, q) \/ Begins(q, zip[i].abs)
    BY <1>3, <1>4
  <2> HIDE DEF q
  <2>4. ASSUME o = "map", Bears(heap, o, q), ~Begins(q, a)
        PROVE  Bears(k, o, q)
    <3>1. PICK a1 \in Seq(Byte) : Begins(q, a1) /\ Sees(heap, o, a1) # NoVal
      BY <2>1, <2>4, BearsWhere
    <3>2. a1 # a
      BY <2>4, <3>1
    <3>3. Sees(k, o, a1) # NoVal
      BY <1>2, <2>4, <3>1, <3>2
    <3> QED BY <2>1, <3>1, <3>3, BearsValue
  <2>5. \/ /\ Leads(heap, o, p, b)
           /\ o = "map" /\ Bears(heap, o, q) => Bears(k, o, q) \/ Begins(q, zip[i].abs)
        \/ o = "map" /\ (Bears(k, o, q) \/ Begins(q, zip[i].abs))
    BY <2>2, <2>3, <2>4
  <2> QED BY <2>5 DEF q
<1>5. \A o : \A p \in Seq(Byte) : \A b \in Byte : Leads(k, o, p, b) =>
              \/ /\ Leads(heap, o, p, b)
                 /\ o = "map" /\ Bears(heap, o, Append(p, b)) =>
                       Bears(k, o, Append(p, b)) \/ Begins(Append(p, b), zip[i].abs)
              \/ o = "map" /\ (Bears(k, o, Append(p, b)) \/ Begins(Append(p, b), zip[i].abs))
  BY <1>4
<1> QED BY <1>1, <1>2, <1>5, TendWritten

\* set_val: the path that is new, if any, has a value at its end.
LEMMA SetTends ==
    ASSUME Good, Seen, Tended(heap, zip), NEW i \in Zipper, NEW r \in Seq(Byte), NEW v \in Val,
           Set(i, r, v), NEW k, k = heap', NEW y, y = zip'
    PROVE  Tended(k, y)
<1> DEFINE p == zip[i].abs
           a == p \o r
           w == Walk(heap, zip[i].slot, r)
           h == HeapOf(w)
           s == SlotOf(w)
           d == [At(h, s) EXCEPT !.val = v]
           g == WithCell(h, s, d)
<1>1. CanWrite(i) /\ Settle(g, zip)
  BY DEF Set, WriterStep, HeapOf, SlotOf
<1>2. /\ HeapOK(heap) /\ zip[i].slot \in Slots(heap) /\ Writing(zip[i]) /\ p \in Seq(Byte)
      /\ \E c : Chain(heap, p, c) /\ Stop(c, Len(p)) = zip[i].slot
  BY <1>1, WriterChain
<1>3. Assigned(heap, heap', a, v) /\ \A j \in Zipper : Alike(zip[j], zip'[j])
  BY SetEffect
<1> HIDE DEF p
<1>4. a \in Seq(Byte)
  BY <1>2, ConcatFacts
<1>5. HeapOK(h) /\ s \in Slots(h)
  BY <1>2, WalkFacts
<1>6. Adds(heap, h, a)
  <2>1. PICK c : Chain(heap, p, c) /\ Stop(c, Len(p)) = zip[i].slot
    BY <1>2
  <2> DEFINE t == zip[i].slot
  <2>2. t = Stop(c, Len(p)) /\ h = HeapOf(Walk(heap, t, r))
    BY <2>1
  <2> HIDE DEF t, h
  <2> QED BY <1>2, <2>1, <2>2, WalkAdds
<1> HIDE DEF w, h, s
<1>7. d \in CellType(h) /\ d.rec = NodeIn(h, s)
  BY <1>5, ValueCell
<1> HIDE DEF d
<1>8. HeapOK(g) /\ Adds(h, g, <<>>)
  BY <1>5, <1>7, ValueAdds
<1> HIDE DEF g, a
<1>9. Adds(g, k, <<>>)
  BY <1>1, <1>8, SettledPaths
<1>10. Adds(heap, g, a)
  BY <1>6, <1>8, AddsThen
<1>11. Adds(heap, k, a)
  BY <1>9, <1>10, AddsThen
<1>12. v # NoVal
  BY HeadAssumption
<1> QED BY <1>2, <1>3, <1>4, <1>11, <1>12, AssignTends

\* remove_val at the writer's root: the paths that lose their fruit lead to the writer.
LEMMA RemoveRootValTends ==
    ASSUME Good, Seen, Tended(heap, zip), NEW i \in Zipper, RemoveRootVal(i),
           NEW k, k = heap', NEW y, y = zip'
    PROVE  Tended(k, y)
<1> DEFINE a == zip[i].abs
           h == heap
           s == zip[i].slot
           d == [At(h, s) EXCEPT !.val = NoVal]
           g == WithCell(h, s, d)
<1>1. CanWrite(i) /\ Settle(g, zip)
  BY DEF RemoveRootVal, WriterStep, CellOf
<1>2. HeapOK(h) /\ s \in Slots(h) /\ Writing(zip[i]) /\ a \in Seq(Byte)
  BY <1>1, WriterChain
<1>3. Assigned(heap, heap', a, NoVal) /\ \A j \in Zipper : Alike(zip[j], zip'[j])
  BY RemoveRootValEffect
<1>4. h = heap /\ a = zip[i].abs
  OBVIOUS
<1> HIDE DEF a, h, s
<1>5. d \in CellType(h) /\ d.rec = NodeIn(h, s)
  <2> DEFINE v == NoVal
  <2>1. v \in Val \cup {NoVal} /\ d = [At(h, s) EXCEPT !.val = v]
    OBVIOUS
  <2> HIDE DEF v, d
  <2> QED BY <1>2, <2>1, ValueCell
<1> HIDE DEF d
<1>6. HeapOK(g) /\ Adds(h, g, <<>>)
  BY <1>2, <1>5, ValueAdds
<1> HIDE DEF g
<1>7. Adds(g, k, <<>>)
  BY <1>1, <1>6, SettledPaths
<1>8. Adds(heap, k, <<>>)
  BY <1>4, <1>6, <1>7, AddsThen
<1>9. Adds(heap, k, a)
  BY <1>8, AddsNothing
<1> DEFINE v == NoVal
<1>10. Assigned(heap, heap', a, v)
  BY <1>3
<1>11. v = NoVal => \A p \in Seq(Byte) : \A b \in Byte :
              Leads(k, "map", p, b) /\ Begins(Append(p, b), a) =>
                 Bears(k, "map", Append(p, b)) \/ Begins(Append(p, b), zip[i].abs)
  BY <1>4
<1> HIDE DEF v
<1> QED BY <1>2, <1>3, <1>9, <1>10, <1>11, AssignTends

\* Nodes are functions: one without cells is the empty node.
Shape(f) == f = [b \in DOMAIN f |-> f[b]]
Shaped(h) == \A n \in DOMAIN h : Shape(h[n])

\* What is made by Put is a function.
LEMMA PutShape ==
    ASSUME NEW f, NEW x, NEW v
    PROVE  Shape(Put(f, x, v))
<1> DEFINE S == DOMAIN f \cup {x}
           e(y) == IF y = x THEN v ELSE f[y]
           g == [y \in S |-> e(y)]
<1>1. Put(f, x, v) = g
  BY DEF Put
<1> HIDE DEF S, e
<1>2. DOMAIN g = S /\ \A y \in S : g[y] = e(y)
  OBVIOUS
<1>3. g = [y \in S |-> g[y]]
  BY <1>2
<1> HIDE DEF g
<1>4. g = [y \in DOMAIN g |-> g[y]]
  BY <1>2, <1>3
<1> QED BY <1>1, <1>4 DEF Shape

\* The empty node is one.
LEMMA EmptyShape == Shape(EmptyNode) /\ \A f : Shape(f) /\ DOMAIN f = {} => f = EmptyNode
<1>1. DOMAIN EmptyNode = {} /\ EmptyNode = [b \in DOMAIN EmptyNode |-> EmptyNode[b]]
  BY DEF EmptyNode
<1>2. ASSUME NEW f, Shape(f), DOMAIN f = {}
      PROVE  f = EmptyNode
  <2>1. f = [b \in DOMAIN f |-> f[b]]
    BY <1>2 DEF Shape
  <2> HIDE DEF EmptyNode
  <2> QED BY <1>1, <1>2, <2>1
<1> HIDE DEF EmptyNode
<1> QED BY <1>1, <1>2 DEF Shape

\* A cell written, and a node added, leave nodes to be functions.
LEMMA WithCellShaped ==
    ASSUME NEW h, Shaped(h), NEW s, NEW c
    PROVE  Shaped(WithCell(h, s, c))
<1> DEFINE v == Put(h[s[1]], s[2], c)
           g == [h EXCEPT ![s[1]] = v]
<1>1. WithCell(h, s, c) = g
  BY DEF WithCell
<1>2. Shape(v)
  BY PutShape
<1> HIDE DEF v
<1>3. DOMAIN g = DOMAIN h /\ \A n \in DOMAIN h : g[n] = v \/ g[n] = h[n]
  OBVIOUS
<1> HIDE DEF g
<1> QED BY <1>1, <1>2, <1>3 DEF Shaped

\* So does a new node.
LEMMA AllocateShaped ==
    ASSUME NEW h, Shaped(h), NEW s, NEW node, Shape(node)
    PROVE  Shaped(Allocate(h, s, node))
<1>1. \E m, c : Allocate(h, s, node) = WithCell(Put(h, m, node), s, c)
  BY DEF Allocate
<1>2. PICK m, c : Allocate(h, s, node) = WithCell(Put(h, m, node), s, c)
  BY <1>1
<1>3. Shaped(Put(h, m, node))
  <2> DEFINE g == Put(h, m, node)
  <2>1. DOMAIN g = DOMAIN h \cup {m} /\ \A n \in DOMAIN g : g[n] = IF n = m THEN node ELSE h[n]
    BY DEF Put
  <2> HIDE DEF g
  <2>2. Shaped(g)
    BY <2>1 DEF Shaped
  <2> QED BY <2>2 DEF g
<1>4. Shaped(WithCell(Put(h, m, node), s, c))
  BY <1>3, WithCellShaped
<1> QED BY <1>2, <1>4

\* A walk leaves nodes to be functions.
LEMMA WalkShaped ==
    ASSUME NEW h, HeapOK(h), Shaped(h), NEW s \in Slots(h), NEW r \in Seq(Byte)
    PROVE  Shaped(HeapOf(Walk(h, s, r)))
<1> DEFINE S == {q \in Seq(Byte) : Shaped(HeapOf(Walk(h, s, q)))}
<1>1. <<>> \in S
  BY WalkEmpty
<1>2. ASSUME NEW q \in Seq(Byte), q \in S, NEW b \in Byte
      PROVE  Append(q, b) \in S
  <2> DEFINE w == Walk(h, s, q)
             f == HeapOf(w)
             u == SlotOf(w)
             g == MakeMut(f, u)
             t == <<At(g, u).rec, b>>
  <2>1. Shaped(f) /\ HeapOK(f) /\ u \in Slots(f)
    BY <1>2, WalkFacts
  <2>2. Append(q, b) \in Seq(Byte) /\ Walk(h, s, Append(q, b)) = Descend(f, u, b)
    BY WalkAppend
  <2>3. HeapOf(Descend(f, u, b)) = IF Attached(g, t) THEN g ELSE WithCell(g, t, NoCell)
    BY DEF Descend, HeapOf
  <2> HIDE DEF w, f, u
  <2>4. Shaped(g)
    <3>1. CASE At(f, u).rec = NoNode
      <4>1. g = Allocate(f, u, EmptyNode)
        BY <3>1 DEF MakeMut
      <4> QED BY <2>1, <4>1, AllocateShaped, EmptyShape
    <3>2. CASE At(f, u).rec # NoNode /\ Refs(f, At(f, u).rec) > 1
      <4>1. g = Allocate(f, u, f[At(f, u).rec])
        BY <3>2 DEF MakeMut
      <4>2. At(f, u).rec \in DOMAIN f
        BY <2>1, <3>2, HeapFacts DEF NodeIn
      <4>3. Shape(f[At(f, u).rec])
        BY <2>1, <4>2 DEF Shaped
      <4> HIDE DEF g
      <4> QED BY <2>1, <4>1, <4>3, AllocateShaped
    <3>3. CASE At(f, u).rec # NoNode /\ ~(Refs(f, At(f, u).rec) > 1)
      <4>1. g = f
        BY <3>3 DEF MakeMut
      <4> QED BY <2>1, <4>1
    <3> QED BY <3>1, <3>2, <3>3
  <2> HIDE DEF g, t
  <2>5. Shaped(HeapOf(Descend(f, u, b)))
    <3>1. CASE Attached(g, t)
      BY <2>3, <2>4, <3>1
    <3>2. CASE ~Attached(g, t)
      <4>1. Shaped(WithCell(g, t, NoCell))
        BY <2>4, WithCellShaped
      <4> QED BY <2>3, <3>2, <4>1
    <3> QED BY <3>1, <3>2
  <2> QED BY <2>2, <2>5
<1> HIDE DEF S
<1>3. \A q \in Seq(Byte) : q \in S
  BY <1>1, <1>2, PathInduction
<1> QED BY <1>3 DEF S

\* So does settling, always.
LEMMA SettleShaped ==
    ASSUME NEW h, NEW z, Settle(h, z), NEW k, k = heap'
    PROVE  Shaped(k)
<1> DEFINE ways == [n \in DOMAIN h \cup {NoNode} |-> IF n = NoNode THEN NoNode ELSE Ways(h, n)]
           node(x) == h[CHOOSE n \in DOMAIN h : ways[n] = x]
           renamed(n) == [b \in DOMAIN n |-> [n[b] EXCEPT !.rec = ways[@]]]
           D == {ways[n] : n \in DOMAIN h} \ {NoNode}
<1>1. k = [x \in D |-> renamed(node(x))]
  BY DEF Settle
<1>2. \A n : Shape(renamed(n))
  BY DEF Shape
<1> HIDE DEF D, renamed, node
<1>3. DOMAIN k = D /\ \A x \in D : k[x] = renamed(node(x))
  BY <1>1
<1> QED BY <1>2, <1>3 DEF Shaped

\* From a node that is not empty a byte leads on.
LEMMA NotEmptyLeads ==
    ASSUME NEW h, HeapOK(h), Shaped(h), NEW s \in Slots(h), ~IsEmpty(h, NodeIn(h, s))
    PROVE  \E b \in Byte : <<NodeIn(h, s), b>> \in Slots(h)
<1> DEFINE n == NodeIn(h, s)
<1>1. n # NoNode /\ h[n] # EmptyNode
  BY DEF IsEmpty
<1>2. n \in DOMAIN h /\ n # Roots
  BY <1>1, HeapFacts
<1> HIDE DEF n
<1>3. DOMAIN h[n] # {}
  BY <1>1, <1>2, EmptyShape DEF Shaped
<1>4. PICK b : b \in DOMAIN h[n]
  BY <1>3
<1>5. <<n, b>> \in Slots(h)
  BY <1>2, <1>4, SlotsDef
<1>6. b \in Byte
  <2> DEFINE t == <<n, b>>
  <2>1. t[1] = n /\ t[2] = b /\ t \in Slots(h)
    BY <1>5
  <2> HIDE DEF t
  <2>2. t[2] \in IF t[1] = Roots THEN Owner ELSE Byte
    BY <2>1, HeapFacts DEF Named
  <2> QED BY <1>2, <2>1, <2>2
<1> QED BY <1>5, <1>6 DEF n

\* A path that exists below the place of an open writer has its fruit there.
LEMMA BelowWriter ==
    ASSUME Good, Tended(heap, zip), NEW i \in Zipper, Writing(zip[i]), zip[i].abs \in Seq(Byte),
           NEW p \in Seq(Byte), NEW b \in Byte, Leads(heap, "map", p, b),
           Begins(zip[i].abs, p)
    PROVE  Bears(heap, "map", Append(p, b))
<1> DEFINE q == Append(p, b)
           a == zip[i].abs
<1>1. q \in Seq(Byte) /\ Begins(p, q) /\ ~Begins(q, p)
  BY BeginsAppend
<1>2. Fruitful(heap, zip, "map", q)
  BY DEF Tended
<1> HIDE DEF q
<1>3. Begins(a, q)
  BY <1>1, BeginsTrans
<1>4. ~Begins(q, a)
  <2>1. SUFFICES ASSUME Begins(q, a) PROVE FALSE
    OBVIOUS
  <2>2. Begins(q, p)
    BY <1>1, <2>1, BeginsTrans
  <2> QED BY <1>1, <2>2
<1>5. a = head.base \o zip[i].path /\ Holds(zip[i])
  <2>1. zip[i] # NoZipper /\ zip[i].stage \in {"open", "leaving"}
    BY DEF Writing
  <2>2. Lawful(head, zip[i])
    BY <2>1, ZipTypes
  <2> QED BY <2>1, <2>2 DEF Lawful, Holds
<1> HIDE DEF a
<1>6. ~Awaited(zip, q)
  <2>1. Writing(zip[i]) => ~Begins(q, zip[i].abs)
    BY <1>4 DEF a
  <2> QED BY <1>1, <1>3, <1>5, <2>1, NoOneBelow
<1> QED BY <1>2, <1>6 DEF Fruitful, q

\* remove_val(true) one byte below the root: the path there is gone, or leads on to a value;
\* those above lead to the writer.
LEMMA RemoveValBelowTends ==
    ASSUME Good, Seen, Tended(heap, zip), Shaped(heap), NEW i \in Zipper, NEW b \in Byte,
           RemoveValBelow(i, b), NEW k, k = heap', NEW y, y = zip'
    PROVE  Tended(k, y)
<1> DEFINE p == zip[i].abs
           r == <<b>>
           a == Append(p, b)
           w == Walk(heap, zip[i].slot, r)
           h == HeapOf(w)
           s == SlotOf(w)
           d == [At(h, s) EXCEPT !.val = NoVal]
           g == IF IsEmpty(h, d.rec) THEN WithoutCell(h, s) ELSE WithCell(h, s, d)
<1>1. CanWrite(i) /\ Settle(g, zip)
  BY DEF RemoveValBelow, WriterStep, HeapOf, SlotOf
<1>2. /\ HeapOK(heap) /\ zip[i].slot \in Slots(heap) /\ Writing(zip[i]) /\ p \in Seq(Byte)
      /\ \E c : Chain(heap, p, c) /\ Stop(c, Len(p)) = zip[i].slot
  BY <1>1, WriterChain
<1>0. r \in Seq(Byte)
  OBVIOUS
<1>3. p \o r = a /\ a \in Seq(Byte) /\ a # <<>> /\ Begins(p, a) /\ ~Begins(a, p)
  <2>1. p \in Seq(Byte)
    BY <1>2
  <2> HIDE DEF p
  <2>2. p \o r = a /\ a # <<>>
    BY <2>1
  <2> QED BY <2>1, <2>2, BeginsAppend
<1> HIDE DEF r
<1>4. Assigned(heap, heap', a, NoVal) /\ \A j \in Zipper : Alike(zip[j], zip'[j])
  BY RemoveValBelowEffect
<1>5. HeapOK(h) /\ s \in Slots(h) /\ Shaped(h)
  BY <1>0, <1>2, WalkFacts, WalkShaped
<1>6. Adds(heap, h, a) /\ \E e : Chain(h, a, e) /\ Stop(e, Len(a)) = s
  <2> DEFINE t == zip[i].slot
  <2> HIDE DEF p
  <2>1. PICK c : Chain(heap, p, c) /\ Stop(c, Len(p)) = t
    BY <1>2
  <2>2. t = Stop(c, Len(p)) /\ w = Walk(heap, t, r)
    BY <2>1
  <2>3. t \in Slots(heap)
    BY <1>2
  <2> HIDE DEF t, w
  <2>4. Adds(heap, HeapOf(Walk(heap, t, r)), p \o r)
    BY <1>0, <1>2, <2>1, <2>2, WalkAdds
  <2>5. \E e : /\ Chain(HeapOf(Walk(heap, t, r)), p \o r, e)
               /\ \A n \in 0..Len(p) : Stop(e, n) = Stop(c, n)
               /\ Stop(e, Len(p \o r)) = SlotOf(Walk(heap, t, r))
    BY <1>0, <1>2, <2>1, <2>2, <2>3, WalkOwn
  <2> HIDE DEF a
  <2> QED BY <1>3, <2>2, <2>4, <2>5
<1>7. PICK e : Chain(h, a, e) /\ Stop(e, Len(a)) = s
  BY <1>6
<1> HIDE DEF w, h, s
<1>8. d \in CellType(h) /\ d.rec = NodeIn(h, s)
  <2> DEFINE v == NoVal
  <2>1. v \in Val \cup {NoVal} /\ d = [At(h, s) EXCEPT !.val = v]
    OBVIOUS
  <2> HIDE DEF v, d
  <2> QED BY <1>5, <2>1, ValueCell
<1> HIDE DEF d
<1>9. p = zip[i].abs /\ a = Append(p, b)
  OBVIOUS
<1> HIDE DEF a, p
<1>10. s # HeadSlot
  <2>1. Len(a) \in 0..Len(a) /\ Len(a) # 0
    BY <1>3
  <2>2. s[1] # Roots
    BY <1>3, <1>5, <1>7, <2>1, ChainFacts
  <2> QED BY <2>2 DEF HeadSlot
<1>11. HeapOK(g) /\ Adds(h, g, <<>>)
  <2>1. CASE IsEmpty(h, d.rec)
    <3>1. g = WithoutCell(h, s)
      BY <2>1
    <3> HIDE DEF g
    <3> QED BY <1>5, <1>10, <3>1, CutAdds
  <2>2. CASE ~IsEmpty(h, d.rec)
    <3>1. g = WithCell(h, s, d)
      BY <2>2
    <3> HIDE DEF g
    <3> QED BY <1>5, <1>8, <3>1, ValueAdds
  <2> QED BY <2>1, <2>2
<1>12. Adds(g, k, <<>>)
  <2> HIDE DEF g
  <2> QED BY <1>1, <1>11, SettledPaths
<1>13. Adds(heap, k, a)
  <2> HIDE DEF g
  <2>1. Adds(heap, g, a)
    BY <1>6, <1>11, AddsThen
  <2> QED BY <1>12, <2>1, AddsThen
<1>14. ASSUME NEW p1 \in Seq(Byte), NEW b1 \in Byte, Leads(k, "map", p1, b1), Append(p1, b1) = a
       PROVE  Bears(k, "map", a)
  <2>1. Leads(g, "map", p1, b1)
    <3> HIDE DEF g
    <3> QED BY <1>12, <1>14, AddsLeads
  <2>2. CASE IsEmpty(h, d.rec)
    <3>1. g = WithoutCell(h, Stop(e, Len(a)))
      BY <1>7, <2>2
    <3> HIDE DEF g
    <3>2. Begins(a, Append(p1, b1))
      BY <1>3, <1>14 DEF Begins
    <3>3. ~Leads(g, "map", p1, b1)
      BY <1>3, <1>5, <1>7, <3>1, <3>2, CutLeads
    <3> QED BY <2>1, <3>3
  <2>3. CASE ~IsEmpty(h, d.rec)
    <3>1. PICK b3 \in Byte : <<NodeIn(h, s), b3>> \in Slots(h)
      BY <1>5, <1>8, <2>3, NotEmptyLeads
    <3>2. CellBelow(h, At(h, HeadSlot), a) = At(h, s)
      <4>1. Begins(a, a)
        BY <1>3 DEF Begins
      <4> QED BY <1>3, <1>5, <1>7, <4>1, CellBelowChain
    <3>3. Leads(h, "map", a, b3)
      <4>1. HeadSlot \in Slots(h) /\ On(h, At(h, s), b3)
        BY <1>5, <3>1, HeapFacts DEF On, NodeIn
      <4> QED BY <3>2, <4>1 DEF Leads, HeadSlot
    <3> DEFINE q == Append(a, b3)
    <3>4. q \in Seq(Byte) /\ Begins(a, q) /\ ~Begins(q, a)
      BY <1>3, BeginsAppend
    <3>5. Leads(heap, "map", a, b3)
      BY <1>3, <1>6, <3>3, <3>4 DEF Adds
    <3>6. Bears(heap, "map", q)
      BY <1>2, <1>3, <1>9, <3>5, BelowWriter
    <3> HIDE DEF q
    <3>7. PICK a1 \in Seq(Byte) : Begins(q, a1) /\ Sees(heap, "map", a1) # NoVal
      BY <3>4, <3>6, BearsWhere
    <3>8. a1 # a /\ Begins(a, a1)
      BY <1>3, <3>4, <3>7, BeginsTrans
    <3>9. Sees(k, "map", a1) # NoVal
      BY <1>4, <3>7, <3>8 DEF Assigned
    <3> QED BY <1>3, <3>8, <3>9, BearsValue
  <2> QED BY <2>2, <2>3
<1> HIDE DEF g
<1>15. ASSUME NEW p1 \in Seq(Byte), NEW b1 \in Byte, Leads(k, "map", p1, b1), Begins(Append(p1, b1), a)
       PROVE  Bears(k, "map", Append(p1, b1)) \/ Begins(Append(p1, b1), zip[i].abs)
  <2> DEFINE q == Append(p1, b1)
  <2>1. q \in Seq(Byte)
    BY BeginsAppend
  <2>2. CASE q = a
    <3>1. Bears(k, "map", a)
      BY <1>14, <1>15, <2>2
    <3> QED BY <2>2, <3>1
  <2>3. CASE q # a
    <3> HIDE DEF q
    <3>1. Begins(q, Append(p, b))
      BY <1>9, <1>15 DEF q
    <3>2. Begins(q, p)
      BY <1>2, <1>9, <2>1, <2>3, <3>1, BeginsOneLess
    <3> QED BY <1>9, <3>2 DEF q
  <2> QED BY <2>2, <2>3
<1> DEFINE v == NoVal
<1>16. Assigned(heap, heap', a, v)
  BY <1>4
<1>17. v = NoVal => \A p1 \in Seq(Byte) : \A b1 \in Byte :
              Leads(k, "map", p1, b1) /\ Begins(Append(p1, b1), a) =>
                 Bears(k, "map", Append(p1, b1)) \/ Begins(Append(p1, b1), zip[i].abs)
  BY <1>15
<1> HIDE DEF v
<1> QED BY <1>2, <1>3, <1>4, <1>13, <1>16, <1>17, AssignTends

\* A path that goes by a, one longer, and longer yet.
LEMMA OnwardPaths ==
    ASSUME NEW a \in Seq(Byte), NEW r \in Seq(Byte), NEW b \in Byte
    PROVE  /\ Append(r, b) \in Seq(Byte) /\ Append(a \o r, b) = a \o Append(r, b)
           /\ \A x \in Seq(Byte) : (a \o Append(r, b)) \o x = a \o (Append(r, b) \o x)
<1>1. Append(r, b) \in Seq(Byte)
  BY BeginsAppend
<1> a \o Append(r, b) = Append(a \o r, b)
  <2>1. \A c \in Byte : a \o Append(r, c) = Append(a \o r, c)
    BY ConcatFacts
  <2> QED BY <2>1
<1>2. Append(a \o r, b) = a \o Append(r, b)
  OBVIOUS
<1>3. ASSUME NEW x \in Seq(Byte)
      PROVE  (a \o Append(r, b)) \o x = a \o (Append(r, b) \o x)
  BY <1>1, ConcatThree
<1> QED BY <1>1, <1>2, <1>3

\* What a graft brings has the fruit it had where it comes from; what was there before keeps
\* its fruit or leads to the writer.
LEMMA GraftedTends ==
    ASSUME Good, Seen, Tended(heap, zip), NEW i \in Zipper, Writing(zip[i]),
           NEW a, a = zip[i].abs, a \in Seq(Byte),
           NEW j \in Zipper, zip[j] # NoZipper, zip[j].stage \in {"open", "map"},
           NEW x, x = CellOf(j), NEW k, k = heap', NEW y, y = zip',
           Grafts(heap, k, a, x), Grafted(heap, k, a, x), \A e \in Zipper : Alike(zip[e], zip'[e])
    PROVE  Tended(k, y)
<1>1. SameSeen(heap, heap', {"map"})
      /\ (\A r \in Seq(Byte) : Sees(k, "map", a \o r) = Value(heap, x, r))
      /\ \A q \in Seq(Byte) : ~Begins(a, q) => Sees(k, "map", q) = Sees(heap, "map", q)
  BY DEF Grafted
<1>2. ASSUME NEW p \in Seq(Byte), NEW b \in Byte, ~Begins(a, p), Bears(heap, "map", Append(p, b))
      PROVE  Bears(k, "map", Append(p, b)) \/ Begins(Append(p, b), a)
  <2> DEFINE q == Append(p, b)
  <2>1. q \in Seq(Byte) /\ Bears(heap, "map", q)
    BY <1>2, BeginsAppend
  <2>2. ASSUME Begins(a, q)
        PROVE  Begins(q, a)
    <3>1. a = q
      BY <1>2, <2>2, BeginsOneLess
    <3> HIDE DEF q
    <3> QED BY <2>1, <3>1 DEF Begins
  <2> HIDE DEF q
  <2>3. PICK a1 \in Seq(Byte) : Begins(q, a1) /\ Sees(heap, "map", a1) # NoVal
    BY <2>1, BearsWhere
  <2>4. CASE ~Begins(a, a1)
    <3>1. Sees(k, "map", a1) # NoVal
      BY <1>1, <2>3, <2>4
    <3>2. Bears(k, "map", q)
      BY <2>1, <2>3, <3>1, BearsValue
    <3> QED BY <3>2 DEF q
  <2>5. CASE Begins(a, a1)
    <3>1. PICK r \in Seq(Byte) : a1 = q \o r
      BY <2>1, <2>3, BeginsRest
    <3>2. Begins(a, q) \/ Begins(q, a)
      BY <2>1, <2>5, <3>1, BeginsBoth
    <3>3. Begins(q, a)
      BY <2>2, <3>2
    <3> QED BY <3>3 DEF q
  <2> QED BY <2>4, <2>5
<1>3. ASSUME NEW p \in Seq(Byte), NEW b \in Byte, Onward(heap, a, x, p, b)
      PROVE  Bears(k, "map", Append(p, b))
  <2>1. PICK r \in Seq(Byte) : p = a \o r /\ On(heap, CellBelow(heap, x, r), b)
    BY <1>3 DEF Onward
  <2> DEFINE u == Append(r, b)
  <2>0. a \in Seq(Byte) /\ r \in Seq(Byte)
    BY <2>1
  <2>1a. /\ u \in Seq(Byte) /\ Append(a \o r, b) = a \o u
         /\ \A v \in Seq(Byte) : (a \o u) \o v = a \o (u \o v)
    BY <2>0, OnwardPaths
  <2>2. u \in Seq(Byte) /\ Append(p, b) = a \o u
    BY <2>1, <2>1a
  <2>3. Yields(heap, x, u)
    <3>1. On(heap, CellBelow(heap, CellOf(j), r), b)
      BY <2>1
    <3>2. Yields(heap, CellOf(j), Append(r, b))
      BY <3>1, SourceFruit
    <3> QED BY <3>2
  <2> HIDE DEF u
  <2>4. PICK r2 \in Seq(Byte) : Value(heap, x, u \o r2) # NoVal
    BY <2>3 DEF Yields
  <2>5. u \o r2 \in Seq(Byte)
    BY <2>2, ConcatFacts
  <2>6. Sees(k, "map", a \o (u \o r2)) # NoVal
    <3> DEFINE v == u \o r2
    <3>1. v \in Seq(Byte) /\ Value(heap, x, v) # NoVal
      BY <2>4, <2>5
    <3> HIDE DEF v
    <3>2. Sees(k, "map", a \o v) # NoVal
      BY <1>1, <3>1
    <3> QED BY <3>2 DEF v
  <2>7. (a \o u) \o r2 = a \o (u \o r2)
    BY <2>1a
  <2>8. Sees(k, "map", (a \o u) \o r2) # NoVal
    BY <2>6, <2>7
  <2>9. Bears(k, "map", a \o u)
    BY <2>8 DEF Bears
  <2> QED BY <2>2, <2>9
<1>4. ASSUME NEW o, NEW p \in Seq(Byte), NEW b \in Byte, Leads(k, o, p, b)
      PROVE  \/ /\ Leads(heap, o, p, b)
                /\ o = "map" /\ Bears(heap, o, Append(p, b)) =>
                      Bears(k, o, Append(p, b)) \/ Begins(Append(p, b), zip[i].abs)
             \/ o = "map" /\ (Bears(k, o, Append(p, b)) \/ Begins(Append(p, b), zip[i].abs))
  <2>1. \/ Leads(heap, o, p, b) /\ (o = "map" => ~Begins(a, p))
        \/ o = "map" /\ Onward(heap, a, x, p, b)
    BY <1>4 DEF Grafts
  <2>2. CASE Leads(heap, o, p, b) /\ (o = "map" => ~Begins(a, p))
    <3>1. o = "map" /\ Bears(heap, o, Append(p, b)) =>
                      Bears(k, o, Append(p, b)) \/ Begins(Append(p, b), a)
      BY <1>2, <2>2
    <3> QED BY <2>2, <3>1
  <2>3. CASE o = "map" /\ Onward(heap, a, x, p, b)
    BY <1>3, <2>3
  <2> QED BY <2>1, <2>2, <2>3
<1>5. \A o : \A p \in Seq(Byte) : \A b \in Byte : Leads(k, o, p, b) =>
              \/ /\ Leads(heap, o, p, b)
                 /\ o = "map" /\ Bears(heap, o, Append(p, b)) =>
                       Bears(k, o, Append(p, b)) \/ Begins(Append(p, b), zip[i].abs)
              \/ o = "map" /\ (Bears(k, o, Append(p, b)) \/ Begins(Append(p, b), zip[i].abs))
  BY <1>4
<1>6. zip[i].abs \in Seq(Byte)
  OBVIOUS
<1> QED BY <1>1, <1>5, <1>6, TendWritten

\* graft at the writer's root: all paths have their fruit.
LEMMA GraftTends ==
    ASSUME Good, Seen, Tended(heap, zip), NEW i \in Zipper, NEW j \in Zipper, Graft(i, j),
           NEW f, f = heap', NEW y, y = zip'
    PROVE  Tended(f, y)
<1> DEFINE a == zip[i].abs
           s == zip[i].slot
           t == zip[j].slot
           x == CellOf(j)
           own == CellOf(i)
           k == CASE ~IsEmpty(heap, x.rec) -> WithCell(heap, s, [own EXCEPT !.rec = x.rec])
                  [] IsEmpty(heap, x.rec) /\ ~IsEmpty(heap, own.rec) -> Allocate(heap, s, EmptyNode)
                  [] OTHER -> heap
           d == [At(k, s) EXCEPT !.val = x.val]
           g == WithCell(k, s, d)
           z == zip
<1>1. Settle(g, z) /\ CanWrite(i)
  BY DEF Graft, WriterStep
<1>2. HeapOK(heap) /\ s \in Slots(heap) /\ a \in Seq(Byte) /\ Writing(zip[i])
  BY <1>1, WriterChain
<1>3. PICK c : Chain(heap, a, c) /\ Stop(c, Len(a)) = s
  BY <1>1, WriterChain
<1>4. zip[j] # NoZipper /\ zip[j].stage \in {"open", "map"}
  BY DEF Graft, Is
<1>5. t \in Slots(heap)
  BY <1>4, SlotSees
<1>6. x = At(heap, t) /\ own = At(heap, s)
  BY DEF CellOf
<1>7. Grafted(heap, heap', zip[i].abs, CellOf(j)) /\ \A e \in Zipper : Alike(zip[e], zip'[e])
  BY GraftEffect
<1>8. OffChain(c, Len(a) - 1, t)
  BY <1>2, <1>3, <1>4, SlotOff DEF Good
<1>9. x.val \in Val \cup {NoVal}
  BY <1>2, <1>5, <1>6, HeapFacts DEF CellType
<1>10. a = zip[i].abs /\ x = CellOf(j)
  OBVIOUS
<1> HIDE DEF a, s, t, x, own, z
<1>11. HeapOK(k) /\ Chain(k, a, c) /\ Grafts(heap, k, a, x)
  <2> DEFINE h == heap
             e == CASE ~IsEmpty(h, x.rec) -> WithCell(h, s, [own EXCEPT !.rec = x.rec])
                    [] IsEmpty(h, x.rec) /\ ~IsEmpty(h, own.rec) -> Allocate(h, s, EmptyNode)
                    [] OTHER -> h
  <2>1. /\ HeapOK(h) /\ Chain(h, a, c) /\ t \in Slots(h) /\ x = At(h, t) /\ own = At(h, s)
        /\ s = Stop(c, Len(a))
    BY <1>2, <1>3, <1>5, <1>6
  <2>2. k = e
    OBVIOUS
  <2> HIDE DEF h, k
  <2>3. HeapOK(e) /\ Chain(e, a, c)
    BY <1>2, <1>8, <2>1, GraftNode
  <2>4. Grafts(h, e, a, x)
    BY <1>2, <1>8, <2>1, GraftNodeLeads
  <2> HIDE DEF e
  <2> QED BY <2>2, <2>3, <2>4 DEF h
<1> HIDE DEF k
<1>12. s \in Slots(k)
  <2>1. Len(a) \in 0..Len(a)
    BY <1>2
  <2> QED BY <1>3, <1>11, <2>1 DEF Chain
<1>13. d \in CellType(k) /\ d.rec = NodeIn(k, s)
  <2> DEFINE v == x.val
  <2>1. v \in Val \cup {NoVal} /\ d = [At(k, s) EXCEPT !.val = v]
    BY <1>9
  <2> HIDE DEF v, d
  <2> QED BY <1>11, <1>12, <2>1, ValueCell
<1> HIDE DEF d
<1>14. HeapOK(g) /\ Adds(k, g, <<>>)
  BY <1>11, <1>12, <1>13, ValueAdds
<1> HIDE DEF g
<1>15. Adds(g, f, <<>>)
  BY <1>1, <1>14, SettledPaths
<1>16. Grafts(heap, g, a, x)
  BY <1>11, <1>14, GraftsThen
<1>17. Grafts(heap, f, a, x)
  BY <1>15, <1>16, GraftsThen
<1>18. Grafted(heap, f, a, x)
  BY <1>7, <1>10
<1> QED BY <1>2, <1>4, <1>7, <1>10, <1>17, <1>18, GraftedTends

\* What the head sees, and what leads on, at the stops of a chain.
LEMMA ChainLeads ==
    ASSUME NEW h, HeapOK(h), NEW a \in Seq(Byte), NEW c, Chain(h, a, c), NEW r \in Seq(Byte), Begins(r, a)
    PROVE  /\ Sees(h, "map", r) = ValIn(h, Stop(c, Len(r)))
           /\ \A b \in Byte : <<NodeIn(h, Stop(c, Len(r))), b>> \in Slots(h) => Leads(h, "map", r, b)
<1>1. CellBelow(h, At(h, HeadSlot), r) = At(h, Stop(c, Len(r)))
  BY CellBelowChain
<1>2. Sees(h, "map", r) = ValIn(h, Stop(c, Len(r)))
  BY <1>1 DEF Sees, Value, ValIn, HeadSlot
<1>3. ASSUME NEW b \in Byte, <<NodeIn(h, Stop(c, Len(r))), b>> \in Slots(h)
      PROVE  Leads(h, "map", r, b)
  <2>1. HeadSlot \in Slots(h)
    BY HeapFacts
  <2>2. On(h, At(h, Stop(c, Len(r))), b)
    BY <1>3 DEF On, NodeIn
  <2> QED BY <1>1, <2>1, <2>2 DEF Leads, HeadSlot
<1> QED BY <1>2, <1>3

\* From a node that branches more than one byte leads on.
LEMMA SecondChild ==
    ASSUME NEW h, HeapOK(h), NEW s \in Slots(h), NodeIn(h, s) # NoNode, Branches(h, s), NEW x
    PROVE  \E b \in Byte : b # x /\ <<NodeIn(h, s), b>> \in Slots(h)
<1> DEFINE n == NodeIn(h, s)
           D == DOMAIN h[n]
<1>1. n \in Nodes(h)
  BY HeapFacts DEF CellType, NodeIn
<1>2. Cardinality(D) > 1
  BY DEF Branches
<1>3. n \in DOMAIN h /\ n # Roots
  BY <1>1 DEF Nodes
<1> HIDE DEF n
<1>4. \A b \in D : <<n, b>> \in Slots(h)
  BY <1>3, SlotsDef
<1>5. \A b \in D : b \in Byte
  <2> SUFFICES ASSUME NEW b \in D
               PROVE  b \in Byte
    OBVIOUS
  <2>1. Named(h, <<n, b>>)
    BY <1>4, HeapFacts
  <2> QED BY <1>3, <2>1 DEF Named
<1> HIDE DEF D
<1>6. \E b \in D : b # x
  <2> SUFFICES ASSUME \A b \in D : b = x
               PROVE  FALSE
    OBVIOUS
  <2>1. D \subseteq {x}
    OBVIOUS
  <2>2. IsFiniteSet({x}) /\ Cardinality({x}) = 1
    BY FS_Singleton
  <2>3. Cardinality(D) <= Cardinality({x}) /\ IsFiniteSet(D)
    BY <2>1, <2>2, FS_Subset
  <2>4. Cardinality(D) \in Nat
    BY <2>3, FS_CardinalityType
  <2> QED BY <1>2, <2>2, <2>3, <2>4
<1> QED BY <1>4, <1>5, <1>6 DEF n

\* prune_path brings no path.
LEMMA PruneAdds ==
    ASSUME NEW h, HeapOK(h), NEW p \in Seq(Byte), p # <<>>, NEW c, Chain(h, p, c),
           NEW g, g = PruneEnd(h, p)
    PROVE  Adds(h, g, <<>>)
<1> DEFINE s == Stop(c, Len(p))
           d == [At(h, s) EXCEPT !.rec = NoNode]
<1>1. Len(p) \in 0..Len(p)
  OBVIOUS
<1>2. s \in Slots(h)
  BY <1>1 DEF Chain
<1>3. /\ At(h, s).val # NoVal => PruneEnd(h, p) = WithCell(h, s, d)
      /\ At(h, s).val = NoVal =>
             \E k \in 1..Len(p) : PruneEnd(h, p) = WithoutCell(h, Stop(c, k))
  BY PruneFacts
<1>4. At(h, s) \in CellType(h) /\ Named(h, s)
  BY <1>2, HeapFacts
<1> HIDE DEF s
<1>5. CASE At(h, s).val # NoVal
  <2>1. d \in CellType(h) /\ d.rec = NoNode
    BY <1>4 DEF CellType
  <2>2. g = WithCell(h, s, d)
    BY <1>3, <1>5
  <2> HIDE DEF d
  <2>3. /\ HeapOK(g) /\ Slots(g) = Slots(h) \cup {s} /\ At(g, s) = d
        /\ \A t \in Slots(h) : t # s => At(g, t) = At(h, t)
    BY <1>4, <2>1, <2>2, WithCellFacts
  <2>4. ASSUME NEW t \in Slots(g)
        PROVE  /\ t \in Slots(h)
               /\ NodeIn(g, t) = NodeIn(h, t) \/ \A b : <<NodeIn(g, t), b>> \notin Slots(g)
    <3>1. t \in Slots(h)
      BY <1>2, <2>3
    <3>2. CASE t = s
      <4>1. NodeIn(g, t) = NoNode
        BY <2>1, <2>3, <3>2 DEF NodeIn
      <4>2. \A b : <<NoNode, b>> \notin Slots(g)
        BY <2>3, SlotsDef DEF HeapOK
      <4> QED BY <3>1, <4>1, <4>2
    <3>3. CASE t # s
      BY <2>3, <3>1, <3>3 DEF NodeIn
    <3> QED BY <3>2, <3>3
  <2> QED BY <2>3, <2>4, FewerAdds
<1>6. CASE At(h, s).val = NoVal
  <2>1. PICK k \in 1..Len(p) : PruneEnd(h, p) = WithoutCell(h, Stop(c, k))
    BY <1>3, <1>6
  <2>2. k \in 0..Len(p) /\ k # 0
    OBVIOUS
  <2> DEFINE u == Stop(c, k)
  <2>3. u \in Slots(h) /\ u[1] # Roots
    BY <2>2, ChainFacts
  <2>4. g = WithoutCell(h, u)
    BY <2>1
  <2> HIDE DEF u
  <2>5. u # HeadSlot
    BY <2>3 DEF HeadSlot
  <2> QED BY <2>3, <2>4, <2>5, CutAdds
<1> QED BY <1>5, <1>6

\* Cases of a path that leads to a place that is cleaned up: it bears, or leads to another
\* writer, or it is cut.  Here the node there is not empty.
LEMMA FullFruit ==
    ASSUME Good, Tended(heap, zip), Shaped(heap), NEW i \in Zipper, Writing(zip[i]),
           NEW p \in Seq(Byte), p = zip[i].abs, NEW c, Chain(heap, p, c),
           NEW s, s = Stop(c, Len(p)), ~IsEmpty(heap, NodeIn(heap, s)),
           NEW q \in Seq(Byte), Begins(q, p)
    PROVE  Bears(heap, "map", q)
<1>1. HeapOK(heap)
  BY GoodFacts
<1>2. s \in Slots(heap) /\ Begins(p, p)
  <2>1. Len(p) \in 0..Len(p)
    OBVIOUS
  <2> QED BY <2>1 DEF Chain, Begins
<1>3. PICK b \in Byte : <<NodeIn(heap, s), b>> \in Slots(heap)
  BY <1>1, <1>2, NotEmptyLeads
<1>4. Leads(heap, "map", p, b)
  BY <1>1, <1>2, <1>3, ChainLeads
<1> DEFINE u == Append(p, b)
<1>5. Bears(heap, "map", u)
  BY <1>2, <1>4, BelowWriter
<1>6. u \in Seq(Byte) /\ Begins(p, u)
  BY BeginsAppend
<1> HIDE DEF u
<1>7. PICK a \in Seq(Byte) : Begins(u, a) /\ Sees(heap, "map", a) # NoVal
  BY <1>5, <1>6, BearsWhere
<1>8. Begins(q, a)
  <2>1. Begins(q, u)
    BY <1>6, BeginsTrans
  <2> QED BY <1>6, <1>7, <2>1, BeginsTrans
<1> QED BY <1>7, <1>8, BearsValue

\* Here a value is found on the way.
LEMMA ValueFruit ==
    ASSUME NEW h, HeapOK(h), NEW p \in Seq(Byte), NEW c, Chain(h, p, c), NEW r \in Seq(Byte),
           Begins(r, p), ValIn(h, Stop(c, Len(r))) # NoVal, NEW q \in Seq(Byte), Begins(q, r)
    PROVE  Bears(h, "map", q)
<1>1. Sees(h, "map", r) # NoVal
  BY ChainLeads
<1> QED BY <1>1, BearsValue

\* Where prune_path cuts when there is no value at the end.
LEMMA PrunePlace ==
    ASSUME NEW h, HeapOK(h), NEW p \in Seq(Byte), p # <<>>, NEW c, Chain(h, p, c),
           ValIn(h, Stop(c, Len(p))) = NoVal
    PROVE  \E k \in 1..Len(p) :
              /\ PruneEnd(h, p) = WithoutCell(h, Stop(c, k))
              /\ k # 1 => Branches(h, Stop(c, k - 1)) \/ ValIn(h, Stop(c, k - 1)) # NoVal
<1>1. At(h, Stop(c, Len(p))).val = NoVal
  BY DEF ValIn
<1>2. \E k \in 1..Len(p) :
         /\ PruneEnd(h, p) = WithoutCell(h, Stop(c, k))
         /\ \A m \in k..(Len(p) - 1) : ~Branches(h, Stop(c, m))
         /\ \A m \in k..(Len(p) - 1) : ValIn(h, Stop(c, m)) = NoVal
         /\ k # 1 => Branches(h, Stop(c, k - 1)) \/ ValIn(h, Stop(c, k - 1)) # NoVal
  BY <1>1, PruneFacts
<1> QED BY <1>2

\* Here the way forks, and the other branch is tended.
LEMMA ForkFruit ==
    ASSUME Good, Tended(heap, zip), NEW i \in Zipper, Writing(zip[i]),
           NEW p \in Seq(Byte), p = zip[i].abs, NEW c, Chain(heap, p, c),
           NEW r \in Seq(Byte), Begins(r, p), Len(r) < Len(p), Branches(heap, Stop(c, Len(r))),
           NEW q \in Seq(Byte), Begins(q, r),
           NEW y, \A j \in Zipper : j # i => Alike(zip[j], y[j])
    PROVE  Bears(heap, "map", q) \/ Awaited(y, q)
<1> DEFINE s == Stop(c, Len(r))
           n == Len(r) + 1
           x == p[n]
<1>1. HeapOK(heap) /\ \A j \in Zipper : Writing(zip[j]) => zip[j].abs \in Seq(Byte)
  <2>1. \A j \in Zipper : Writing(zip[j]) => zip[j].abs \in Seq(Byte)
    BY ZipTypes DEF Writing
  <2> QED BY <2>1, GoodFacts
<1>2. Len(r) \in 0..(Len(p) - 1) /\ Len(r) \in 0..Len(p)
  BY DEF Begins
<1>3. s \in Slots(heap) /\ NodeIn(heap, s) # NoNode
  BY <1>2 DEF Chain
<1>4. PICK b \in Byte : b # x /\ <<NodeIn(heap, s), b>> \in Slots(heap)
  BY <1>1, <1>3, SecondChild
<1>5. Leads(heap, "map", r, b)
  BY <1>1, <1>4, ChainLeads
<1> DEFINE u == Append(r, b)
<1>6. u \in Seq(Byte) /\ Begins(r, u)
  BY BeginsAppend
<1>7. Fruitful(heap, zip, "map", u)
  BY <1>5 DEF Tended
<1>8. ~Begins(u, p)
  <2>1. Len(u) = n /\ u[n] = b /\ n \in 1..n
    OBVIOUS
  <2> QED BY <1>4, <2>1 DEF Begins
<1> HIDE DEF u, s, n, x
<1>9. Begins(q, u)
  BY <1>6, BeginsTrans
<1>10. CASE Bears(heap, "map", u)
  <2>1. PICK a \in Seq(Byte) : Begins(u, a) /\ Sees(heap, "map", a) # NoVal
    BY <1>6, <1>10, BearsWhere
  <2>2. Begins(q, a)
    BY <1>6, <1>9, <2>1, BeginsTrans
  <2> QED BY <2>1, <2>2, BearsValue
<1>11. CASE Awaited(zip, u)
  <2>1. PICK j \in Zipper : Writing(zip[j]) /\ Begins(u, zip[j].abs)
    BY <1>11 DEF Awaited
  <2>2. j # i
    BY <1>8, <2>1
  <2>3. Writing(y[j]) /\ y[j].abs = zip[j].abs
    BY <2>1, <2>2, AlikeWriter
  <2>4. Begins(q, zip[j].abs)
    <3>1. zip[j].abs \in Seq(Byte)
      BY <1>1, <2>1
    <3> QED BY <1>6, <1>9, <2>1, <3>1, BeginsTrans
  <2> QED BY <2>3, <2>4 DEF Awaited
<1> QED BY <1>7, <1>10, <1>11 DEF Fruitful

\* A path that leads to the place of a writer that is cleaned up, and is still there.
LEMMA PrunedFruit ==
    ASSUME Good, Tended(heap, zip), Shaped(heap), NEW i \in Zipper, Writing(zip[i]),
           NEW p \in Seq(Byte), p = zip[i].abs, NEW c, Chain(heap, p, c),
           NEW s, s = Stop(c, Len(p)),
           NEW g, g = IF p # <<>> /\ IsEmpty(heap, NodeIn(heap, s)) THEN PruneEnd(heap, p) ELSE heap,
           NEW y, \A j \in Zipper : j # i => Alike(zip[j], y[j]),
           NEW p1 \in Seq(Byte), NEW b1 \in Byte, Leads(g, "map", p1, b1), Begins(Append(p1, b1), p)
    PROVE  Bears(heap, "map", Append(p1, b1)) \/ Awaited(y, Append(p1, b1))
<1> DEFINE q == Append(p1, b1)
<1>1. HeapOK(heap)
  BY GoodFacts
<1>2. q \in Seq(Byte) /\ Begins(q, p) /\ ~Begins(q, <<>>)
  BY BeginsAppend
<1> SUFFICES Bears(heap, "map", q) \/ Awaited(y, q)
  OBVIOUS
<1>3. Leads(g, "map", p1, b1) /\ (\A a \in Seq(Byte) : Begins(a, q) => Begins(a, Append(p1, b1)))
  OBVIOUS
<1> HIDE DEF q
<1>4. p # <<>>
  BY <1>2
<1>5. Begins(p, p) /\ Len(p) \in 1..Len(p)
  BY <1>4 DEF Begins
<1>6. CASE ~IsEmpty(heap, NodeIn(heap, s))
  BY <1>2, <1>6, FullFruit
<1>7. CASE IsEmpty(heap, NodeIn(heap, s)) /\ ValIn(heap, s) # NoVal
  BY <1>1, <1>2, <1>5, <1>7, ValueFruit
<1>8. CASE IsEmpty(heap, NodeIn(heap, s)) /\ ValIn(heap, s) = NoVal
  <2>1. PICK k \in 1..Len(p) :
              /\ PruneEnd(heap, p) = WithoutCell(heap, Stop(c, k))
              /\ k # 1 => Branches(heap, Stop(c, k - 1)) \/ ValIn(heap, Stop(c, k - 1)) # NoVal
    <3>1. ValIn(heap, Stop(c, Len(p))) = NoVal
      BY <1>8
    <3> QED BY <1>1, <1>4, <3>1, PrunePlace
  <2>2. g = WithoutCell(heap, Stop(c, k))
    BY <1>4, <1>8, <2>1
  <2>3. k \in 0..Len(p) /\ k - 1 \in 0..Len(p) /\ k - 1 < Len(p) /\ Len(q) \in Nat
    BY <1>2
  <2>4. CASE Len(q) >= k
    <3> DEFINE a == SubSeq(p, 1, k)
    <3>1. a \in Seq(Byte) /\ Len(a) = k /\ (\A n \in 1..k : a[n] = p[n]) /\ Begins(a, p)
      BY <2>3, Beginning
    <3> HIDE DEF a
    <3>2. a # <<>> /\ Chain(heap, a, c)
      BY <3>1, ChainPrefix
    <3>3. Begins(a, q)
      BY <1>2, <2>3, <2>4, <3>1 DEF Begins
    <3>4. Begins(a, Append(p1, b1))
      BY <1>3, <3>1, <3>3
    <3>5. g = WithoutCell(heap, Stop(c, Len(a)))
      BY <2>2, <3>1
    <3>6. ~Leads(g, "map", p1, b1)
      BY <1>1, <3>1, <3>2, <3>4, <3>5, CutLeads
    <3> QED BY <1>3, <3>6
  <2>5. CASE Len(q) < k
    <3> DEFINE m == k - 1
               r == SubSeq(p, 1, m)
    <3>1. m \in 0..Len(p) /\ m < Len(p) /\ Len(q) <= m
      BY <2>3, <2>5
    <3>2. k # 1
      <4>1. Len(q) # 0
        BY <1>2 DEF Begins
      <4> QED BY <2>3, <2>5, <4>1
    <3>3. Branches(heap, Stop(c, m)) \/ ValIn(heap, Stop(c, m)) # NoVal
      BY <2>1, <3>2
    <3> HIDE DEF m
    <3>4. r \in Seq(Byte) /\ Len(r) = m /\ (\A n \in 1..m : r[n] = p[n]) /\ Begins(r, p)
      BY <3>1, Beginning
    <3> HIDE DEF r
    <3>5. Begins(q, r) /\ Len(r) < Len(p)
      BY <1>2, <3>1, <3>4 DEF Begins
    <3>6. CASE Branches(heap, Stop(c, m))
      <4>1. Branches(heap, Stop(c, Len(r)))
        BY <3>4, <3>6
      <4> QED BY <1>2, <3>4, <3>5, <4>1, ForkFruit
    <3>7. CASE ValIn(heap, Stop(c, m)) # NoVal
      <4>1. ValIn(heap, Stop(c, Len(r))) # NoVal
        BY <3>4, <3>7
      <4> QED BY <1>1, <1>2, <3>4, <3>5, <4>1, ValueFruit
    <3> QED BY <3>3, <3>6, <3>7
  <2> QED BY <2>3, <2>4, <2>5
<1> QED BY <1>6, <1>7, <1>8

\* What cleanup does to the heap: it prunes at the end of the chain that leads to the zipper.
LEMMA CleanupHeap ==
    ASSUME Good, NEW i \in Zipper, Cleanup(i), NEW p, p = zip[i].abs
    PROVE  /\ p \in Seq(Byte) /\ Writing(zip[i])
           /\ \E c : /\ Chain(heap, p, c)
                     /\ LET s == Stop(c, Len(p))
                        IN Settle(IF p # <<>> /\ IsEmpty(heap, NodeIn(heap, s)) THEN PruneEnd(heap, p)
                                  ELSE heap, Now(i, NoZipper))
<1> DEFINE a == zip[i].path
           s == Locate(heap, a)
           h == HeapOf(Walk(heap, HeadSlot, a))
           g == IF a # <<>> /\ IsEmpty(heap, NodeIn(heap, s)) THEN PruneEnd(h, a) ELSE h
           y == Now(i, NoZipper)
<1>1. /\ Is(i, "leaving")
      /\ IF s = NoSlot \/ NodeIn(heap, s) = NoNode
         THEN zip' = y /\ heap' = heap
         ELSE Settle(g, y)
  BY DEF Cleanup, HeapOf, NodeIn
<1>2. HeapOK(heap) /\ zip[i] # NoZipper /\ zip[i].stage = "leaving" /\ HeadSlot \in Slots(heap)
  BY <1>1, GoodFacts DEF Is
<1>3. a \in Seq(Byte)
  BY <1>2, ZipTypes
<1>4. Lawful(head, zip[i]) /\ Writing(zip[i]) /\ Disciplined(head)
  BY <1>2, ZipTypes DEF Writing, Good
<1>5. zip[i].abs = a /\ head.base = <<>>
  <2>1. zip[i].abs = head.base \o a /\ head.base = <<>>
    BY <1>2, <1>4 DEF Lawful, Disciplined
  <2> QED BY <1>3, <2>1, ConcatFacts
<1>6. PICK c : Chain(heap, a, c) /\ NodeIn(heap, Stop(c, Len(a))) # NoNode
  BY <1>2, <1>4, <1>5 DEF Good, Secure, Rooted
<1>8. s = Stop(c, Len(a)) /\ s # NoSlot
  <2>1. Begins(a, a) /\ Len(a) \in 0..Len(a)
    BY <1>3 DEF Begins
  <2>2. s = Stop(c, Len(a))
    BY <1>2, <1>3, <1>6, <2>1, LocateChain
  <2>3. Stop(c, Len(a)) \in Slots(heap)
    BY <1>6, <2>1 DEF Chain
  <2> HIDE DEF s
  <2> QED BY <2>2, <2>3, NoSlotFacts
<1>9. h = heap
  <2> DEFINE e == <<>>
             d == HeadSlot
  <2>1. e \in Seq(Byte) /\ Begins(e, a) /\ Len(e) = 0 /\ d \in Slots(heap)
    BY <1>2, <1>3, BeginsFacts
  <2>2. e \o a = a /\ Begins(a, a)
    BY <1>3, ConcatFacts DEF Begins
  <2>3. Stop(c, Len(e)) = d
    BY <1>6, <2>1 DEF Chain
  <2> HIDE DEF e, d, a
  <2>4. Placed(c, a, e, d)
    BY <2>1, <2>3 DEF Placed
  <2>5. Begins(e \o a, a) => HeapOf(Walk(heap, d, a)) = heap
    BY <1>2, <1>3, <1>6, <2>1, <2>4, WalkChain
  <2> QED BY <2>2, <2>5 DEF d
<1> HIDE DEF s, h, y, a
<1>10. Settle(g, y)
  BY <1>1, <1>6, <1>8
<1>11. g = IF p # <<>> /\ IsEmpty(heap, NodeIn(heap, Stop(c, Len(p)))) THEN PruneEnd(heap, p) ELSE heap
  BY <1>5, <1>8, <1>9
<1> HIDE DEF g
<1>12. Settle(IF p # <<>> /\ IsEmpty(heap, NodeIn(heap, Stop(c, Len(p)))) THEN PruneEnd(heap, p)
              ELSE heap, Now(i, NoZipper))
  BY <1>10, <1>11 DEF y
<1> QED BY <1>3, <1>4, <1>5, <1>6, <1>12

\* cleanup_write_zipper: paths without fruit that led to the place of the writer are cut off,
\* as far as they lead to no other.
LEMMA CleanupTends ==
    ASSUME Good, Seen, Tended(heap, zip), Shaped(heap), NEW i \in Zipper, Cleanup(i),
           NEW k, k = heap', NEW y, y = zip'
    PROVE  Tended(k, y)
<1> DEFINE p == zip[i].abs
<1>1. /\ p \in Seq(Byte) /\ Writing(zip[i])
      /\ \E c : /\ Chain(heap, p, c)
                /\ LET s == Stop(c, Len(p))
                   IN Settle(IF p # <<>> /\ IsEmpty(heap, NodeIn(heap, s)) THEN PruneEnd(heap, p)
                             ELSE heap, Now(i, NoZipper))
  BY CleanupHeap
<1>2. p = zip[i].abs
  OBVIOUS
<1> HIDE DEF p
<1>3. PICK c : /\ Chain(heap, p, c)
               /\ Settle(IF p # <<>> /\ IsEmpty(heap, NodeIn(heap, Stop(c, Len(p)))) THEN PruneEnd(heap, p)
                         ELSE heap, Now(i, NoZipper))
  BY <1>1
<1> DEFINE s == Stop(c, Len(p))
           g == IF p # <<>> /\ IsEmpty(heap, NodeIn(heap, s)) THEN PruneEnd(heap, p) ELSE heap
           z == Now(i, NoZipper)
<1>4. Settle(g, z)
  BY <1>3
<1>5. HeapOK(heap)
  BY GoodFacts
<1>6. HeapOK(g) /\ Adds(heap, g, <<>>)
  <2> HIDE DEF s
  <2>1. CASE p # <<>> /\ IsEmpty(heap, NodeIn(heap, s))
    <3>1. g = PruneEnd(heap, p)
      BY <2>1
    <3> HIDE DEF g
    <3> QED BY <1>1, <1>3, <1>5, <2>1, <3>1, PruneHeap, PruneAdds
  <2>2. CASE ~(p # <<>> /\ IsEmpty(heap, NodeIn(heap, s)))
    <3>1. g = heap
      BY <2>2
    <3> QED BY <1>5, <3>1, AddsSame
  <2> QED BY <2>1, <2>2
<1>7. s = Stop(c, Len(p)) /\ g = IF p # <<>> /\ IsEmpty(heap, NodeIn(heap, s)) THEN PruneEnd(heap, p) ELSE heap
  OBVIOUS
<1> HIDE DEF s, g, z
<1>8. Adds(g, k, <<>>)
  BY <1>4, <1>6, SettledPaths
<1>9. SameSeen(heap, heap', {}) /\ \A j \in Zipper : j # i => Alike(zip[j], zip'[j])
  BY CleanupEffect
<1>10. \A j \in Zipper : j # i => Alike(zip[j], y[j])
  BY <1>9
<1>11. ASSUME NEW o, NEW p1 \in Seq(Byte), NEW b1 \in Byte, Leads(k, o, p1, b1)
       PROVE  Fruitful(k, y, o, Append(p1, b1))
  <2> DEFINE q == Append(p1, b1)
  <2>1. q \in Seq(Byte)
    BY BeginsAppend
  <2>2. Leads(g, o, p1, b1)
    BY <1>8, <1>11, AddsLeads
  <2>3. Leads(heap, o, p1, b1)
    BY <1>6, <2>2, AddsLeads
  <2>4. Fruitful(heap, zip, o, q) /\ <<Roots, o>> \in Slots(heap)
    BY <2>3 DEF Tended, Leads
  <2> SUFFICES ASSUME Bears(heap, o, q) \/ (o = "map" /\ Awaited(y, q))
               PROVE  Fruitful(k, y, o, q)
    <3>1. CASE Bears(heap, o, q)
      BY <3>1
    <3>2. CASE o = "map" /\ Awaited(zip, q)
      <4>1. PICK j \in Zipper : Writing(zip[j]) /\ Begins(q, zip[j].abs)
        BY <3>2 DEF Awaited
      <4>2. CASE j # i
        <5>1. Writing(y[j]) /\ y[j].abs = zip[j].abs
          BY <1>10, <4>1, <4>2, AlikeWriter
        <5> QED BY <3>2, <4>1, <5>1 DEF Awaited
      <4>3. CASE j = i
        <5>1. Begins(Append(p1, b1), p) /\ Leads(g, "map", p1, b1)
          BY <1>2, <2>2, <3>2, <4>1, <4>3
        <5>2. Bears(heap, "map", Append(p1, b1)) \/ Awaited(y, Append(p1, b1))
          BY <1>1, <1>2, <1>3, <1>7, <1>10, <5>1, PrunedFruit
        <5> QED BY <3>2, <5>2
      <4> QED BY <4>2, <4>3
    <3> QED BY <2>4, <3>1, <3>2 DEF Fruitful
  <2> HIDE DEF q
  <2>5. ASSUME Bears(heap, o, q)
        PROVE  Bears(k, o, q)
    <3> DEFINE O == {}
    <3>1. SameSeen(heap, k, O) /\ o \notin O
      BY <1>9
    <3> HIDE DEF O
    <3> QED BY <2>1, <2>4, <2>5, <3>1, BearsKept
  <2> QED BY <2>5 DEF Fruitful
<1> QED BY <1>11 DEF Tended

\* A step that leaves the heap and the writers' places as they are.
LEMMA StillTends ==
    ASSUME Tended(heap, zip), heap' = heap, NEW k, k = heap', NEW y, y = zip',
           \A j \in Zipper : Writing(zip[j]) => Writing(y[j]) /\ y[j].abs = zip[j].abs
    PROVE  Tended(k, y)
<1>1. k = heap
  OBVIOUS
<1>2. ASSUME NEW q, Awaited(zip, q)
      PROVE  Awaited(y, q)
  BY <1>2 DEF Awaited
<1>3. ASSUME NEW o, NEW p \in Seq(Byte), NEW b \in Byte, Leads(heap, o, p, b)
      PROVE  Fruitful(heap, y, o, Append(p, b))
  <2>1. Fruitful(heap, zip, o, Append(p, b))
    BY <1>3 DEF Tended
  <2> QED BY <1>2, <2>1 DEF Fruitful
<1> QED BY <1>1, <1>3 DEF Tended

\* A request changes nothing in the heap.
LEMMA RequestTends ==
    ASSUME Good, Tended(heap, zip), NEW i \in Zipper, NEW p \in head.paths, NEW mode \in L!Mode,
           Request(i, p, mode), NEW k, k = heap', NEW y, y = zip'
    PROVE  Tended(k, y)
<1>1. heap' = heap /\ zip[i] = NoZipper /\ \A j \in Zipper : j # i => y[j] = zip[j]
  BY RequestEffect
<1>2. \A j \in Zipper : Writing(zip[j]) => Writing(y[j]) /\ y[j].abs = zip[j].abs
  BY <1>1 DEF Writing
<1> QED BY <1>1, <1>2, StillTends

\* Nor does the first half of cleanup_write_zipper.
LEMMA LeaveTends ==
    ASSUME Good, Tended(heap, zip), NEW i \in Zipper, Leave(i), NEW k, k = heap', NEW y, y = zip'
    PROVE  Tended(k, y)
<1> DEFINE u == zip[i]
           x == [u EXCEPT !.stage = "leaving", !.slot = NoSlot]
<1>1. heap' = heap /\ i \in Writers /\ y = Now(i, x)
  BY DEF Leave
<1>2. u # NoZipper /\ u \in ZipType
  BY <1>1, ZipTypes DEF Writers, Open, Is
<1> HIDE DEF u
<1>3. x.stage = "leaving" /\ x.abs = u.abs /\ x # NoZipper
  <2>1. x \in ZipType
    BY <1>2 DEF ZipType, NoSlot
  <2>2. NoZipper \notin ZipType
    BY HeadAssumption
  <2>3. x.stage = "leaving" /\ x.abs = u.abs
    BY <1>2 DEF ZipType
  <2> HIDE DEF x
  <2> QED BY <2>1, <2>2, <2>3
<1> HIDE DEF x
<1>4. Updates(zip, i, x, y)
  BY <1>1, GoodFacts, NowUpdates
<1>5. \A j \in Zipper : Writing(zip[j]) => Writing(y[j]) /\ y[j].abs = zip[j].abs
  BY <1>3, <1>4 DEF Updates, Writing, u
<1> QED BY <1>1, <1>5, StillTends

\* After every step nodes are functions.
LEMMA StepShaped ==
    ASSUME Shaped(heap), NEW i \in Zipper, ZipperStep(i), NEW k, k = heap'
    PROVE  Shaped(k)
<1>1. (heap' = heap) \/ \E h, z : Settle(h, z)
  BY DEF ZipperStep, Request, EnterRead, EnterWrite, Set, RemoveRootVal, RemoveValBelow, Graft, MakeMap,
         IntoReader, DropShare, DropWriter, Leave, Cleanup, WriterStep
<1>2. CASE heap' = heap
  BY <1>2
<1>3. CASE \E h, z : Settle(h, z)
  <2>1. PICK h, z : Settle(h, z)
    BY <1>3
  <2> QED BY <2>1, SettleShaped
<1> QED BY <1>1, <1>2, <1>3

\* After every step all paths have fruit.
LEMMA StepTends ==
    ASSUME Good, Seen, Tended(heap, zip), Shaped(heap), head.ends = {"cleanup"},
           NEW i \in Zipper, ZipperStep(i), NEW k, k = heap', NEW y, y = zip'
    PROVE  Tended(k, y)
<1>1. CASE \E p \in head.paths, mode \in L!Mode : Request(i, p, mode)
  BY <1>1, RequestTends
<1>2. CASE EnterRead(i)
  BY <1>2, EnterReadTends
<1>3. CASE EnterWrite(i)
  BY <1>3, EnterWriteTends
<1>4. CASE \E r \in {<<>>} \cup {<<b>> : b \in Byte}, v \in Val : Set(i, r, v)
  <2>1. PICK r \in {<<>>} \cup {<<b>> : b \in Byte}, v \in Val : Set(i, r, v)
    BY <1>4
  <2>2. <<>> \in Seq(Byte) /\ \A b \in Byte : <<b>> \in Seq(Byte)
    OBVIOUS
  <2>3. r \in Seq(Byte)
    BY <2>2
  <2> QED BY <2>1, <2>3, SetTends
<1>5. CASE RemoveRootVal(i)
  BY <1>5, RemoveRootValTends
<1>6. CASE \E b \in Byte : RemoveValBelow(i, b)
  BY <1>6, RemoveValBelowTends
<1>7. CASE \E j \in Zipper : Graft(i, j) \/ MakeMap(i, j)
  BY <1>7, GraftTends, MakeMapTends
<1>8. CASE IntoReader(i) \/ DropWriter(i)
  BY <1>8, KemptFacts DEF IntoReader, DropWriter
<1>9. CASE DropShare(i)
  BY <1>9, DropShareTends
<1>10. CASE Leave(i)
  BY <1>10, LeaveTends
<1>11. CASE Cleanup(i)
  BY <1>11, CleanupTends
<1> QED BY <1>1, <1>2, <1>3, <1>4, <1>5, <1>6, <1>7, <1>8, <1>9, <1>10, <1>11 DEF ZipperStep

-------------------------------------------------------------------------------
(* No litter.                                                              *)

\* At the start no path exists, and the nodes are functions.
LEMMA InitTends ==
    ASSUME Init
    PROVE  Tended(heap, zip) /\ Shaped(heap)
<1>1. HeapOK(heap) /\ \A s \in Slots(heap) : s = HeadSlot
  BY InitHeap DEF Barren
<1>2. ASSUME NEW o, NEW p \in Seq(Byte), NEW b \in Byte, Leads(heap, o, p, b)
      PROVE  FALSE
  <2> DEFINE x == CellBelow(heap, At(heap, HeadSlot), p)
  <2>1. <<Roots, o>> = HeadSlot
    BY <1>1, <1>2 DEF Leads
  <2>2. On(heap, x, b)
    BY <1>2, <2>1 DEF Leads
  <2>3. x \in CellType(heap)
    <3>1. "reader" # "map"
      OBVIOUS
    <3> QED BY <1>1, <3>1, FoundCell
  <2> HIDE DEF x
  <2>4. x.rec # Roots
    BY <1>1, <2>3, HeapFacts DEF CellType, Nodes
  <2> QED BY <1>1, <2>2, <2>4 DEF On, HeadSlot
<1>3. Tended(heap, zip)
  BY <1>2 DEF Tended
<1> DEFINE n == {<<"map", <<>>>>}
           c == [rec |-> n, val |-> NoVal]
           r == [m \in {"map"} |-> c]
           f == [x \in {Roots} |-> r]
<1>4. heap = Put(f, n, EmptyNode)
  BY DEF Init
<1>5. Shape(r) /\ Shape(EmptyNode)
  <2> HIDE DEF c
  <2>1. DOMAIN r = {"map"} /\ r["map"] = c
    OBVIOUS
  <2>2. r = [b \in DOMAIN r |-> r[b]]
    BY <2>1
  <2> HIDE DEF r
  <2> QED BY <2>2, EmptyShape DEF Shape
<1>6. \A m \in DOMAIN heap : heap[m] \in {r, EmptyNode}
  <2> HIDE DEF n, r
  <2>1. \A m \in DOMAIN f : f[m] = r
    OBVIOUS
  <2> HIDE DEF f
  <2> QED BY <1>4, <2>1 DEF Put
<1>7. Shaped(heap)
  BY <1>5, <1>6 DEF Shaped
<1> QED BY <1>3, <1>7

\* The invariant, with what is kept of a head whose writers are all cleaned up after.
TendInv == SeenInv /\ (Disciplined(head) /\ head.ends = {"cleanup"} => Tended(heap, zip) /\ Shaped(heap))

\* Every step keeps it.
LEMMA NextTends ==
    ASSUME TendInv, [Next]_vars
    PROVE  TendInv'
<1>0. SeenInv'
  BY NextSeen DEF TendInv
<1>1. CASE Next
  <2>1. PICK i \in Zipper : ZipperStep(i) /\ head' = head
    BY <1>1 DEF Next
  <2>2. CASE Disciplined(head) /\ head.ends = {"cleanup"}
    <3>1. Good /\ Seen /\ Tended(heap, zip) /\ Shaped(heap)
      BY <2>2 DEF TendInv, SeenInv, HeadInv, Good
    <3> DEFINE k == heap'
               y == zip'
    <3>2. k = heap' /\ y = zip'
      OBVIOUS
    <3> HIDE DEF k, y
    <3>3. Tended(k, y)
      BY <2>1, <2>2, <3>1, <3>2, StepTends
    <3>4. Shaped(k)
      BY <2>1, <3>1, <3>2, StepShaped
    <3> QED BY <1>0, <3>2, <3>3, <3>4 DEF TendInv
  <2>3. CASE ~(Disciplined(head) /\ head.ends = {"cleanup"})
    <3>1. ~(Disciplined(head') /\ head'.ends = {"cleanup"})
      BY <2>1, <2>3
    <3> QED BY <1>0, <3>1 DEF TendInv
  <2> QED BY <2>2, <2>3
<1>2. CASE UNCHANGED vars
  BY <1>0, <1>2 DEF vars, TendInv
<1> QED BY <1>1, <1>2

\* It is an invariant.
LEMMA TendInvariant == Spec => []TendInv
<1>1. Init => TendInv
  BY InitInv, InitSeen, InitTends DEF TendInv, SeenInv
<1>2. TendInv /\ [Next]_vars => TendInv'
  BY NextTends
<1> QED BY <1>1, <1>2, PTL DEF Spec

\* A path that exists in the head's trie, other than the empty one, is one that leads on.
LEMMA PathLeads ==
    ASSUME NEW h, HeapOK(h), NEW q \in PathsOf(h), q # <<>>
    PROVE  /\ q \in Seq(Byte)
           /\ \E p \in Seq(Byte) : \E b \in Byte : q = Append(p, b) /\ Leads(h, "map", p, b)
<1>1. q \in Seq(Byte) /\ Locate(h, q) # NoSlot
  BY HeadPaths DEF PathsOf
<1>2. PICK p \in Seq(Byte), b \in Byte : q = Append(p, b)
  <2> DEFINE p == SubSeq(q, 1, Len(q) - 1)
             b == q[Len(q)]
  <2>1. Len(q) \in Nat /\ Len(q) # 0
    BY <1>1
  <2>2. p \in Seq(Byte) /\ b \in Byte
    BY <1>1, <2>1
  <2>3. q = Append(p, b)
    BY <1>1, <2>1
  <2> QED BY <2>2, <2>3
<1> DEFINE x == CellBelow(h, At(h, HeadSlot), p)
           n == x.rec
<1>3. n # NoNode /\ b \in DOMAIN h[n]
  <2>1. Locate(h, Append(p, b)) = IF n # NoNode /\ b \in DOMAIN h[n] THEN <<n, b>> ELSE NoSlot
    BY LocateAppend
  <2> HIDE DEF n
  <2> QED BY <1>1, <1>2, <2>1
<1>4. n \in DOMAIN h
  <2>1. x \in CellType(h)
    <3>1. "reader" # "map"
      OBVIOUS
    <3> QED BY <3>1, FoundCell
  <2> HIDE DEF x
  <2> QED BY <1>3, <2>1 DEF CellType, Nodes
<1>5. <<n, b>> \in Slots(h)
  <2> HIDE DEF n
  <2> QED BY <1>3, <1>4, SlotsDef
<1>6. Leads(h, "map", p, b)
  <2>1. HeadSlot \in Slots(h)
    BY HeapFacts
  <2> QED BY <1>5, <2>1 DEF Leads, On, HeadSlot
<1> QED BY <1>1, <1>2, <1>6

\* Where all paths have fruit there is no litter.
LEMMA TendedClean ==
    ASSUME Good, Seen, Tended(heap, zip)
    PROVE  NoLitter
<1> SUFFICES ASSUME NEW q \in PathsOf(heap), q # <<>>
             PROVE  \/ \E v \in DOMAIN ValuesBelow(heap, At(heap, HeadSlot)) : IsPrefix(q, v)
                    \/ \E i \in Zipper : (i \in Writers \/ Is(i, "leaving")) /\ IsPrefix(q, zip[i].abs)
  BY DEF NoLitter
<1>1. HeapOK(heap)
  BY GoodFacts
<1>2. q \in Seq(Byte) /\ \E p \in Seq(Byte) : \E b \in Byte : q = Append(p, b) /\ Leads(heap, "map", p, b)
  BY <1>1, PathLeads
<1>3. Fruitful(heap, zip, "map", q)
  BY <1>2 DEF Tended
<1>4. CASE Bears(heap, "map", q)
  <2>1. PICK a \in Seq(Byte) : Begins(q, a) /\ Sees(heap, "map", a) # NoVal
    BY <1>2, <1>4, BearsWhere
  <2>2. a \in TriePath
    <3>1. <<Roots, "map">> \in Slots(heap)
      BY <1>1, HeapFacts DEF HeadSlot
    <3> QED BY <2>1, <3>1 DEF Seen, Bounded
  <2>3. a \in DOMAIN ValuesBelow(heap, At(heap, HeadSlot))
    <3>1. Value(heap, At(heap, HeadSlot), a) # NoVal
      BY <2>1 DEF Sees, HeadSlot
    <3>2. a \in Valued(heap, At(heap, HeadSlot))
      BY <2>2, <3>1 DEF Valued
    <3> QED BY <3>2, ValuesFacts
  <2>4. IsPrefix(q, a)
    BY <1>2, <2>1, BeginsFacts
  <2> QED BY <2>3, <2>4
<1>5. CASE Awaited(zip, q)
  <2>1. PICK i \in Zipper : Writing(zip[i]) /\ Begins(q, zip[i].abs)
    BY <1>5 DEF Awaited
  <2>2. zip[i].abs \in Seq(Byte)
    BY <2>1, ZipTypes DEF Writing
  <2>3. IsPrefix(q, zip[i].abs)
    BY <1>2, <2>1, <2>2, BeginsFacts
  <2>4. i \in Writers \/ Is(i, "leaving")
    BY <2>1 DEF Writing, Writers, Open, Is
  <2> QED BY <2>3, <2>4
<1> QED BY <1>3, <1>4, <1>5 DEF Fruitful

\* cleanup_write_zipper "is necessary because the act of creating a write zipper at a path will
\* create the parent path": when every writer of a disciplined head ends that way, no path is
\* left that leads neither to a value nor to a writer (prune_path cuts enough, and nothing that
\* another writer needs).
THEOREM NoLitterLeft == Spec => [](Disciplined(head) => NoLitter)
<1>1. TendInv => (Disciplined(head) => NoLitter)
  <2> SUFFICES ASSUME TendInv, Disciplined(head)
               PROVE  NoLitter
    OBVIOUS
  <2>1. Good /\ Seen
    BY DEF TendInv, SeenInv, HeadInv, Good
  <2>2. CASE head.ends = {"cleanup"}
    <3>1. Tended(heap, zip)
      BY <2>2 DEF TendInv
    <3> QED BY <2>1, <3>1, TendedClean
  <2>3. CASE head.ends # {"cleanup"}
    BY <2>3 DEF NoLitter
  <2> QED BY <2>2, <2>3
<1> QED BY <1>1, TendInvariant, PTL

===============================================================================
