--------------------------- MODULE ZipperHeadProofs ---------------------------
(***************************************************************************)
(* Proofs about the zipper head: under the discipline that keeps the       *)
(* locks' promise meaningful, writers stay attached to the trie by a chain *)
(* of nodes of their own, and cleaning up after one never finds its path   *)
(* missing.  At the end, what the operators do to the paths that exist.    *)
(***************************************************************************)
EXTENDS ZipperHeapProofs

\* The heads whose clients' writers end as the documentation asks for: none is turned into
\* a reader (which keeps the slot and owns no share, write_zipper.rs:534), and where writers
\* are cleaned up, the head is one of the root and is not used by several threads
\* (zipper_head.rs:355 drops the zipper before it takes the lock).
Disciplined(h) == ~h.converts /\ ("cleanup" \in h.ends => h.base = <<>> /\ ~h.threaded)

(* Kinds of zippers, as z[i] describes them. *)
Holds(x) == x # NoZipper /\ x.stage # "map"
Busy(x) == x # NoZipper /\ x.stage \in {"asking", "leaving"}
Writing(x) == x # NoZipper /\ ((x.stage = "open" /\ x.mode = "write") \/ x.stage = "leaving")
Sharing(x) == x # NoZipper /\ x.mode = "read" /\ x.stage \in {"open", "map"}

\* What the zippers' records say agrees with the locks that head d grants.
Lawful(d, x) ==
    /\ x.stage \in {"asking", "leaving"} => x.slot = NoSlot
    /\ x.stage = "asking" => d.base \o x.path \in TriePath
    /\ x.stage \in {"open", "leaving"} => x.abs = d.base \o x.path
    /\ x.stage = "leaving" => "cleanup" \in d.ends /\ x.mode = "write"
    /\ x.stage = "map" => x.mode = "read"
Granted(d, z) ==
    /\ \A i \in Zipper : z[i] # NoZipper => Lawful(d, z[i])
    /\ ~d.threaded => \A i, j \in Zipper : Busy(z[i]) /\ Busy(z[j]) => i = j
    /\ \A i, j \in Zipper :
          i # j /\ Holds(z[i]) /\ Holds(z[j]) /\ Comparable(z[i].path, z[j].path)
          => z[i].mode = "read" /\ z[j].mode = "read"

\* A writer has a chain of its own, from the head to its slot; a reader or map has a cell.
Rooted(h, x) ==
    \E c : /\ Chain(h, x.abs, c)
           /\ NodeIn(h, Stop(c, Len(x.abs))) # NoNode
           /\ x.stage = "open" => x.slot = Stop(c, Len(x.abs))
Shared(h, i, x) == x.slot = <<Roots, i>> /\ <<Roots, i>> \in Slots(h)
ZipperIn(h) == [mode : {"read", "write"}, stage : {"asking", "open", "leaving", "map"},
                path : Path, abs : TriePath, slot : Slots(h) \cup {NoSlot}]
OfZippers(z) == z = [i \in Zipper |-> z[i]]
Secure(h, z) ==
    /\ HeapOK(h)
    /\ OfZippers(z)
    /\ \A i \in Zipper : z[i] # NoZipper =>
          /\ z[i] \in ZipperIn(h)
          /\ Writing(z[i]) => Rooted(h, z[i])
          /\ Sharing(z[i]) => Shared(h, i, z[i])

HeadInv == Disciplined(head) =>
    /\ head \in Heads
    /\ focus = head.base
    /\ panicked = FALSE
    /\ Granted(head, zip)
    /\ Secure(heap, zip)
    /\ Tidy(heap)

-----------------------------------------------------------------------------
(* Settling keeps what a zipper holds.                                     *)

\* A slot is not the mark of there being none.
LEMMA NoSlotFacts ==
    ASSUME NEW h, NEW s \in Slots(h)
    PROVE  s # NoSlot
<1>1. s = <<s[1], s[2]>>
  BY SlotsDef
<1>2. <<s[1], s[2]>> # <<>>
  OBVIOUS
<1> QED BY <1>1, <1>2 DEF NoSlot

\* What is known of a zipper is never the mark of an unused identity.
LEMMA ZipperInFacts ==
    ASSUME NEW h, HeapOK(h), NEW x \in ZipperIn(h)
    PROVE  /\ x \in ZipType /\ x # NoZipper
           /\ x = [mode |-> x.mode, stage |-> x.stage, path |-> x.path, abs |-> x.abs, slot |-> x.slot]
           /\ x.mode \in {"read", "write"} /\ x.stage \in {"asking", "open", "leaving", "map"}
           /\ x.path \in Path /\ x.abs \in TriePath
           /\ x.slot \in Slots(h) \cup {NoSlot}
           /\ NoSlot \notin Slots(h)
<1>1. ASSUME NEW s \in Slots(h)
      PROVE  s \in SlotType /\ s # NoSlot
  <2>1. s = <<s[1], s[2]>> /\ s[1] \in DOMAIN h /\ s[2] \in IF s[1] = Roots THEN Owner ELSE Byte
    BY HeapFacts DEF Named
  <2>2. s[1] # Roots => s[1] \in NodeType
    BY <2>1 DEF HeapOK, Nodes
  <2>3. s # NoSlot
    BY <2>1 DEF NoSlot
  <2> QED BY <2>1, <2>2, <2>3 DEF SlotType
<1>2. x \in ZipType
  BY <1>1 DEF ZipType, ZipperIn, NoSlot
<1>3. x # NoZipper
  BY <1>2, HeadAssumption
<1>4. NoSlot \notin Slots(h)
  BY <1>1
<1> QED BY <1>2, <1>3, <1>4 DEF ZipperIn

\* The slot of a zipper that has one is live.
LEMMA LiveZipper ==
    ASSUME NEW h, HeapOK(h), NEW i, NEW d, NEW x \in ZipperIn(h), Lawful(d, x),
           Writing(x) => Rooted(h, x), Sharing(x) => Shared(h, i, x), x.slot # NoSlot,
           NEW g, Settled(h, g)
    PROVE  Live(h, x.slot)
<1>1. x # NoZipper /\ x.mode \in {"read", "write"} /\ x.stage \in {"asking", "open", "leaving", "map"}
  BY ZipperInFacts
<1>2. Sharing(x) \/ (x.stage = "open" /\ Writing(x))
  BY <1>1 DEF Lawful, Sharing, Writing
<1>3. CASE Sharing(x)
  <2>1. x.slot = <<Roots, i>> /\ x.slot \in Slots(h)
    BY <1>3 DEF Shared
  <2>2. x.slot[1] = Roots
    BY <2>1
  <2> QED BY <2>1, <2>2, SettledSlots
<1>4. CASE x.stage = "open" /\ Writing(x)
  <2>1. PICK c : Chain(h, x.abs, c) /\ x.slot = Stop(c, Len(x.abs))
    BY <1>4 DEF Rooted
  <2>2. x.abs \in TriePath
    BY ZipperInFacts
  <2>3. Len(x.abs) \in 0..Len(x.abs)
    BY <2>2, TriePathFacts
  <2> DEFINE a == x.abs
  <2> HIDE DEF a
  <2>4. PICK e : /\ Chain(g, a, e)
                 /\ \A k \in 0..Len(a) : Live(h, Stop(c, k)) /\ Stop(e, k) = Moved(h, Stop(c, k))
                 /\ NodeIn(h, Stop(c, Len(a))) # NoNode => NodeIn(g, Stop(e, Len(a))) # NoNode
    BY <2>1, <2>2, ChainSettles DEF a
  <2> QED BY <2>1, <2>3, <2>4 DEF a
<1> QED BY <1>2, <1>3, <1>4

\* One zipper, x before and y after.
LEMMA SettledZipper ==
    ASSUME NEW h, HeapOK(h), NEW g, Settled(h, g), NEW i \in Zipper, NEW d,
           NEW x \in ZipperIn(h), Lawful(d, x),
           Writing(x) => Rooted(h, x), Sharing(x) => Shared(h, i, x),
           NEW y, y = IF x = NoZipper \/ x.slot = NoSlot \/ x.slot[1] \notin DOMAIN h
                      THEN x ELSE [x EXCEPT !.slot[1] = NewName(h, @)]
    PROVE  /\ y \in ZipperIn(g) /\ y # NoZipper
           /\ y.mode = x.mode /\ y.stage = x.stage /\ y.path = x.path /\ y.abs = x.abs
           /\ Lawful(d, y)
           /\ Writing(y) => Rooted(g, y)
           /\ Sharing(y) => Shared(g, i, y)
           /\ x.slot = NoSlot => y.slot = NoSlot
           /\ x.slot # NoSlot => y.slot = Moved(h, x.slot)
<1>1. /\ x = [mode |-> x.mode, stage |-> x.stage, path |-> x.path, abs |-> x.abs, slot |-> x.slot]
      /\ x # NoZipper /\ x.slot \in Slots(h) \cup {NoSlot}
  BY ZipperInFacts
<1>2. x.slot # NoSlot => Live(h, x.slot)
  BY LiveZipper
<1>3. x.slot # NoSlot => /\ x.slot = <<x.slot[1], x.slot[2]>> /\ x.slot[1] \in DOMAIN h
                         /\ Moved(h, x.slot) \in Slots(g)
  BY <1>2, SlotsDef, SettledSlots DEF Live
<1> DEFINE t == IF x.slot = NoSlot THEN NoSlot ELSE Moved(h, x.slot)
<1>4. y = [mode |-> x.mode, stage |-> x.stage, path |-> x.path, abs |-> x.abs, slot |-> t]
  <2>1. CASE x.slot = NoSlot
    BY <1>1, <2>1
  <2>2. CASE x.slot # NoSlot
    <3>1. y = [x EXCEPT !.slot = [x.slot EXCEPT ![1] = NewName(h, x.slot[1])]]
      BY <1>1, <1>3, <2>2
    <3>2. [x.slot EXCEPT ![1] = NewName(h, x.slot[1])] = Moved(h, x.slot)
      <4> DEFINE u == x.slot[1]
                 b == x.slot[2]
      <4> HIDE DEF u, b
      <4>1. x.slot = <<u, b>>
        BY <1>3, <2>2 DEF u, b
      <4> QED BY <4>1 DEF Moved
    <3> QED BY <1>1, <2>2, <3>1, <3>2
  <2> QED BY <2>1, <2>2
<1>5. t \in Slots(g) \cup {NoSlot}
  BY <1>3
<1> HIDE DEF t
<1>6. y \in ZipperIn(g)
  BY <1>4, <1>5, ZipperInFacts DEF ZipperIn
<1>7. HeapOK(g)
  BY SettledOK
<1>8. y # NoZipper
  BY <1>6, <1>7, ZipperInFacts
<1>9. y.mode = x.mode /\ y.stage = x.stage /\ y.path = x.path /\ y.abs = x.abs /\ y.slot = t
  BY <1>4
<1>10. Lawful(d, y)
  BY <1>9 DEF Lawful, t
<1>11. ASSUME Writing(y) PROVE Rooted(g, y)
  <2>1. Writing(x)
    BY <1>1, <1>9, <1>11 DEF Writing
  <2>2. PICK c : /\ Chain(h, x.abs, c)
                 /\ NodeIn(h, Stop(c, Len(x.abs))) # NoNode
                 /\ x.stage = "open" => x.slot = Stop(c, Len(x.abs))
    BY <2>1 DEF Rooted
  <2> DEFINE a == x.abs
  <2>3. a \in TriePath
    BY ZipperInFacts
  <2>4. Len(a) \in 0..Len(a)
    BY <2>3, TriePathFacts
  <2> HIDE DEF a
  <2>5. PICK e : /\ Chain(g, a, e)
                 /\ \A k \in 0..Len(a) : Live(h, Stop(c, k)) /\ Stop(e, k) = Moved(h, Stop(c, k))
                 /\ NodeIn(h, Stop(c, Len(a))) # NoNode => NodeIn(g, Stop(e, Len(a))) # NoNode
    BY <2>2, <2>3, ChainSettles DEF a
  <2>6. y.stage = "open" => y.slot = Stop(e, Len(a))
    <3>1. SUFFICES ASSUME y.stage = "open" PROVE y.slot = Stop(e, Len(a))
      OBVIOUS
    <3>2. x.slot = Stop(c, Len(a))
      BY <1>9, <2>2, <3>1 DEF a
    <3>3. x.slot # NoSlot
      <4>1. Stop(c, Len(a)) \in Slots(h)
        BY <2>4, <2>5 DEF Live
      <4> QED BY <3>2, <4>1, ZipperInFacts
    <3> QED BY <1>9, <2>4, <2>5, <3>2, <3>3 DEF t
  <2>7. NodeIn(g, Stop(e, Len(a))) # NoNode
    BY <2>2, <2>5 DEF a
  <2>8. y.abs = a
    BY <1>9 DEF a
  <2> QED BY <2>5, <2>6, <2>7, <2>8 DEF Rooted
<1>12. ASSUME Sharing(y) PROVE Shared(g, i, y)
  <2>1. Sharing(x)
    BY <1>1, <1>9, <1>12 DEF Sharing
  <2>2. x.slot = <<Roots, i>> /\ x.slot \in Slots(h) /\ x.slot[1] = Roots
    BY <2>1 DEF Shared
  <2>3. Moved(h, x.slot) = x.slot /\ x.slot # NoSlot
    BY <2>2, SettledSlots, ZipperInFacts
  <2> QED BY <1>3, <1>9, <2>2, <2>3 DEF Shared, t
<1> QED BY <1>6, <1>8, <1>9, <1>10, <1>11, <1>12 DEF t

\* All zippers.
LEMMA SettledZippers ==
    ASSUME NEW d, NEW h, NEW z, Secure(h, z), Granted(d, z), Settle(h, z)
    PROVE  Secure(heap', zip') /\ Granted(d, zip')
<1>1. HeapOK(h) /\ OfZippers(zip')
  BY SettleFacts DEF Secure, OfZippers
<1>2. Settled(h, heap') /\ HeapOK(heap')
  BY <1>1, SettleFacts, SettledOK
<1>3. ASSUME NEW i \in Zipper
      PROVE  zip'[i] = IF z[i] = NoZipper \/ z[i].slot = NoSlot \/ z[i].slot[1] \notin DOMAIN h
                       THEN z[i] ELSE [z[i] EXCEPT !.slot[1] = NewName(h, @)]
  BY <1>1, SettleFacts
<1>4. ASSUME NEW i \in Zipper, z[i] = NoZipper
      PROVE  zip'[i] = NoZipper
  BY <1>3, <1>4
<1>5. ASSUME NEW i \in Zipper, z[i] # NoZipper
      PROVE  /\ zip'[i] \in ZipperIn(heap') /\ zip'[i] # NoZipper
             /\ zip'[i].mode = z[i].mode /\ zip'[i].stage = z[i].stage
             /\ zip'[i].path = z[i].path
             /\ Lawful(d, zip'[i])
             /\ Writing(zip'[i]) => Rooted(heap', zip'[i])
             /\ Sharing(zip'[i]) => Shared(heap', i, zip'[i])
  <2>1. /\ z[i] \in ZipperIn(h) /\ Lawful(d, z[i])
        /\ Writing(z[i]) => Rooted(h, z[i])
        /\ Sharing(z[i]) => Shared(h, i, z[i])
    BY <1>5 DEF Secure, Granted
  <2> DEFINE x == z[i]
             y == zip'[i]
  <2>2. y = IF x = NoZipper \/ x.slot = NoSlot \/ x.slot[1] \notin DOMAIN h
            THEN x ELSE [x EXCEPT !.slot[1] = NewName(h, @)]
    BY <1>3
  <2> HIDE DEF x, y
  <2>3. /\ x \in ZipperIn(h) /\ Lawful(d, x)
        /\ Writing(x) => Rooted(h, x)
        /\ Sharing(x) => Shared(h, i, x)
    BY <2>1 DEF x
  <2>4. /\ y \in ZipperIn(heap') /\ y # NoZipper
        /\ y.mode = x.mode /\ y.stage = x.stage /\ y.path = x.path
        /\ Lawful(d, y)
        /\ Writing(y) => Rooted(heap', y)
        /\ Sharing(y) => Shared(heap', i, y)
    BY <1>1, <1>2, <2>2, <2>3, SettledZipper
  <2> QED BY <2>4 DEF x, y
<1>6. Secure(heap', zip')
  BY <1>1, <1>2, <1>4, <1>5 DEF Secure
<1>7. \A i \in Zipper : /\ Holds(zip'[i]) => Holds(z[i])
                        /\ Busy(zip'[i]) => Busy(z[i])
  BY <1>4, <1>5 DEF Holds, Busy
<1>8. ASSUME NEW i \in Zipper, NEW j \in Zipper, i # j, Holds(zip'[i]), Holds(zip'[j]),
             Comparable(zip'[i].path, zip'[j].path)
      PROVE  zip'[i].mode = "read" /\ zip'[j].mode = "read"
  <2>1. z[i] # NoZipper /\ z[j] # NoZipper /\ Holds(z[i]) /\ Holds(z[j])
    BY <1>7, <1>8 DEF Holds
  <2>2. /\ zip'[i].mode = z[i].mode /\ zip'[i].path = z[i].path
        /\ zip'[j].mode = z[j].mode /\ zip'[j].path = z[j].path
    BY <1>5, <2>1
  <2> QED BY <1>8, <2>1, <2>2 DEF Granted
<1>9. ASSUME ~d.threaded, NEW i \in Zipper, NEW j \in Zipper, Busy(zip'[i]), Busy(zip'[j])
      PROVE  i = j
  BY <1>7, <1>9 DEF Granted
<1>10. \A i \in Zipper : zip'[i] # NoZipper => Lawful(d, zip'[i])
  BY <1>4, <1>5
<1> QED BY <1>6, <1>8, <1>9, <1>10 DEF Granted

-----------------------------------------------------------------------------
(* Who is in whose way.                                                    *)

\* A path in front of both changes nothing.
LEMMA BeginsConcat ==
    ASSUME NEW b \in Seq(Byte), NEW p \in Seq(Byte), NEW q \in Seq(Byte)
    PROVE  /\ Begins(b \o p, b \o q) <=> Begins(p, q)
           /\ Begins(b, b \o q)
<1>1. /\ Len(b \o p) = Len(b) + Len(p) /\ Len(b \o q) = Len(b) + Len(q)
      /\ Len(b) \in Nat /\ Len(p) \in Nat /\ Len(q) \in Nat
      /\ \A k \in 1..Len(b \o p) : (b \o p)[k] = IF k <= Len(b) THEN b[k] ELSE p[k - Len(b)]
      /\ \A k \in 1..Len(b \o q) : (b \o q)[k] = IF k <= Len(b) THEN b[k] ELSE q[k - Len(b)]
  OBVIOUS
<1>2. ASSUME Begins(p, q)
      PROVE  Begins(b \o p, b \o q)
  <2>1. ASSUME NEW k \in 1..Len(b \o p)
        PROVE  (b \o p)[k] = (b \o q)[k]
    <3>1. k \in 1..Len(b \o q)
      BY <1>1, <1>2 DEF Begins
    <3>2. k > Len(b) => k - Len(b) \in 1..Len(p)
      BY <1>1
    <3> QED BY <1>1, <1>2, <3>1, <3>2 DEF Begins
  <2> QED BY <1>1, <1>2, <2>1 DEF Begins
<1>3. ASSUME Begins(b \o p, b \o q)
      PROVE  Begins(p, q)
  <2>1. ASSUME NEW k \in 1..Len(p)
        PROVE  p[k] = q[k]
    <3> DEFINE m == k + Len(b)
    <3>1. m \in 1..Len(b \o p) /\ m \in 1..Len(b \o q) /\ m > Len(b) /\ m - Len(b) = k
      BY <1>1, <1>3 DEF Begins
    <3> HIDE DEF m
    <3> QED BY <1>1, <1>3, <3>1 DEF Begins
  <2> QED BY <1>1, <1>3, <2>1 DEF Begins
<1> QED BY <1>2, <1>3, ConcatFacts

\* What a longer path begins, the shorter begins.
LEMMA BeginsLess ==
    ASSUME NEW p \in Seq(Byte), NEW r \in Seq(Byte), NEW a \in Seq(Byte), Begins(p \o r, a)
    PROVE  Begins(p, a)
<1>1. /\ Len(p \o r) = Len(p) + Len(r) /\ Len(p) \in Nat /\ Len(r) \in Nat /\ Len(a) \in Nat
      /\ \A k \in 1..Len(p) : (p \o r)[k] = p[k]
  OBVIOUS
<1>2. \A k \in 1..Len(p) : k \in 1..Len(p \o r)
  BY <1>1
<1> QED BY <1>1, <1>2 DEF Begins

\* A path does not begin with a longer one.
LEMMA BeginsLonger ==
    ASSUME NEW p \in Seq(Byte), NEW r \in Seq(Byte), Len(r) > 0
    PROVE  ~Begins(p \o r, p)
<1>1. Len(p \o r) = Len(p) + Len(r) /\ Len(p) \in Nat
  OBVIOUS
<1> QED BY <1>1 DEF Begins

\* Paths one of which begins the other are comparable.
LEMMA BeginsComparable ==
    ASSUME NEW p \in Seq(Byte), NEW q \in Seq(Byte)
    PROVE  Comparable(p, q) <=> Begins(p, q) \/ Begins(q, p)
BY BeginsFacts DEF Comparable

\* The paths of a head and of its zippers are sequences of bytes.
LEMMA HeadPaths ==
    /\ \A d \in Heads : d.base \in TriePath /\ d.base \in Seq(Byte)
    /\ \A p \in Path : p \in TriePath /\ p \in Seq(Byte)
    /\ \A p \in TriePath : p \in Seq(Byte)
<1>1. TriePath \subseteq Seq(Byte) /\ Path \subseteq TriePath /\ Heads \subseteq HeadType
  BY HeadAssumption
<1> QED BY <1>1 DEF HeadType

\* Nobody is at, above or below a path that is being written.
LEMMA Apart ==
    ASSUME NEW d \in Heads, NEW h, NEW z, Secure(h, z), Granted(d, z),
           NEW i \in Zipper, NEW j \in Zipper, i # j, Holds(z[i]), Writing(z[j])
    PROVE  /\ d.base \o z[i].path \in Seq(Byte) /\ z[j].abs \in Seq(Byte)
           /\ ~Begins(d.base \o z[i].path, z[j].abs)
           /\ ~Begins(z[j].abs, d.base \o z[i].path)
           /\ Begins(d.base, z[j].abs)
<1> DEFINE b == d.base
           p == z[i].path
           q == z[j].path
<1>1. b \in Seq(Byte)
  BY HeadPaths
<1>2. z[i] # NoZipper /\ z[j] # NoZipper
  BY DEF Holds, Writing
<1>3. p \in Path /\ q \in Path /\ z[j].abs \in TriePath
  BY <1>2, ZipperInFacts DEF Secure
<1>4. Lawful(d, z[j])
  BY <1>2 DEF Granted
<1>5. z[j].mode = "write" /\ z[j].stage \in {"open", "leaving"} /\ z[j].abs = b \o q
  BY <1>4 DEF Writing, Lawful
<1>6. Holds(z[j])
  BY <1>2, <1>5 DEF Holds
<1>7. ~Comparable(p, q)
  BY <1>5, <1>6 DEF Granted
<1> HIDE DEF b, p, q
<1>8. p \in Seq(Byte) /\ q \in Seq(Byte)
  BY <1>3, HeadPaths
<1>9. ~Begins(p, q) /\ ~Begins(q, p)
  BY <1>7, <1>8, BeginsComparable
<1>10. ~Begins(b \o p, b \o q) /\ ~Begins(b \o q, b \o p) /\ Begins(b, b \o q)
  BY <1>1, <1>8, <1>9, BeginsConcat
<1>11. b \o p \in Seq(Byte) /\ b \o q \in Seq(Byte)
  BY <1>1, <1>8, ConcatFacts
<1> QED BY <1>5, <1>10, <1>11 DEF b, p, q

\* Where the slot of an open zipper or a map is with respect to a writer's chain.
LEMMA SlotOff ==
    ASSUME NEW d \in Heads, NEW h, NEW z, Secure(h, z), Granted(d, z),
           NEW i \in Zipper, z[i] # NoZipper, z[i].stage \in {"open", "map"},
           NEW j \in Zipper, Writing(z[j]), NEW c, Chain(h, z[j].abs, c)
    PROVE  /\ z[i].slot \in Slots(h)
           /\ i # j => OffChain(c, Len(z[j].abs), z[i].slot)
           /\ OffChain(c, Len(z[j].abs) - 1, z[i].slot)
           /\ Writing(z[i]) => Placed(c, z[j].abs, z[i].abs, z[i].slot)
<1> DEFINE a == z[j].abs
           s == z[i].slot
           p == z[i].abs
<1>1. HeapOK(h) /\ z[j] # NoZipper
  BY DEF Secure, Writing
<1>2. a \in TriePath /\ p \in TriePath /\ z[i].mode \in {"read", "write"}
  BY <1>1, ZipperInFacts DEF Secure
<1> HIDE DEF a
<1>3. a \in Seq(Byte) /\ p \in Seq(Byte)
  BY <1>2, HeadPaths
<1>4. CASE Writing(z[i])
  <2>1. z[i].stage = "open"
    BY <1>4 DEF Writing
  <2>2. PICK e : Chain(h, p, e) /\ s = Stop(e, Len(p))
    BY <1>4, <2>1 DEF Secure, Rooted
  <2>3. Len(p) \in 0..Len(p)
    BY <1>3
  <2>4. s \in Slots(h)
    BY <2>2, <2>3 DEF Chain
  <2>5. Begins(p, p) /\ Begins(a, a)
    BY <1>3 DEF Begins
  <2> HIDE DEF p, s
  <2>6. Locate(h, p) = s
    BY <1>1, <1>3, <2>2, <2>5, LocateChain
  <2>7. s # NoSlot
    <3>1. NoSlot \notin Slots(h)
      BY <1>1, ZipperInFacts DEF Secure
    <3> QED BY <2>4, <3>1
  <2>8. Chain(h, a, c)
    BY DEF a
  <2>9. IF Begins(p, a) THEN s = Stop(c, Len(p)) ELSE OffChain(c, Len(a), s)
    BY <1>1, <1>3, <2>6, <2>7, <2>8, LocateChain
  <2>10. Placed(c, a, p, s)
    BY <2>9 DEF Placed
  <2>11. CASE i = j
    <3>1. p = a
      BY <2>11 DEF p, a
    <3>2. s = Stop(c, Len(a))
      BY <2>5, <2>9, <3>1
    <3>3. OffChain(c, Len(a) - 1, s)
      BY <1>1, <1>3, <2>8, <3>2, OffLess
    <3> QED BY <2>4, <2>10, <2>11, <3>3 DEF a, p, s
  <2>12. CASE i # j
    <3>1. Holds(z[i])
      BY <2>1 DEF Holds
    <3>2. p = d.base \o z[i].path
      BY <2>1 DEF Granted, Lawful, p
    <3>3. ~Begins(p, a)
      BY <2>12, <3>1, <3>2, Apart DEF a
    <3>4. OffChain(c, Len(a), s)
      BY <2>9, <3>3
    <3>5. OffChain(c, Len(a) - 1, s)
      BY <1>1, <1>3, <2>8, <3>4, OffLess
    <3> QED BY <2>4, <2>10, <3>4, <3>5 DEF a, p, s
  <2> QED BY <2>11, <2>12
<1>5. CASE ~Writing(z[i])
  <2>1. Lawful(d, z[i])
    BY DEF Granted
  <2>2. Sharing(z[i])
    BY <1>2, <1>5, <2>1 DEF Writing, Sharing, Lawful
  <2>3. s = <<Roots, i>> /\ s \in Slots(h)
    BY <2>2 DEF Secure, Shared
  <2>4. i # "map"
    BY HeadAssumption
  <2>5. Chain(h, a, c)
    BY DEF a
  <2>6. OffChain(c, Len(a), s)
    BY <1>1, <1>3, <2>3, <2>4, <2>5, RootOff
  <2>7. OffChain(c, Len(a) - 1, s)
    BY <1>1, <1>3, <2>5, <2>6, OffLess
  <2> QED BY <1>5, <2>3, <2>6, <2>7 DEF a
<1> QED BY <1>4, <1>5

\* The heap becomes g, and the zippers y, each of which either is as in z and still has its
\* chain or cell, or is new.
LEMMA SecureStep ==
    ASSUME NEW d, NEW h, NEW z, Secure(h, z), Granted(d, z), NEW g, HeapOK(g),
           NEW y, OfZippers(y),
           \A i \in Zipper : y[i] # NoZipper =>
              \/ /\ y[i] = z[i]
                 /\ Writing(z[i]) => Rooted(g, z[i])
                 /\ Sharing(z[i]) => <<Roots, i>> \in Slots(g)
              \/ /\ y[i] \in ZipperIn(g)
                 /\ Writing(y[i]) => Rooted(g, y[i])
                 /\ Sharing(y[i]) => Shared(g, i, y[i])
    PROVE  Secure(g, y)
<1>1. ASSUME NEW i \in Zipper, y[i] # NoZipper, y[i] = z[i],
             Writing(z[i]) => Rooted(g, z[i]), Sharing(z[i]) => <<Roots, i>> \in Slots(g)
      PROVE  /\ y[i] \in ZipperIn(g)
             /\ Writing(y[i]) => Rooted(g, y[i])
             /\ Sharing(y[i]) => Shared(g, i, y[i])
  <2> DEFINE x == z[i]
  <2>1. x \in ZipperIn(h) /\ Lawful(d, x) /\ HeapOK(h) /\ (Sharing(x) => Shared(h, i, x))
    BY <1>1 DEF Secure, Granted
  <2> HIDE DEF x
  <2>2. x.stage \in {"asking", "open", "leaving", "map"} /\ x.mode \in {"read", "write"} /\ x # NoZipper
    BY <2>1, ZipperInFacts
  <2>3. Sharing(x) => Shared(g, i, x)
    BY <1>1, <2>1 DEF Shared, x
  <2>4. x.slot \in Slots(g) \cup {NoSlot}
    <3>1. CASE x.stage \in {"asking", "leaving"}
      BY <2>1, <3>1 DEF Lawful
    <3>2. CASE Sharing(x)
      BY <2>3, <3>2 DEF Shared
    <3>3. CASE x.stage = "open" /\ Writing(x)
      <4>1. PICK c : Chain(g, x.abs, c) /\ x.slot = Stop(c, Len(x.abs))
        BY <1>1, <3>3 DEF Rooted, x
      <4>2. Len(x.abs) \in 0..Len(x.abs)
        BY <2>1, ZipperInFacts, HeadPaths
      <4> QED BY <4>1, <4>2 DEF Chain
    <3>4. x.stage = "map" => x.mode = "read"
      BY <2>1 DEF Lawful
    <3> QED BY <2>2, <3>1, <3>2, <3>3, <3>4 DEF Sharing, Writing
  <2>5. x \in ZipperIn(g)
    BY <2>1, <2>4 DEF ZipperIn
  <2> QED BY <1>1, <2>3, <2>5 DEF x
<1> QED BY <1>1 DEF Secure

\* Locks, when the zippers become y, with no new claim.
LEMMA GrantedStep ==
    ASSUME NEW d, NEW z, Granted(d, z), NEW y,
           \A i \in Zipper : y[i] # NoZipper =>
              /\ Lawful(d, y[i])
              /\ Holds(y[i]) => Holds(z[i]) /\ y[i].path = z[i].path /\ y[i].mode = z[i].mode
              /\ Busy(y[i]) => Busy(z[i])
    PROVE  Granted(d, y)
<1>1. \A i \in Zipper : (Holds(y[i]) => y[i] # NoZipper) /\ (Busy(y[i]) => y[i] # NoZipper)
  BY DEF Holds, Busy
<1>2. ASSUME NEW i \in Zipper, NEW j \in Zipper, i # j, Holds(y[i]), Holds(y[j]),
             Comparable(y[i].path, y[j].path)
      PROVE  y[i].mode = "read" /\ y[j].mode = "read"
  <2>1. /\ Holds(z[i]) /\ y[i].path = z[i].path /\ y[i].mode = z[i].mode
        /\ Holds(z[j]) /\ y[j].path = z[j].path /\ y[j].mode = z[j].mode
    BY <1>1, <1>2
  <2> QED BY <1>2, <2>1 DEF Granted
<1>3. ASSUME ~d.threaded, NEW i \in Zipper, NEW j \in Zipper, Busy(y[i]), Busy(y[j])
      PROVE  i = j
  BY <1>1, <1>3 DEF Granted
<1> QED BY <1>2, <1>3 DEF Granted

-----------------------------------------------------------------------------
(* The steps, one by one.                                                  *)

\* What is true between the steps.
Good == /\ head \in Heads /\ Disciplined(head)
        /\ focus = head.base
        /\ panicked = FALSE
        /\ Granted(head, zip)
        /\ Secure(heap, zip)
        /\ Tidy(heap)

\* The end of a step.
LEMMA Settles ==
    ASSUME Good, head' = head, NEW h, NEW z, Secure(h, z), Granted(head, z), Settle(h, z),
           UNCHANGED <<focus, panicked>>
    PROVE  Good'
<1>1. Secure(heap', zip') /\ Granted(head, zip')
  BY SettledZippers
<1>2. HeapOK(h)
  BY DEF Secure
<1>3. Settled(h, heap')
  BY <1>2, SettleFacts
<1>4. Tidy(heap')
  BY <1>2, <1>3, SettledTidy
<1> QED BY <1>1, <1>4 DEF Good

\* splitting_borrow_focus adds to the heap; it does nothing when a writer is at work below.
LEMMA SplitFacts ==
    ASSUME NEW h, HeapOK(h), focus \in Seq(Byte)
    PROVE  /\ HeapOK(SplitAtFocus(h)) /\ Slots(h) \subseteq Slots(SplitAtFocus(h))
           /\ \A a \in Seq(Byte) : \A c :
                 Chain(h, a, c) /\ NodeIn(h, Stop(c, Len(a))) # NoNode /\ Begins(focus, a)
                 => SplitAtFocus(h) = h
<1> DEFINE f == Walk(h, HeadSlot, focus)
           g == EnsureNode(HeapOf(f), SlotOf(f))
           s == Locate(h, focus)
<1>1. SplitAtFocus(h) = IF s # NoSlot /\ NodeIn(h, s) # NoNode THEN h ELSE g
  BY DEF SplitAtFocus, HeapOf, SlotOf, NodeIn
<1>2. HeapOK(HeapOf(f)) /\ Slots(h) \subseteq Slots(HeapOf(f)) /\ SlotOf(f) \in Slots(HeapOf(f))
  BY HeapFacts, WalkFacts
<1> HIDE DEF f
<1>3. HeapOK(g) /\ Slots(HeapOf(f)) \subseteq Slots(g)
  <2>1. CASE g = HeapOf(f)
    BY <1>2, <2>1
  <2>2. CASE g = MakeMut(HeapOf(f), SlotOf(f))
    BY <1>2, <2>2, MakeMutFacts
  <2> QED BY <1>2, <2>1, <2>2, EnsureNodeFacts
<1>4. ASSUME NEW a \in Seq(Byte), NEW c, Chain(h, a, c), NodeIn(h, Stop(c, Len(a))) # NoNode,
             Begins(focus, a)
      PROVE  SplitAtFocus(h) = h
  <2>1. s = Stop(c, Len(focus))
    BY <1>4, LocateChain
  <2>2. Len(focus) \in 0..Len(a)
    BY <1>4 DEF Begins
  <2>3. NodeIn(h, s) # NoNode
    <3>1. CASE Len(focus) = Len(a)
      BY <1>4, <2>1, <3>1
    <3>2. CASE Len(focus) # Len(a)
      <4>1. Len(focus) \in 0..(Len(a) - 1)
        BY <2>2, <3>2
      <4> QED BY <1>4, <2>1, <4>1 DEF Chain
    <3> QED BY <3>1, <3>2
  <2>4. s \in Slots(h) /\ s # NoSlot
    <3>1. s \in Slots(h)
      BY <1>4, <2>1, <2>2 DEF Chain
    <3> HIDE DEF s
    <3> QED BY <3>1, NoSlotFacts
  <2> QED BY <1>1, <2>3, <2>4
<1> QED BY <1>1, <1>2, <1>3, <1>4

\* x is u, opened; y is z but for i; y makes no claim that z did not make.
Opens(u, x, a, s) ==
    x.mode = u.mode /\ x.stage = "open" /\ x.path = u.path /\ x.abs = a /\ x.slot = s
Updates(z, i, x, y) ==
    y[i] = x /\ OfZippers(y) /\ \A j \in Zipper : j # i => y[j] = z[j]

\* Now changes one zipper.
LEMMA NowUpdates ==
    ASSUME OfZippers(zip), NEW i \in Zipper, NEW x
    PROVE  Updates(zip, i, x, Now(i, x))
BY DEF OfZippers, Updates, Now

\* A zipper that was asking is opened.
LEMMA OpenedFacts ==
    ASSUME Good, NEW i \in Zipper, Is(i, "asking"),
           NEW g, HeapOK(g), NEW s \in Slots(g), NEW x, x = Opened(i, s)
    PROVE  /\ x \in ZipperIn(g) /\ x # NoZipper
           /\ Opens(zip[i], x, head.base \o zip[i].path, s)
           /\ Lawful(head, x) /\ Holds(x) /\ ~Busy(x) /\ Holds(zip[i])
           /\ head.base \o zip[i].path \in TriePath
<1> DEFINE u == zip[i]
<1>1. u # NoZipper /\ u.stage = "asking"
  BY DEF Is
<1>2. /\ u = [mode |-> u.mode, stage |-> u.stage, path |-> u.path, abs |-> u.abs, slot |-> u.slot]
      /\ u.mode \in {"read", "write"} /\ u.path \in Path
  BY <1>1, ZipperInFacts DEF Good, Secure
<1>3. head.base \o u.path \in TriePath
  BY <1>1 DEF Good, Granted, Lawful
<1> DEFINE a == head.base \o u.path
<1>4. x = [u EXCEPT !.stage = "open", !.abs = a, !.slot = s]
  BY DEF Opened, Good
<1> HIDE DEF u, a
<1>5. x = [mode |-> u.mode, stage |-> "open", path |-> u.path, abs |-> a, slot |-> s]
  BY <1>2, <1>4
<1>6. x \in ZipperIn(g)
  BY <1>2, <1>3, <1>5 DEF ZipperIn, a
<1>7. x # NoZipper
  BY <1>6, ZipperInFacts
<1>8. /\ x.mode = u.mode /\ x.stage = "open" /\ x.path = u.path
      /\ x.abs = a /\ x.slot = s
  BY <1>5
<1>9. Lawful(head, x) /\ Holds(x) /\ ~Busy(x) /\ Holds(u)
  BY <1>1, <1>7, <1>8 DEF Lawful, Holds, Busy, u, a
<1> QED BY <1>3, <1>6, <1>7, <1>8, <1>9 DEF u, a, Opens

\* What Good says about the writers.
LEMMA GoodFacts ==
    ASSUME Good
    PROVE  /\ HeapOK(heap) /\ OfZippers(zip) /\ head \in Heads
           /\ focus = head.base /\ focus \in Seq(Byte) /\ focus \in TriePath
           /\ HeadSlot \in Slots(heap)
           /\ \A j \in Zipper : Writing(zip[j]) => zip[j] # NoZipper /\ zip[j].abs \in TriePath
                                                   /\ zip[j].abs \in Seq(Byte)
           /\ \A j \in Zipper : j # "map"
<1>1. HeapOK(heap) /\ OfZippers(zip)
  BY DEF Good, Secure
<1>2. ASSUME NEW j \in Zipper, Writing(zip[j])
      PROVE  zip[j] # NoZipper /\ zip[j].abs \in TriePath /\ zip[j].abs \in Seq(Byte)
  <2>1. zip[j] # NoZipper
    BY <1>2 DEF Writing
  <2>2. zip[j] \in ZipperIn(heap)
    BY <2>1 DEF Good, Secure
  <2>3. zip[j].abs \in TriePath
    BY <1>1, <2>2, ZipperInFacts
  <2> QED BY <2>1, <2>3, HeadPaths
<1>3. head \in Heads /\ focus = head.base /\ focus \in Seq(Byte) /\ focus \in TriePath
  BY HeadPaths DEF Good
<1> QED BY <1>1, <1>2, <1>3, HeapFacts, HeadAssumption

\* The heap becomes g, and zipper i becomes x, with no new claim.
LEMMA StepEnds ==
    ASSUME Good, NEW i \in Zipper, NEW g, HeapOK(g), NEW x, NEW y, Updates(zip, i, x, y),
           x # NoZipper => /\ x \in ZipperIn(g) /\ Lawful(head, x)
                           /\ Writing(x) => Rooted(g, x)
                           /\ Sharing(x) => Shared(g, i, x)
                           /\ Holds(x) => Holds(zip[i]) /\ x.path = zip[i].path /\ x.mode = zip[i].mode
                           /\ Busy(x) => Busy(zip[i]),
           \A j \in Zipper : j # i /\ Writing(zip[j]) => Rooted(g, zip[j]),
           \A j \in Zipper : j # i /\ Sharing(zip[j]) => <<Roots, j>> \in Slots(g)
    PROVE  Secure(g, y) /\ Granted(head, y)
<1>1. Secure(heap, zip) /\ Granted(head, zip)
  BY DEF Good
<1>2. y[i] = x /\ OfZippers(y) /\ \A j \in Zipper : j # i => y[j] = zip[j]
  BY DEF Updates
<1>3. Secure(g, y)
  <2>1. ASSUME NEW j \in Zipper, y[j] # NoZipper
        PROVE  \/ /\ y[j] = zip[j]
                  /\ Writing(zip[j]) => Rooted(g, zip[j])
                  /\ Sharing(zip[j]) => <<Roots, j>> \in Slots(g)
               \/ /\ y[j] \in ZipperIn(g)
                  /\ Writing(y[j]) => Rooted(g, y[j])
                  /\ Sharing(y[j]) => Shared(g, j, y[j])
    BY <1>2, <2>1
  <2> QED BY <1>1, <1>2, <2>1, SecureStep
<1>4. ASSUME NEW j \in Zipper, y[j] # NoZipper
      PROVE  /\ Lawful(head, y[j])
             /\ Holds(y[j]) => Holds(zip[j]) /\ y[j].path = zip[j].path /\ y[j].mode = zip[j].mode
             /\ Busy(y[j]) => Busy(zip[j])
  <2>1. CASE j = i
    BY <1>2, <1>4, <2>1
  <2>2. CASE j # i
    <3>1. y[j] = zip[j]
      BY <1>2, <2>2
    <3> QED BY <1>1, <1>4, <3>1 DEF Granted
  <2> QED BY <2>1, <2>2
<1>5. Granted(head, y)
  BY <1>1, <1>4, GrantedStep
<1> QED BY <1>3, <1>5

\* The heap becomes g, the zippers are as before.
LEMMA WriterEnds ==
    ASSUME Good, head' = head, NEW g, HeapOK(g),
           \A j \in Zipper : Writing(zip[j]) => Rooted(g, zip[j]),
           \A j \in Zipper : Sharing(zip[j]) => <<Roots, j>> \in Slots(g),
           Settle(g, zip), UNCHANGED <<focus, panicked>>
    PROVE  Good'
<1>1. Secure(heap, zip) /\ Granted(head, zip) /\ OfZippers(zip)
  BY DEF Good, Secure
<1>2. ASSUME NEW j \in Zipper, zip[j] # NoZipper
      PROVE  \/ /\ zip[j] = zip[j]
                /\ Writing(zip[j]) => Rooted(g, zip[j])
                /\ Sharing(zip[j]) => <<Roots, j>> \in Slots(g)
             \/ /\ zip[j] \in ZipperIn(g)
                /\ Writing(zip[j]) => Rooted(g, zip[j])
                /\ Sharing(zip[j]) => Shared(g, j, zip[j])
  OBVIOUS
<1>3. Secure(g, zip)
  BY <1>1, <1>2, SecureStep
<1> QED BY <1>1, <1>3, Settles

\* A reader gets its cell; writers keep their chains.
LEMMA EnterReadStep ==
    ASSUME Good, head' = head, NEW i \in Zipper, EnterRead(i)
    PROVE  Good'
<1> DEFINE h == SplitAtFocus(heap)
           p == focus \o zip[i].path
           c == CellBelow(h, At(h, HeadSlot), p)
           s == <<Roots, i>>
           g == WithCell(h, s, c)
           x == Opened(i, s)
           y == Now(i, x)
<1>1. Is(i, "asking") /\ zip[i].mode = "read" /\ Settle(g, y) /\ UNCHANGED <<focus, panicked>>
  BY DEF EnterRead
<1>2. HeapOK(heap) /\ focus = head.base /\ focus \in Seq(Byte) /\ i # "map" /\ head \in Heads
  BY GoodFacts
<1>3. /\ HeapOK(h) /\ Slots(heap) \subseteq Slots(h)
      /\ \A a \in Seq(Byte) : \A e :
            Chain(heap, a, e) /\ NodeIn(heap, Stop(e, Len(a))) # NoNode /\ Begins(focus, a) => h = heap
  BY <1>2, SplitFacts
<1>4. zip[i] # NoZipper /\ Holds(zip[i]) /\ ~Writing(zip[i]) /\ zip[i].path \in Seq(Byte)
  <2>1. zip[i] # NoZipper /\ zip[i].stage = "asking"
    BY <1>1 DEF Is
  <2>2. zip[i].path \in Path
    BY <1>2, <2>1, ZipperInFacts DEF Good, Secure
  <2> QED BY <1>1, <2>1, <2>2, HeadPaths DEF Holds, Writing
<1>5. p \in Seq(Byte)
  BY <1>2, <1>4, ConcatFacts
<1> HIDE DEF h, p
<1>6. HeadSlot \in Slots(h)
  BY <1>3, HeapFacts
<1>7. c = NoCell \/ \E t \in Slots(h) : c = At(h, t)
  BY <1>3, <1>5, <1>6, CellBelowSlot
<1>8. c \in CellType(h)
  <2>1. NoCell \in CellType(h)
    BY DEF NoCell, CellType
  <2> HIDE DEF c
  <2> QED BY <1>3, <1>7, <2>1, HeapFacts
<1>9. Named(h, s)
  BY <1>3, HeapFacts DEF Named, Owner
<1>10. HeapOK(g) /\ Slots(g) = Slots(h) \cup {s} /\ \A t \in Slots(h) : t # s => At(g, t) = At(h, t)
  BY <1>3, <1>8, <1>9, WithCellFacts
<1>11. ASSUME NEW j \in Zipper, j # i, Writing(zip[j])
       PROVE  Rooted(g, zip[j])
  <2> DEFINE a == zip[j].abs
  <2>1. a \in Seq(Byte)
    BY <1>11, GoodFacts
  <2>2. PICK e : /\ Chain(heap, a, e)
                 /\ NodeIn(heap, Stop(e, Len(a))) # NoNode
                 /\ zip[j].stage = "open" => zip[j].slot = Stop(e, Len(a))
    BY <1>11 DEF Good, Secure, Rooted, Writing
  <2>3. ~Begins(p, a) /\ Begins(focus, a)
    BY <1>2, <1>4, <1>11, Apart DEF Good, p
  <2> HIDE DEF a
  <2>4. h = heap
    BY <1>3, <2>1, <2>2, <2>3
  <2>5. OffChain(e, Len(a), s)
    BY <1>2, <2>1, <2>2, RootOff
  <2>6. OffChain(e, Len(a) - 1, s)
    BY <1>2, <2>1, <2>2, <2>5, OffLess
  <2>7. c.rec = NoNode \/ \A k \in 0..(Len(a) - 1) : c.rec # NodeIn(h, Stop(e, k))
    <3>1. c = NoCell \/ \E t \in Slots(h) : OffChain(e, Len(a), t) /\ c = At(h, t)
      BY <1>2, <1>5, <2>1, <2>2, <2>3, <2>4, CellBelowChain
    <3>2. CASE c = NoCell
      BY <3>2 DEF NoCell
    <3>3. CASE c # NoCell
      <4>1. PICK t \in Slots(h) : OffChain(e, Len(a), t) /\ c = At(h, t)
        BY <3>1, <3>3
      <4>2. OffChain(e, Len(a) - 1, t)
        BY <1>2, <2>1, <2>2, <4>1, OffLess
      <4>3. \A k \in 0..(Len(a) - 1) : NodeIn(h, t) # NodeIn(h, Stop(e, k))
        BY <2>2, <2>4, <4>2, NodeOff
      <4> QED BY <4>1, <4>3 DEF NodeIn
    <3> QED BY <3>2, <3>3
  <2>8. Chain(g, a, e)
    BY <1>2, <1>8, <1>9, <2>1, <2>2, <2>4, <2>6, <2>7, ChainWrites
  <2>9. NodeIn(g, Stop(e, Len(a))) # NoNode
    <3>1. Len(a) \in 0..Len(a)
      BY <2>1
    <3>2. Stop(e, Len(a)) \in Slots(h) /\ Stop(e, Len(a)) # s
      BY <2>2, <2>4, <2>5, <3>1 DEF Chain, OffChain
    <3> QED BY <1>10, <2>2, <2>4, <3>2 DEF NodeIn
  <2> QED BY <2>2, <2>8, <2>9 DEF Rooted, a
<1> HIDE DEF g, s
<1>12. s \in Slots(g)
  BY <1>10
<1>13. /\ x \in ZipperIn(g) /\ x.mode = zip[i].mode /\ x.stage = "open" /\ x.path = zip[i].path
       /\ x.slot = s /\ Lawful(head, x) /\ ~Busy(x) /\ Holds(zip[i])
       /\ y[i] = x /\ (\A j \in Zipper : j # i => y[j] = zip[j])
       /\ OfZippers(y)
  <2>1. x = Opened(i, s) /\ y = Now(i, x) /\ HeapOK(g)
    BY <1>10
  <2> HIDE DEF x, y
  <2>2. x \in ZipperIn(g) /\ Lawful(head, x) /\ ~Busy(x) /\ Holds(zip[i])
    BY <1>1, <1>12, <2>1, OpenedFacts
  <2>3. Opens(zip[i], x, head.base \o zip[i].path, s)
    BY <1>1, <1>12, <2>1, OpenedFacts
  <2>4. Updates(zip, i, x, y)
    BY <2>1, GoodFacts, NowUpdates
  <2> QED BY <2>2, <2>3, <2>4 DEF Opens, Updates
<1> HIDE DEF x, y
<1>14. Sharing(x) => Shared(g, i, x)
  BY <1>12, <1>13 DEF Shared, s
<1>15. ~Writing(x)
  BY <1>1, <1>13 DEF Writing
<1>16. \A j \in Zipper : Sharing(zip[j]) => <<Roots, j>> \in Slots(g)
  BY <1>3, <1>10 DEF Good, Secure, Shared, Sharing
<1>17. Secure(g, y) /\ Granted(head, y)
  <2>1. Updates(zip, i, x, y)
    BY <1>13 DEF Updates
  <2> QED BY <1>10, <1>11, <1>13, <1>14, <1>15, <1>16, <2>1, StepEnds
<1> QED BY <1>1, <1>17, Settles

\* A walk ends with a heap and a slot.
LEMMA WalkRecord ==
    ASSUME NEW h, NEW s, NEW p \in Seq(Byte)
    PROVE  Walk(h, s, p) = [heap |-> HeapOf(Walk(h, s, p)), slot |-> SlotOf(Walk(h, s, p))]
<1>0. PICK f : Walks(h, s, p, f)
  BY WalkExists
<1>1. /\ f[0] = [heap |-> h, slot |-> s]
      /\ \A k \in 1..Len(p) : f[k] = Descend(f[k - 1].heap, f[k - 1].slot, p[k])
      /\ Walk(h, s, p) = f[Len(p)]
  BY <1>0 DEF Walks
<1> DEFINE w == Walk(h, s, p)
<1>2. \E g, t : w = [heap |-> g, slot |-> t]
  <2>1. CASE Len(p) = 0
    BY <1>1, <2>1
  <2>2. CASE Len(p) # 0
    <3>1. Len(p) \in 1..Len(p)
      BY <2>2
    <3>2. w = Descend(f[Len(p) - 1].heap, f[Len(p) - 1].slot, p[Len(p)])
      BY <1>1, <3>1
    <3>3. \A g, t, b : \E k, u : Descend(g, t, b) = [heap |-> k, slot |-> u]
      BY DEF Descend
    <3> QED BY <3>2, <3>3
  <2> QED BY <2>1, <2>2
<1> HIDE DEF w
<1>3. w = [heap |-> HeapOf(w), slot |-> SlotOf(w)]
  BY <1>2 DEF HeapOf, SlotOf
<1> QED BY <1>3 DEF w

\* prepare_exclusive_write_path, in its parts.
LEMMA PrepareParts ==
    ASSUME NEW h, HeapOK(h), focus \in Seq(Byte), NEW p \in Seq(Byte)
    PROVE  \E f, m, w : /\ f = Walk(h, HeadSlot, focus)
                        /\ m = MakeMut(HeapOf(f), SlotOf(f))
                        /\ w = Walk(m, SlotOf(f), p)
                        /\ HeapOK(HeapOf(f)) /\ SlotOf(f) \in Slots(HeapOf(f))
                        /\ HeapOK(m) /\ SlotOf(f) \in Slots(m)
                        /\ HeapOK(HeapOf(w)) /\ SlotOf(w) \in Slots(HeapOf(w))
                        /\ Slots(h) \subseteq Slots(HeapOf(w))
                        /\ SlotOf(Prepare(h, p)) = SlotOf(w)
                        /\ HeapOf(Prepare(h, p)) = EnsureNode(HeapOf(w), SlotOf(w))
<1> DEFINE f == Walk(h, HeadSlot, focus)
           m == MakeMut(HeapOf(f), SlotOf(f))
           w == Walk(m, SlotOf(f), p)
<1>1. HeapOK(HeapOf(f)) /\ SlotOf(f) \in Slots(HeapOf(f)) /\ Slots(h) \subseteq Slots(HeapOf(f))
  BY HeapFacts, WalkFacts
<1>2. Prepare(h, p) = [w EXCEPT !.heap = EnsureNode(@, w.slot)]
  BY DEF Prepare, HeapOf, SlotOf
<1>3. w = [heap |-> HeapOf(w), slot |-> SlotOf(w)]
  BY WalkRecord
<1> HIDE DEF f
<1>4. HeapOK(m) /\ Slots(HeapOf(f)) \subseteq Slots(m)
  BY <1>1, MakeMutFacts
<1>5. SlotOf(f) \in Slots(m)
  BY <1>1, <1>4
<1> HIDE DEF m
<1>6. HeapOK(HeapOf(w)) /\ SlotOf(w) \in Slots(HeapOf(w)) /\ Slots(m) \subseteq Slots(HeapOf(w))
  BY <1>4, <1>5, WalkFacts
<1> HIDE DEF w
<1>7. Prepare(h, p) = [heap |-> EnsureNode(HeapOf(w), SlotOf(w)), slot |-> SlotOf(w)]
  BY <1>2, <1>3
<1>8. SlotOf(Prepare(h, p)) = SlotOf(w) /\ HeapOf(Prepare(h, p)) = EnsureNode(HeapOf(w), SlotOf(w))
  BY <1>7 DEF HeapOf, SlotOf
<1> QED BY <1>1, <1>4, <1>5, <1>6, <1>8 DEF f, m, w

\* EnsureNode adds to the heap, and keeps chains.
LEMMA EnsureNodeChain ==
    ASSUME NEW h, HeapOK(h), NEW s \in Slots(h)
    PROVE  /\ HeapOK(EnsureNode(h, s)) /\ Slots(h) \subseteq Slots(EnsureNode(h, s))
           /\ NodeIn(EnsureNode(h, s), s) # NoNode
           /\ \A a \in Seq(Byte) : \A c : Chain(h, a, c) =>
                 /\ Chain(EnsureNode(h, s), a, c)
                 /\ NodeIn(h, Stop(c, Len(a))) # NoNode => NodeIn(EnsureNode(h, s), Stop(c, Len(a))) # NoNode
<1> DEFINE g == EnsureNode(h, s)
<1>1. (g = h \/ g = MakeMut(h, s)) /\ NodeIn(g, s) # NoNode
  BY EnsureNodeFacts
<1>2. HeapOK(g) /\ Slots(h) \subseteq Slots(g)
  BY <1>1, MakeMutFacts
<1>3. ASSUME NEW a \in Seq(Byte), NEW c, Chain(h, a, c)
      PROVE  /\ Chain(g, a, c)
             /\ NodeIn(h, Stop(c, Len(a))) # NoNode => NodeIn(g, Stop(c, Len(a))) # NoNode
  <2>1. CASE g = h
    BY <1>3, <2>1
  <2>2. CASE g = MakeMut(h, s)
    BY <1>3, <2>2, MakeMutChain
  <2> QED BY <1>1, <2>1, <2>2
<1> QED BY <1>1, <1>2, <1>3

\* The empty path has a chain.
LEMMA FirstStop ==
    ASSUME NEW h, HeapOK(h)
    PROVE  \E c : Chain(h, <<>>, c) /\ Stop(c, 0) = HeadSlot
<1> DEFINE c == [k \in 0..0 |-> HeadSlot]
<1>1. Stop(c, 0) = HeadSlot
  BY DEF Stop
<1> HIDE DEF c
<1>2. Chain(h, <<>>, c)
  BY <1>1, HeapFacts DEF Chain
<1> QED BY <1>1, <1>2

\* The path prepared has a chain, which ends in a slot with a node.
LEMMA PrepareOwn ==
    ASSUME NEW h, HeapOK(h), focus \in Seq(Byte), NEW p \in Seq(Byte)
    PROVE  LET g == HeapOf(Prepare(h, p))
               s == SlotOf(Prepare(h, p))
               a == focus \o p
           IN /\ HeapOK(g) /\ Slots(h) \subseteq Slots(g) /\ s \in Slots(g)
              /\ \E e : Chain(g, a, e) /\ Stop(e, Len(a)) = s /\ NodeIn(g, s) # NoNode
<1>1. PICK f, m, w : /\ f = Walk(h, HeadSlot, focus)
                     /\ m = MakeMut(HeapOf(f), SlotOf(f))
                     /\ w = Walk(m, SlotOf(f), p)
                     /\ HeapOK(HeapOf(f)) /\ SlotOf(f) \in Slots(HeapOf(f))
                     /\ HeapOK(m) /\ SlotOf(f) \in Slots(m)
                     /\ HeapOK(HeapOf(w)) /\ SlotOf(w) \in Slots(HeapOf(w))
                     /\ Slots(h) \subseteq Slots(HeapOf(w))
                     /\ SlotOf(Prepare(h, p)) = SlotOf(w)
                     /\ HeapOf(Prepare(h, p)) = EnsureNode(HeapOf(w), SlotOf(w))
  BY PrepareParts
<1> DEFINE g == EnsureNode(HeapOf(w), SlotOf(w))
           s == SlotOf(w)
           a == focus \o p
<1>2. HeapOK(g) /\ Slots(HeapOf(w)) \subseteq Slots(g) /\ NodeIn(g, s) # NoNode
  BY <1>1, EnsureNodeChain
<1>3. \E c : Chain(HeapOf(f), focus, c) /\ Stop(c, Len(focus)) = SlotOf(f)
  <2>1. PICK c0 : Chain(h, <<>>, c0) /\ Stop(c0, 0) = HeadSlot
    BY FirstStop
  <2> DEFINE q == <<>>
  <2>2. Len(q) = 0 /\ q \in Seq(Byte) /\ q \o focus = focus /\ Chain(h, q, c0)
    BY <2>1, ConcatFacts
  <2> HIDE DEF q
  <2>3. Stop(c0, Len(q)) = HeadSlot /\ HeadSlot \in Slots(h)
    BY <2>1, <2>2, HeapFacts
  <2> DEFINE v == Walk(h, HeadSlot, focus)
  <2>4. \E e : /\ Chain(HeapOf(v), q \o focus, e)
               /\ \A k \in 0..Len(q) : Stop(e, k) = Stop(c0, k)
               /\ Stop(e, Len(q \o focus)) = SlotOf(v)
    <3>1. q \in Seq(Byte) /\ Chain(h, q, c0)
      BY <2>2
    <3>2. Stop(c0, Len(q)) = HeadSlot /\ HeadSlot \in Slots(h)
      BY <2>3
    <3> DEFINE r == focus
               t == HeadSlot
    <3>3. r \in Seq(Byte) /\ t \in Slots(h) /\ Stop(c0, Len(q)) = t
      BY <3>2
    <3> HIDE DEF r, t
    <3>4. \E e : /\ Chain(HeapOf(Walk(h, t, r)), q \o r, e)
                 /\ \A k \in 0..Len(q) : Stop(e, k) = Stop(c0, k)
                 /\ Stop(e, Len(q \o r)) = SlotOf(Walk(h, t, r))
      BY <3>1, <3>3, WalkOwn
    <3> QED BY <3>4 DEF r, t
  <2>5. PICK e : /\ Chain(HeapOf(v), q \o focus, e)
                 /\ \A k \in 0..Len(q) : Stop(e, k) = Stop(c0, k)
                 /\ Stop(e, Len(q \o focus)) = SlotOf(v)
    BY <2>4
  <2>6. v = f
    BY <1>1
  <2> HIDE DEF v
  <2> QED BY <2>2, <2>5, <2>6
<1>4. PICK c : Chain(HeapOf(f), focus, c) /\ Stop(c, Len(focus)) = SlotOf(f)
  BY <1>3
<1>5. Chain(m, focus, c)
  BY <1>1, <1>4, MakeMutChain
<1>6. PICK e : /\ Chain(HeapOf(w), a, e)
               /\ \A k \in 0..Len(focus) : Stop(e, k) = Stop(c, k)
               /\ Stop(e, Len(a)) = SlotOf(w)
  BY <1>1, <1>4, <1>5, WalkOwn
<1>7. a \in Seq(Byte)
  BY ConcatFacts
<1>8. Chain(g, a, e)
  BY <1>1, <1>6, <1>7, EnsureNodeChain
<1> QED BY <1>1, <1>2, <1>6, <1>8

\* Other chains stay as they are.
LEMMA PrepareChain ==
    ASSUME NEW h, HeapOK(h), focus \in Seq(Byte), NEW p \in Seq(Byte),
           NEW a \in Seq(Byte), NEW c, Chain(h, a, c), NodeIn(h, Stop(c, Len(a))) # NoNode
    PROVE  LET g == HeapOf(Prepare(h, p))
           IN Chain(g, a, c) /\ NodeIn(g, Stop(c, Len(a))) # NoNode
<1>1. PICK f, m, w : /\ f = Walk(h, HeadSlot, focus)
                     /\ m = MakeMut(HeapOf(f), SlotOf(f))
                     /\ w = Walk(m, SlotOf(f), p)
                     /\ HeapOK(HeapOf(f)) /\ SlotOf(f) \in Slots(HeapOf(f))
                     /\ HeapOK(m) /\ SlotOf(f) \in Slots(m)
                     /\ HeapOK(HeapOf(w)) /\ SlotOf(w) \in Slots(HeapOf(w))
                     /\ Slots(h) \subseteq Slots(HeapOf(w))
                     /\ SlotOf(Prepare(h, p)) = SlotOf(w)
                     /\ HeapOf(Prepare(h, p)) = EnsureNode(HeapOf(w), SlotOf(w))
  BY PrepareParts
<1>2. Placed(c, a, <<>>, HeadSlot)
  BY BeginsFacts DEF Placed, Chain
<1>3. /\ Chain(HeapOf(f), a, c) /\ NodeIn(HeapOf(f), Stop(c, Len(a))) # NoNode
      /\ Placed(c, a, focus, SlotOf(f))
  <2> DEFINE q == <<>>
  <2>1. q \o focus = focus /\ q \in Seq(Byte) /\ Placed(c, a, q, HeadSlot) /\ HeadSlot \in Slots(h)
    BY <1>2, ConcatFacts, HeapFacts
  <2> HIDE DEF q
  <2>2. /\ Chain(HeapOf(f), a, c)
        /\ NodeIn(h, Stop(c, Len(a))) # NoNode => NodeIn(HeapOf(f), Stop(c, Len(a))) # NoNode
        /\ Placed(c, a, q \o focus, SlotOf(f))
    BY <1>1, <2>1, WalkChain
  <2> QED BY <2>1, <2>2
<1>4. Chain(m, a, c) /\ NodeIn(m, Stop(c, Len(a))) # NoNode
  BY <1>1, <1>3, MakeMutChain
<1>5. Chain(HeapOf(w), a, c) /\ NodeIn(HeapOf(w), Stop(c, Len(a))) # NoNode
  BY <1>1, <1>3, <1>4, WalkChain
<1> QED BY <1>1, <1>5, EnsureNodeChain

\* A writer gets its chain; the others keep theirs.
LEMMA EnterWriteStep ==
    ASSUME Good, head' = head, NEW i \in Zipper, EnterWrite(i)
    PROVE  Good'
<1> DEFINE p == zip[i].path
           g == HeapOf(Prepare(heap, p))
           s == SlotOf(Prepare(heap, p))
           x == Opened(i, s)
           y == Now(i, x)
<1>1. Is(i, "asking") /\ zip[i].mode = "write" /\ Settle(g, y) /\ UNCHANGED <<focus, panicked>>
  BY DEF EnterWrite, HeapOf, SlotOf
<1>2. HeapOK(heap) /\ focus = head.base /\ focus \in Seq(Byte)
  BY GoodFacts
<1>3. p \in Seq(Byte)
  <2>1. zip[i] # NoZipper
    BY <1>1 DEF Is
  <2>2. p \in Path
    BY <1>2, <2>1, ZipperInFacts DEF Good, Secure
  <2> QED BY <2>2, HeadPaths
<1> HIDE DEF p
<1>4. HeapOK(g) /\ Slots(heap) \subseteq Slots(g) /\ s \in Slots(g)
  BY <1>2, <1>3, PrepareOwn
<1>5. \E e : Chain(g, focus \o p, e) /\ Stop(e, Len(focus \o p)) = s /\ NodeIn(g, s) # NoNode
  BY <1>2, <1>3, PrepareOwn
<1>6. ASSUME NEW j \in Zipper, Writing(zip[j])
      PROVE  Rooted(g, zip[j])
  <2> DEFINE a == zip[j].abs
  <2>1. a \in Seq(Byte)
    BY <1>6, GoodFacts
  <2>2. PICK e : /\ Chain(heap, a, e)
                 /\ NodeIn(heap, Stop(e, Len(a))) # NoNode
                 /\ zip[j].stage = "open" => zip[j].slot = Stop(e, Len(a))
    BY <1>6 DEF Good, Secure, Rooted, Writing
  <2> HIDE DEF a
  <2>3. Chain(g, a, e) /\ NodeIn(g, Stop(e, Len(a))) # NoNode
    BY <1>2, <1>3, <2>1, <2>2, PrepareChain
  <2> QED BY <2>2, <2>3 DEF Rooted, a
<1>7. \A j \in Zipper : Sharing(zip[j]) => <<Roots, j>> \in Slots(g)
  BY <1>4 DEF Good, Secure, Shared, Sharing
<1> HIDE DEF g, s
<1>8. x = Opened(i, s) /\ y = Now(i, x)
  OBVIOUS
<1> HIDE DEF x, y
<1>9. x \in ZipperIn(g) /\ Lawful(head, x) /\ Holds(x) /\ ~Busy(x) /\ Holds(zip[i])
  BY <1>1, <1>4, <1>8, OpenedFacts
<1>10. Opens(zip[i], x, head.base \o zip[i].path, s)
  BY <1>1, <1>4, <1>8, OpenedFacts
<1>11. Updates(zip, i, x, y)
  BY <1>8, GoodFacts, NowUpdates
<1>12. x.path = zip[i].path /\ x.mode = zip[i].mode /\ x.abs = focus \o p /\ x.slot = s
  BY <1>2, <1>10 DEF Opens, p
<1>13. Rooted(g, x)
  BY <1>5, <1>12 DEF Rooted
<1>14. ~Sharing(x)
  BY <1>1, <1>12 DEF Sharing
<1>15. Secure(g, y) /\ Granted(head, y)
  BY <1>4, <1>6, <1>7, <1>9, <1>11, <1>12, <1>13, <1>14, StepEnds
<1> QED BY <1>1, <1>15, Settles

\* A walk that a writer makes from its slot.
LEMMA WriterWalk ==
    ASSUME Good, NEW i \in Zipper, CanWrite(i), NEW r \in Seq(Byte)
    PROVE  LET w == Walk(heap, zip[i].slot, r)
           IN /\ HeapOK(HeapOf(w)) /\ SlotOf(w) \in Slots(HeapOf(w))
              /\ Slots(heap) \subseteq Slots(HeapOf(w))
              /\ Len(r) > 0 => SlotOf(w)[1] # Roots
              /\ \A j \in Zipper : Writing(zip[j]) =>
                    \E c : /\ Chain(HeapOf(w), zip[j].abs, c)
                           /\ NodeIn(HeapOf(w), Stop(c, Len(zip[j].abs))) # NoNode
                           /\ zip[j].stage = "open" => zip[j].slot = Stop(c, Len(zip[j].abs))
                           /\ Placed(c, zip[j].abs, zip[i].abs \o r, SlotOf(w))
<1> DEFINE s == zip[i].slot
           p == zip[i].abs
           w == Walk(heap, s, r)
<1>1. HeapOK(heap) /\ head \in Heads /\ Secure(heap, zip) /\ Granted(head, zip)
  BY DEF Good, Secure
<1>2. zip[i] # NoZipper /\ zip[i].stage = "open" /\ Writing(zip[i])
  BY DEF CanWrite, Writers, Open, Is, Writing
<1>3. p \in Seq(Byte)
  BY <1>2, GoodFacts
<1>4. PICK e : Chain(heap, p, e) /\ s = Stop(e, Len(p))
  BY <1>1, <1>2 DEF Secure, Rooted
<1>5. s \in Slots(heap)
  <2>1. Len(p) \in 0..Len(p)
    BY <1>3
  <2> HIDE DEF s, p
  <2> QED BY <1>4, <2>1 DEF Chain
<1> HIDE DEF s, p
<1>6. HeapOK(HeapOf(w)) /\ Slots(heap) \subseteq Slots(HeapOf(w)) /\ SlotOf(w) \in Slots(HeapOf(w))
  BY <1>1, <1>5, WalkFacts
<1>7. ASSUME Len(r) > 0
      PROVE  SlotOf(w)[1] # Roots
  <2>1. PICK d : /\ Chain(HeapOf(w), p \o r, d)
                 /\ \A k \in 0..Len(p) : Stop(d, k) = Stop(e, k)
                 /\ Stop(d, Len(p \o r)) = SlotOf(w)
    BY <1>1, <1>3, <1>4, <1>5, WalkOwn
  <2> DEFINE q == p \o r
             g == HeapOf(w)
  <2>2. q \in Seq(Byte) /\ Len(q) \in 0..Len(q) /\ Len(q) # 0
    BY <1>3, <1>7, ConcatFacts
  <2>3. HeapOK(g) /\ Chain(g, q, d) /\ SlotOf(w) = Stop(d, Len(q))
    BY <1>6, <2>1
  <2> HIDE DEF w, q, g
  <2>4. Stop(d, Len(q))[1] # Roots
    BY <2>2, <2>3, ChainFacts
  <2> QED BY <2>3, <2>4
<1>8. ASSUME NEW j \in Zipper, Writing(zip[j])
      PROVE  \E c : /\ Chain(HeapOf(w), zip[j].abs, c)
                    /\ NodeIn(HeapOf(w), Stop(c, Len(zip[j].abs))) # NoNode
                    /\ zip[j].stage = "open" => zip[j].slot = Stop(c, Len(zip[j].abs))
                    /\ Placed(c, zip[j].abs, p \o r, SlotOf(w))
  <2> DEFINE a == zip[j].abs
  <2>1. a \in Seq(Byte) /\ zip[j] # NoZipper
    BY <1>8, GoodFacts
  <2>2. PICK c : /\ Chain(heap, a, c)
                 /\ NodeIn(heap, Stop(c, Len(a))) # NoNode
                 /\ zip[j].stage = "open" => zip[j].slot = Stop(c, Len(a))
    BY <1>1, <1>8, <2>1 DEF Secure, Rooted
  <2>3. Placed(c, a, p, s)
    BY <1>1, <1>2, <1>8, <2>2, SlotOff DEF p, s
  <2> HIDE DEF a
  <2>4. /\ Chain(HeapOf(w), a, c)
        /\ NodeIn(heap, Stop(c, Len(a))) # NoNode => NodeIn(HeapOf(w), Stop(c, Len(a))) # NoNode
        /\ Placed(c, a, p \o r, SlotOf(w))
    BY <1>1, <1>3, <1>5, <2>1, <2>2, <2>3, WalkChain
  <2> QED BY <2>2, <2>4 DEF a
<1> QED BY <1>6, <1>7, <1>8 DEF p, s

\* A cell with another value.
LEMMA ValueCell ==
    ASSUME NEW h, HeapOK(h), NEW s \in Slots(h), NEW v \in Val \cup {NoVal}
    PROVE  /\ [At(h, s) EXCEPT !.val = v] \in CellType(h)
           /\ [At(h, s) EXCEPT !.val = v].rec = NodeIn(h, s)
           /\ [At(h, s) EXCEPT !.val = v].val = v
<1> DEFINE c == At(h, s)
<1>1. c \in CellType(h)
  BY HeapFacts
<1> HIDE DEF c
<1>2. [c EXCEPT !.val = v] \in CellType(h) /\ [c EXCEPT !.val = v].rec = c.rec /\ [c EXCEPT !.val = v].val = v
  BY <1>1 DEF CellType
<1> QED BY <1>2 DEF c, NodeIn

\* Writing a value leaves writers and readers as they are.
LEMMA ValueWritten ==
    ASSUME NEW h, HeapOK(h), NEW s \in Slots(h), NEW v \in Val \cup {NoVal}
    PROVE  LET g == WithCell(h, s, [At(h, s) EXCEPT !.val = v])
           IN /\ HeapOK(g) /\ Slots(g) = Slots(h)
              /\ \A a \in Seq(Byte) : \A c : Chain(h, a, c) =>
                    /\ Chain(g, a, c)
                    /\ NodeIn(h, Stop(c, Len(a))) # NoNode => NodeIn(g, Stop(c, Len(a))) # NoNode
<1> DEFINE d == [At(h, s) EXCEPT !.val = v]
           g == WithCell(h, s, d)
<1>1. d \in CellType(h) /\ d.rec = NodeIn(h, s)
  BY ValueCell
<1> HIDE DEF d
<1>2. Named(h, s)
  BY HeapFacts
<1>3. HeapOK(g) /\ Slots(g) = Slots(h) \cup {s}
  BY <1>1, <1>2, WithCellFacts
<1>4. ASSUME NEW a \in Seq(Byte), NEW c, Chain(h, a, c)
      PROVE  /\ Chain(g, a, c)
             /\ NodeIn(h, Stop(c, Len(a))) # NoNode => NodeIn(g, Stop(c, Len(a))) # NoNode
  <2>1. Chain(g, a, c) /\ \A t \in Slots(h) : NodeIn(g, t) = NodeIn(h, t)
    BY <1>1, <1>4, ChainKeepsNode
  <2>2. Len(a) \in 0..Len(a)
    OBVIOUS
  <2>3. Stop(c, Len(a)) \in Slots(h)
    BY <1>4, <2>2 DEF Chain
  <2> QED BY <2>1, <2>3
<1> QED BY <1>3, <1>4 DEF d

\* set_val, and remove_val at the writer's root.
LEMMA SetStep ==
    ASSUME Good, head' = head, NEW i \in Zipper, NEW r \in Seq(Byte), NEW v \in Val, Set(i, r, v)
    PROVE  Good'
<1> DEFINE w == Walk(heap, zip[i].slot, r)
           h == HeapOf(w)
           s == SlotOf(w)
           g == WithCell(h, s, [At(h, s) EXCEPT !.val = v])
<1>1. CanWrite(i) /\ Settle(g, zip) /\ UNCHANGED <<focus, panicked>>
  BY DEF Set, WriterStep, HeapOf, SlotOf
<1>2. HeapOK(h) /\ s \in Slots(h) /\ Slots(heap) \subseteq Slots(h)
  BY <1>1, WriterWalk
<1>3. ASSUME NEW j \in Zipper, Writing(zip[j])
      PROVE  \E c : /\ Chain(h, zip[j].abs, c)
                    /\ NodeIn(h, Stop(c, Len(zip[j].abs))) # NoNode
                    /\ zip[j].stage = "open" => zip[j].slot = Stop(c, Len(zip[j].abs))
                    /\ Placed(c, zip[j].abs, zip[i].abs \o r, s)
  BY <1>1, <1>3, WriterWalk
<1> HIDE DEF w, h, s
<1>4. /\ HeapOK(g) /\ Slots(g) = Slots(h)
      /\ \A a \in Seq(Byte) : \A c : Chain(h, a, c) =>
            /\ Chain(g, a, c)
            /\ NodeIn(h, Stop(c, Len(a))) # NoNode => NodeIn(g, Stop(c, Len(a))) # NoNode
  BY <1>2, ValueWritten
<1> HIDE DEF g
<1>5. ASSUME NEW j \in Zipper, Writing(zip[j])
      PROVE  Rooted(g, zip[j])
  <2>1. zip[j].abs \in Seq(Byte)
    BY <1>5, GoodFacts
  <2> QED BY <1>3, <1>4, <1>5, <2>1 DEF Rooted
<1>6. \A j \in Zipper : Sharing(zip[j]) => <<Roots, j>> \in Slots(g)
  BY <1>2, <1>4 DEF Good, Secure, Shared, Sharing
<1> QED BY <1>1, <1>4, <1>5, <1>6, WriterEnds

\* remove_val at the writer's root.
LEMMA RemoveRootValStep ==
    ASSUME Good, head' = head, NEW i \in Zipper, RemoveRootVal(i)
    PROVE  Good'
<1> DEFINE s == zip[i].slot
           g == WithCell(heap, s, [At(heap, s) EXCEPT !.val = NoVal])
<1>1. CanWrite(i) /\ Settle(g, zip) /\ UNCHANGED <<focus, panicked>>
  BY DEF RemoveRootVal, WriterStep, CellOf
<1>2. HeapOK(heap) /\ s \in Slots(heap)
  BY <1>1, GoodFacts DEF CanWrite, Attached
<1> HIDE DEF s
<1>4. /\ HeapOK(g) /\ Slots(g) = Slots(heap)
      /\ \A a \in Seq(Byte) : \A c : Chain(heap, a, c) =>
            /\ Chain(g, a, c)
            /\ NodeIn(heap, Stop(c, Len(a))) # NoNode => NodeIn(g, Stop(c, Len(a))) # NoNode
  BY <1>2, ValueWritten
<1> HIDE DEF g
<1>5. ASSUME NEW j \in Zipper, Writing(zip[j])
      PROVE  Rooted(g, zip[j])
  <2>1. zip[j].abs \in Seq(Byte) /\ zip[j] # NoZipper
    BY <1>5, GoodFacts
  <2>2. Rooted(heap, zip[j])
    BY <1>5, <2>1 DEF Good, Secure
  <2> QED BY <1>4, <2>1, <2>2 DEF Rooted
<1>6. \A j \in Zipper : Sharing(zip[j]) => <<Roots, j>> \in Slots(g)
  BY <1>4 DEF Good, Secure, Shared, Sharing
<1> QED BY <1>1, <1>4, <1>5, <1>6, WriterEnds

\* A cell is taken out off every writer's chain, and readers keep theirs.
LEMMA CutEnds ==
    ASSUME NEW h, HeapOK(h), NEW s \in Slots(h), s # HeadSlot, NEW x, x.abs \in Seq(Byte),
           NEW c, Chain(h, x.abs, c), NodeIn(h, Stop(c, Len(x.abs))) # NoNode,
           x.stage = "open" => x.slot = Stop(c, Len(x.abs)), OffChain(c, Len(x.abs), s)
    PROVE  Rooted(WithoutCell(h, s), x)
<1> DEFINE a == x.abs
           g == WithoutCell(h, s)
<1> HIDE DEF a
<1>1. Chain(g, a, c) /\ \A t \in Slots(h) : t # s => NodeIn(g, t) = NodeIn(h, t)
  BY ChainCut DEF a
<1>2. Len(a) \in 0..Len(a)
  BY DEF a
<1>3. Stop(c, Len(a)) \in Slots(h) /\ Stop(c, Len(a)) # s
  BY <1>2 DEF Chain, OffChain, a
<1>4. NodeIn(g, Stop(c, Len(a))) # NoNode
  BY <1>1, <1>3 DEF a
<1> QED BY <1>1, <1>4 DEF Rooted, a

\* remove_val(true) one byte below the root.
LEMMA RemoveValBelowStep ==
    ASSUME Good, head' = head, NEW i \in Zipper, NEW b \in Byte, RemoveValBelow(i, b)
    PROVE  Good'
<1> DEFINE r == <<b>>
           w == Walk(heap, zip[i].slot, r)
           h == HeapOf(w)
           s == SlotOf(w)
           c == [At(h, s) EXCEPT !.val = NoVal]
           g == IF IsEmpty(h, c.rec) THEN WithoutCell(h, s) ELSE WithCell(h, s, c)
<1>1. CanWrite(i) /\ Settle(g, zip) /\ UNCHANGED <<focus, panicked>>
  BY DEF RemoveValBelow, WriterStep, HeapOf, SlotOf
<1>2. r \in Seq(Byte) /\ Len(r) > 0
  OBVIOUS
<1> HIDE DEF r
<1>3. HeapOK(h) /\ s \in Slots(h) /\ Slots(heap) \subseteq Slots(h) /\ s[1] # Roots
  BY <1>1, <1>2, WriterWalk
<1>4. ASSUME NEW j \in Zipper, Writing(zip[j])
      PROVE  \E e : /\ Chain(h, zip[j].abs, e)
                    /\ NodeIn(h, Stop(e, Len(zip[j].abs))) # NoNode
                    /\ zip[j].stage = "open" => zip[j].slot = Stop(e, Len(zip[j].abs))
                    /\ Placed(e, zip[j].abs, zip[i].abs \o r, s)
  BY <1>1, <1>2, <1>4, WriterWalk
<1>5. Writing(zip[i]) /\ zip[i] # NoZipper /\ zip[i].stage = "open"
  BY <1>1 DEF CanWrite, Writers, Open, Is, Writing
<1> HIDE DEF w, h, s
<1>6. CASE ~IsEmpty(h, c.rec)
  <2>1. g = WithCell(h, s, [At(h, s) EXCEPT !.val = NoVal]) /\ NoVal \in Val \cup {NoVal}
    BY <1>6
  <2> HIDE DEF g, c
  <2>2. /\ HeapOK(g) /\ Slots(g) = Slots(h)
        /\ \A a \in Seq(Byte) : \A e : Chain(h, a, e) =>
              /\ Chain(g, a, e)
              /\ NodeIn(h, Stop(e, Len(a))) # NoNode => NodeIn(g, Stop(e, Len(a))) # NoNode
    BY <1>3, <2>1, ValueWritten
  <2> HIDE DEF g
  <2>3. ASSUME NEW j \in Zipper, Writing(zip[j])
        PROVE  Rooted(g, zip[j])
    <3>1. zip[j].abs \in Seq(Byte)
      BY <2>3, GoodFacts
    <3> QED BY <1>4, <2>2, <2>3, <3>1 DEF Rooted
  <2>4. \A j \in Zipper : Sharing(zip[j]) => <<Roots, j>> \in Slots(g)
    BY <1>3, <2>2 DEF Good, Secure, Shared, Sharing
  <2> QED BY <1>1, <2>2, <2>3, <2>4, WriterEnds
<1>7. CASE IsEmpty(h, c.rec)
  <2>1. g = WithoutCell(h, s)
    BY <1>7
  <2>2. s # HeadSlot
    BY <1>3, HeapFacts
  <2>3. HeapOK(g) /\ Slots(g) = Slots(h) \ {s}
    BY <1>3, <2>1, <2>2, WithoutCellFacts
  <2> HIDE DEF g
  <2>4. ASSUME NEW j \in Zipper, Writing(zip[j])
        PROVE  Rooted(g, zip[j])
    <3> DEFINE a == zip[j].abs
               p == zip[i].abs
    <3>1. a \in Seq(Byte) /\ p \in Seq(Byte)
      BY <1>5, <2>4, GoodFacts
    <3>2. PICK e : /\ Chain(h, a, e)
                   /\ NodeIn(h, Stop(e, Len(a))) # NoNode
                   /\ zip[j].stage = "open" => zip[j].slot = Stop(e, Len(a))
                   /\ Placed(e, a, p \o r, s)
      BY <1>4, <2>4
    <3>3. ~Begins(p \o r, a)
      <4>1. CASE i = j
        <5>1. a = p
          BY <4>1
        <5> HIDE DEF a, p
        <5> QED BY <1>2, <3>1, <5>1, BeginsLonger
      <4>2. CASE i # j
        <5>1. Holds(zip[i])
          BY <1>5 DEF Holds
        <5>2. p = head.base \o zip[i].path
          BY <1>5 DEF Good, Granted, Lawful
        <5>3. ~Begins(p, a)
          BY <2>4, <4>2, <5>1, <5>2, Apart DEF Good
        <5> HIDE DEF a, p
        <5>4. Begins(p \o r, a) => Begins(p, a)
          BY <1>2, <3>1, BeginsLess
        <5> QED BY <5>3, <5>4
      <4> QED BY <4>1, <4>2
    <3>4. OffChain(e, Len(a), s)
      BY <3>2, <3>3 DEF Placed
    <3> QED BY <1>3, <2>1, <2>2, <3>1, <3>2, <3>4, CutEnds
  <2>5. \A j \in Zipper : Sharing(zip[j]) => <<Roots, j>> \in Slots(g)
    <3>1. \A j : <<Roots, j>> # s
      BY <1>3
    <3>2. \A j \in Zipper : Sharing(zip[j]) => <<Roots, j>> \in Slots(h)
      BY <1>3 DEF Good, Secure, Shared, Sharing
    <3> QED BY <2>3, <3>1, <3>2
  <2> QED BY <1>1, <2>3, <2>4, <2>5, WriterEnds
<1> QED BY <1>6, <1>7

\* Heap h has everything that zippers hold in the heap.
Kept(h) == /\ HeapOK(h) /\ Slots(heap) \subseteq Slots(h)
           /\ \A j \in Zipper : Writing(zip[j]) => Rooted(h, zip[j])

\* The heap itself is kept, and readers and maps have their cells in what is.
LEMMA KeptFacts ==
    ASSUME Good
    PROVE  /\ Kept(heap)
           /\ \A h : Kept(h) => \A j \in Zipper : Sharing(zip[j]) => <<Roots, j>> \in Slots(h)
<1>1. \A j \in Zipper : Writing(zip[j]) => Rooted(heap, zip[j])
  BY GoodFacts DEF Good, Secure
<1>2. Kept(heap)
  BY <1>1, GoodFacts DEF Kept
<1>3. \A h : Kept(h) => \A j \in Zipper : Sharing(zip[j]) => <<Roots, j>> \in Slots(h)
  BY DEF Kept, Good, Secure, Shared, Sharing
<1> QED BY <1>2, <1>3

\* So is a heap after a value is written.
LEMMA KeptValue ==
    ASSUME Good, NEW h, Kept(h), NEW s \in Slots(h), NEW v \in Val \cup {NoVal}
    PROVE  Kept(WithCell(h, s, [At(h, s) EXCEPT !.val = v]))
<1> DEFINE g == WithCell(h, s, [At(h, s) EXCEPT !.val = v])
<1>1. /\ HeapOK(g) /\ Slots(g) = Slots(h)
      /\ \A a \in Seq(Byte) : \A c : Chain(h, a, c) =>
            /\ Chain(g, a, c)
            /\ NodeIn(h, Stop(c, Len(a))) # NoNode => NodeIn(g, Stop(c, Len(a))) # NoNode
  BY ValueWritten DEF Kept
<1> HIDE DEF g
<1>2. ASSUME NEW j \in Zipper, Writing(zip[j])
      PROVE  Rooted(g, zip[j])
  <2>1. zip[j].abs \in Seq(Byte)
    BY <1>2, GoodFacts
  <2> QED BY <1>1, <1>2, <2>1 DEF Rooted, Kept
<1>3. Kept(g)
  BY <1>1, <1>2 DEF Kept
<1> QED BY <1>3 DEF g

\* A cell d is written into slot s, which is off every chain or at the end of one, and
\* leads to where some slot t of that kind led.
LEMMA KeptWrite ==
    ASSUME Good, NEW s, Named(heap, s), NEW d \in CellType(heap),
           NEW t \in Slots(heap), d.rec = NoNode \/ d.rec = NodeIn(heap, t),
           \A j \in Zipper : \A c : Writing(zip[j]) /\ Chain(heap, zip[j].abs, c) =>
              /\ OffChain(c, Len(zip[j].abs) - 1, s)
              /\ OffChain(c, Len(zip[j].abs) - 1, t)
              /\ s = Stop(c, Len(zip[j].abs)) => d.rec # NoNode
    PROVE  Kept(WithCell(heap, s, d))
<1> DEFINE g == WithCell(heap, s, d)
<1>1. HeapOK(heap)
  BY GoodFacts
<1>2. /\ HeapOK(g) /\ Slots(g) = Slots(heap) \cup {s} /\ At(g, s) = d
      /\ \A u \in Slots(heap) : u # s => At(g, u) = At(heap, u)
  BY <1>1, WithCellFacts
<1>3. ASSUME NEW j \in Zipper, Writing(zip[j])
      PROVE  Rooted(g, zip[j])
  <2> DEFINE a == zip[j].abs
  <2>1. a \in Seq(Byte) /\ zip[j] # NoZipper
    BY <1>3, GoodFacts
  <2>2. PICK c : /\ Chain(heap, a, c)
                 /\ NodeIn(heap, Stop(c, Len(a))) # NoNode
                 /\ zip[j].stage = "open" => zip[j].slot = Stop(c, Len(a))
    BY <1>3, <2>1 DEF Good, Secure, Rooted
  <2>3. /\ OffChain(c, Len(a) - 1, s) /\ OffChain(c, Len(a) - 1, t)
        /\ s = Stop(c, Len(a)) => d.rec # NoNode
    BY <1>3, <2>2
  <2> HIDE DEF a
  <2>4. \A k \in 0..(Len(a) - 1) : NodeIn(heap, t) # NodeIn(heap, Stop(c, k))
    BY <2>2, <2>3, NodeOff
  <2>5. Chain(g, a, c)
    BY <1>1, <2>1, <2>2, <2>3, <2>4, ChainWrites
  <2>6. NodeIn(g, Stop(c, Len(a))) # NoNode
    <3>1. Len(a) \in 0..Len(a)
      BY <2>1
    <3>2. Stop(c, Len(a)) \in Slots(heap)
      BY <2>2, <3>1 DEF Chain
    <3> HIDE DEF g
    <3> QED BY <1>2, <2>2, <2>3, <3>2 DEF NodeIn
  <2> QED BY <2>2, <2>5, <2>6 DEF Rooted, a
<1> HIDE DEF g
<1>4. Kept(g)
  BY <1>2, <1>3 DEF Kept
<1> QED BY <1>4 DEF g

\* An empty node put into a slot brings no slot of its own, and only that slot
\* changes.
LEMMA EmptyPut ==
    ASSUME NEW h, HeapOK(h), NEW s \in Slots(h)
    PROVE  LET g == Allocate(h, s, EmptyNode)
               m == NodeIn(g, s)
           IN /\ HeapOK(g)
              /\ m \notin DOMAIN h /\ m # NoNode
              /\ \A t : t \in Slots(g) <=> t \in Slots(h)
              /\ \A t \in Slots(h) : t # s => At(g, t) = At(h, t)
<1>1. ASSUME NEW node, DOMAIN node = {}
      PROVE  LET g == Allocate(h, s, node)
                 m == NodeIn(g, s)
             IN /\ HeapOK(g)
                /\ m \notin DOMAIN h /\ m # NoNode
                /\ \A t : t \in Slots(g) <=> t \in Slots(h)
                /\ \A t \in Slots(h) : t # s => At(g, t) = At(h, t)
  <2> DEFINE g == Allocate(h, s, node)
             m == NodeIn(g, s)
  <2>1. DOMAIN node \subseteq Byte /\ \A b \in DOMAIN node : node[b] \in CellType(h)
    BY <1>1
  <2>2. /\ HeapOK(g)
        /\ m \notin DOMAIN h /\ m # NoNode
        /\ DOMAIN g = DOMAIN h \cup {m}
        /\ Slots(h) \subseteq Slots(g)
        /\ \A t \in Slots(g) : t \notin Slots(h) => t[1] = m
        /\ At(g, s).val = At(h, s).val
        /\ \A t \in Slots(h) : t # s => At(g, t) = At(h, t)
        /\ \A b : <<m, b>> \in Slots(g) <=> b \in DOMAIN node
        /\ \A b \in DOMAIN node : At(g, <<m, b>>) = CellIn(node, b)
    BY <2>1, AllocateFacts
  <2> HIDE DEF g
  <2>3. ASSUME NEW t \in Slots(g)
        PROVE  t \in Slots(h)
    <3>1. t = <<t[1], t[2]>>
      BY SlotsDef
    <3> QED BY <1>1, <2>2, <3>1
  <2>4. \A t : t \in Slots(g) <=> t \in Slots(h)
    BY <2>2, <2>3
  <2> QED BY <2>2, <2>4 DEF g
<1>2. DOMAIN EmptyNode = {}
  BY DEF EmptyNode
<1> QED BY <1>1, <1>2

\* An empty node is put into such a slot.
LEMMA KeptEmpty ==
    ASSUME Good, NEW s \in Slots(heap),
           \A j \in Zipper : \A c : Writing(zip[j]) /\ Chain(heap, zip[j].abs, c) =>
              OffChain(c, Len(zip[j].abs) - 1, s)
    PROVE  Kept(Allocate(heap, s, EmptyNode))
<1> DEFINE g == Allocate(heap, s, EmptyNode)
           m == NodeIn(g, s)
<1>1. HeapOK(heap)
  BY GoodFacts
<1>2. \A h : \A t \in Slots(h) : HeapOK(h) =>
         LET f == Allocate(h, t, EmptyNode)
         IN  /\ HeapOK(f)
             /\ NodeIn(f, t) \notin DOMAIN h /\ NodeIn(f, t) # NoNode
             /\ \A u : u \in Slots(f) <=> u \in Slots(h)
             /\ \A u \in Slots(h) : u # t => At(f, u) = At(h, u)
  BY EmptyPut
<1>3. /\ HeapOK(g)
      /\ m \notin DOMAIN heap /\ m # NoNode
      /\ \A t : t \in Slots(g) <=> t \in Slots(heap)
      /\ \A t \in Slots(heap) : t # s => At(g, t) = At(heap, t)
  BY <1>1, <1>2, Zenon
<1> HIDE DEF g
<1>4. ASSUME NEW t \in Slots(g)
      PROVE  t \in Slots(heap)
  BY <1>3
<1>5. ASSUME NEW j \in Zipper, Writing(zip[j])
      PROVE  Rooted(g, zip[j])
  <2> DEFINE a == zip[j].abs
  <2>1. a \in Seq(Byte) /\ zip[j] # NoZipper /\ Len(a) \in Nat
    BY <1>5, GoodFacts
  <2>2. PICK c : /\ Chain(heap, a, c)
                 /\ NodeIn(heap, Stop(c, Len(a))) # NoNode
                 /\ zip[j].stage = "open" => zip[j].slot = Stop(c, Len(a))
    BY <1>5, <2>1 DEF Good, Secure, Rooted
  <2>3. OffChain(c, Len(a) - 1, s)
    BY <1>5, <2>2
  <2> HIDE DEF a
  <2>4. \A k \in 0..Len(a) : Stop(c, k) \in Slots(g) /\ Stop(c, k) \in Slots(heap)
    BY <1>3, <2>2 DEF Chain
  <2>5. ASSUME NEW k \in 0..(Len(a) - 1)
        PROVE  /\ NodeIn(g, Stop(c, k)) # NoNode
               /\ Stop(c, k + 1) = <<NodeIn(g, Stop(c, k)), a[k + 1]>>
               /\ Sole(g, Stop(c, k))
    <3> DEFINE n == NodeIn(heap, Stop(c, k))
    <3>1. k \in 0..Len(a)
      BY <2>1
    <3>2. n # NoNode /\ Stop(c, k + 1) = <<n, a[k + 1]>> /\ Sole(heap, Stop(c, k))
      BY <2>2 DEF Chain
    <3>3. NodeIn(g, Stop(c, k)) = n
      BY <1>3, <2>3, <2>4, <3>1 DEF OffChain, NodeIn
    <3>4. n \in DOMAIN heap
      BY <1>1, <2>4, <3>1, <3>2, HeapFacts
    <3> HIDE DEF n
    <3>5. ASSUME NEW t \in Slots(g), NodeIn(g, t) = n
          PROVE  t = Stop(c, k)
      <4>1. t # s /\ t \in Slots(heap)
        BY <1>3, <1>4, <3>4, <3>5
      <4>2. NodeIn(heap, t) = n
        BY <1>3, <3>5, <4>1 DEF NodeIn
      <4> QED BY <3>2, <4>1, <4>2 DEF Sole, n
    <3> QED BY <3>2, <3>3, <3>5 DEF Sole
  <2>6. Stop(c, 0) = HeadSlot
    BY <2>2 DEF Chain
  <2>7. Chain(g, a, c)
    BY <2>4, <2>5, <2>6 DEF Chain
  <2>8. NodeIn(g, Stop(c, Len(a))) # NoNode
    <3>1. Stop(c, Len(a)) \in Slots(heap)
      BY <2>1, <2>4
    <3> QED BY <1>3, <2>2, <3>1 DEF NodeIn
  <2> QED BY <2>2, <2>7, <2>8 DEF Rooted, a
<1>6. Kept(g)
  BY <1>3, <1>5 DEF Kept
<1> QED BY <1>6 DEF g
\* A writer's root is grafted over with what another zipper or a map holds.
LEMMA GraftStep ==
    ASSUME Good, head' = head, NEW i \in Zipper, NEW j \in Zipper, Graft(i, j)
    PROVE  Good'
<1> DEFINE s == zip[i].slot
           t == zip[j].slot
           src == At(heap, t)
           own == At(heap, s)
           h == CASE ~IsEmpty(heap, src.rec) -> WithCell(heap, s, [own EXCEPT !.rec = src.rec])
                  [] IsEmpty(heap, src.rec) /\ ~IsEmpty(heap, own.rec) -> Allocate(heap, s, EmptyNode)
                  [] OTHER -> heap
           g == WithCell(h, s, [At(h, s) EXCEPT !.val = src.val])
<1>1. Settle(g, zip) /\ UNCHANGED <<focus, panicked>>
  BY DEF Graft, WriterStep, CellOf
<1>2. HeapOK(heap) /\ head \in Heads /\ Secure(heap, zip) /\ Granted(head, zip)
  BY GoodFacts DEF Good
<1>3. zip[i] # NoZipper /\ zip[i].stage = "open" /\ Writing(zip[i])
  BY DEF Graft, CanWrite, Writers, Open, Is, Writing
<1>4. zip[j] # NoZipper /\ zip[j].stage \in {"open", "map"}
  BY DEF Graft, Is
<1>5. s \in Slots(heap) /\ t \in Slots(heap)
  BY DEF Graft, CanWrite, Attached
<1> HIDE DEF s, t
<1>6. \A k \in Zipper : \A c : Writing(zip[k]) /\ Chain(heap, zip[k].abs, c) =>
         OffChain(c, Len(zip[k].abs) - 1, s) /\ OffChain(c, Len(zip[k].abs) - 1, t)
  <2> SUFFICES ASSUME NEW k \in Zipper, NEW c, Writing(zip[k]), Chain(heap, zip[k].abs, c)
               PROVE  OffChain(c, Len(zip[k].abs) - 1, s) /\ OffChain(c, Len(zip[k].abs) - 1, t)
    OBVIOUS
  <2>1. OffChain(c, Len(zip[k].abs) - 1, s)
    BY <1>2, <1>3, SlotOff DEF s
  <2>2. OffChain(c, Len(zip[k].abs) - 1, t)
    BY <1>2, <1>4, SlotOff DEF t
  <2> QED BY <2>1, <2>2
<1>7. Kept(h)
  <2>1. CASE ~IsEmpty(heap, src.rec)
    <3> DEFINE d == [own EXCEPT !.rec = src.rec]
    <3>1. own \in CellType(heap) /\ src \in CellType(heap) /\ src.rec = NodeIn(heap, t)
      BY <1>2, <1>5, HeapFacts DEF NodeIn
    <3>2. d \in CellType(heap) /\ d.rec = src.rec
      BY <3>1 DEF CellType
    <3>3. src.rec # NoNode
      BY <2>1 DEF IsEmpty
    <3>4. Named(heap, s)
      BY <1>2, <1>5, HeapFacts
    <3>5. h = WithCell(heap, s, d)
      BY <2>1
    <3> HIDE DEF d, h, own
    <3>6. d.rec = NodeIn(heap, t) /\ d.rec # NoNode
      BY <3>1, <3>2, <3>3
    <3> HIDE DEF src
    <3> QED BY <1>5, <1>6, <3>2, <3>4, <3>5, <3>6, KeptWrite
  <2>2. CASE IsEmpty(heap, src.rec) /\ ~IsEmpty(heap, own.rec)
    <3>1. h = Allocate(heap, s, EmptyNode)
      BY <2>2
    <3> HIDE DEF h
    <3> QED BY <1>5, <1>6, <3>1, KeptEmpty
  <2>3. CASE IsEmpty(heap, src.rec) /\ IsEmpty(heap, own.rec)
    <3>1. h = heap
      BY <2>3
    <3> QED BY <3>1, KeptFacts
  <2> QED BY <2>1, <2>2, <2>3
<1>8. src.val \in Val \cup {NoVal}
  BY <1>2, <1>5, HeapFacts DEF CellType
<1> HIDE DEF h, own
<1>9. Kept(g)
  <2>1. s \in Slots(h)
    BY <1>5, <1>7 DEF Kept
  <2> HIDE DEF src
  <2> DEFINE v == src.val
  <2>2. v \in Val \cup {NoVal}
    BY <1>8 DEF src
  <2> HIDE DEF v
  <2>3. Kept(WithCell(h, s, [At(h, s) EXCEPT !.val = v]))
    BY <1>7, <2>1, <2>2, KeptValue
  <2> QED BY <2>3 DEF v
<1> HIDE DEF g
<1>10. \A k \in Zipper : Sharing(zip[k]) => <<Roots, k>> \in Slots(g)
  BY <1>9, KeptFacts
<1> QED BY <1>1, <1>9, <1>10, WriterEnds DEF Kept

\* A map shares what an open zipper holds.
LEMMA MakeMapStep ==
    ASSUME Good, head' = head, NEW i \in Zipper, NEW j \in Zipper, MakeMap(i, j)
    PROVE  Good'
<1> DEFINE s == <<Roots, j>>
           t == zip[i].slot
           own == At(heap, t)
           d == [own EXCEPT !.rec = IF IsEmpty(heap, @) THEN NoNode ELSE @]
           g == WithCell(heap, s, d)
           x == [mode |-> "read", stage |-> "map", path |-> <<>>, abs |-> <<>>, slot |-> s]
           y == Now(j, x)
<1>1. Settle(g, y) /\ UNCHANGED <<focus, panicked>>
  BY DEF MakeMap, CellOf
<1>2. HeapOK(heap) /\ head \in Heads /\ Secure(heap, zip) /\ Granted(head, zip)
      /\ OfZippers(zip) /\ j # "map"
  BY GoodFacts DEF Good
<1>3. zip[i] # NoZipper /\ zip[i].stage = "open" /\ t \in Slots(heap) /\ zip[j] = NoZipper
  BY DEF MakeMap, Is, Attached
<1> HIDE DEF t
<1>4. own \in CellType(heap) /\ own.rec = NodeIn(heap, t)
  BY <1>2, <1>3, HeapFacts DEF NodeIn
<1> HIDE DEF own
<1>5. d \in CellType(heap) /\ (d.rec = NoNode \/ d.rec = NodeIn(heap, t))
  BY <1>4 DEF CellType
<1> HIDE DEF d
<1>6. Named(heap, s)
  BY <1>2, HeapFacts DEF Named, Owner
<1>7. Kept(g)
  <2> HIDE DEF s
  <2>1. ASSUME NEW k \in Zipper, NEW c, Writing(zip[k]), Chain(heap, zip[k].abs, c)
        PROVE  /\ OffChain(c, Len(zip[k].abs) - 1, s)
               /\ OffChain(c, Len(zip[k].abs) - 1, t)
               /\ s = Stop(c, Len(zip[k].abs)) => d.rec # NoNode
    <3> DEFINE a == zip[k].abs
    <3>1. a \in Seq(Byte) /\ Len(a) \in 0..Len(a)
      BY <2>1, GoodFacts
    <3>2. OffChain(c, Len(a), s)
      BY <1>2, <2>1, <3>1, RootOff DEF s
    <3>3. OffChain(c, Len(a) - 1, s)
      BY <1>2, <2>1, <3>1, <3>2, OffLess
    <3>4. OffChain(c, Len(a) - 1, t)
      BY <1>2, <1>3, <2>1, SlotOff DEF t
    <3>5. s # Stop(c, Len(a))
      BY <3>1, <3>2 DEF OffChain
    <3> QED BY <3>3, <3>4, <3>5
  <2> QED BY <1>3, <1>5, <1>6, <2>1, KeptWrite
<1>8. s \in Slots(g) /\ HeapOK(g)
  BY <1>2, <1>5, <1>6, WithCellFacts
<1> HIDE DEF g
<1>9. /\ x \in ZipperIn(g) /\ x # NoZipper /\ Lawful(head, x) /\ Shared(g, j, x)
      /\ ~Writing(x) /\ ~Holds(x) /\ ~Busy(x)
  <2>1. <<>> \in Path /\ <<>> \in TriePath
    BY PathAssumption, TriePathFacts
  <2>2. x \in ZipperIn(g)
    BY <1>8, <2>1 DEF ZipperIn
  <2>3. x # NoZipper
    BY <1>8, <2>2, ZipperInFacts
  <2> QED BY <1>8, <2>2, <2>3 DEF Lawful, Shared, Writing, Holds, Busy
<1>10. Updates(zip, j, x, y)
  <2> HIDE DEF x
  <2> QED BY <1>2, NowUpdates
<1> HIDE DEF x, y, s
<1>11. \A k \in Zipper : Writing(zip[k]) => Rooted(g, zip[k])
  BY <1>7 DEF Kept
<1>12. \A k \in Zipper : Sharing(zip[k]) => <<Roots, k>> \in Slots(g)
  BY <1>7, KeptFacts
<1>13. Secure(g, y) /\ Granted(head, y)
  BY <1>8, <1>9, <1>10, <1>11, <1>12, StepEnds
<1> QED BY <1>1, <1>13, Settles

\* A reader or a map is dropped, its cell with it.
LEMMA DropShareStep ==
    ASSUME Good, head' = head, NEW i \in Zipper, DropShare(i)
    PROVE  Good'
<1> DEFINE s == <<Roots, i>>
           g == WithoutCell(heap, s)
           y == Now(i, NoZipper)
<1>1. HeapOK(heap) /\ head \in Heads /\ Secure(heap, zip) /\ Granted(head, zip)
      /\ OfZippers(zip) /\ i # "map"
  BY GoodFacts DEF Good
<1>2. Sharing(zip[i])
  BY <1>1 DEF DropShare, Readers, Open, Is, Sharing, Granted, Lawful
<1>3. zip[i].slot = s /\ s \in Slots(heap)
  BY <1>1, <1>2 DEF Secure, Shared, Sharing
<1>4. Settle(g, y) /\ UNCHANGED <<focus, panicked>>
  BY <1>3 DEF DropShare
<1>5. s # HeadSlot
  BY <1>1 DEF HeadSlot
<1>6. HeapOK(g) /\ Slots(g) = Slots(heap) \ {s}
  BY <1>1, <1>3, <1>5, WithoutCellFacts
<1>7. ASSUME NEW j \in Zipper, Writing(zip[j])
      PROVE  Rooted(g, zip[j])
  <2> DEFINE a == zip[j].abs
  <2>1. a \in Seq(Byte)
    BY <1>7, GoodFacts
  <2>2. PICK e : /\ Chain(heap, a, e)
                 /\ NodeIn(heap, Stop(e, Len(a))) # NoNode
                 /\ zip[j].stage = "open" => zip[j].slot = Stop(e, Len(a))
    BY <1>7 DEF Good, Secure, Rooted, Writing
  <2>3. OffChain(e, Len(a), s)
    BY <1>1, <2>1, <2>2, RootOff
  <2> HIDE DEF s
  <2> QED BY <1>1, <1>3, <1>5, <2>1, <2>2, <2>3, CutEnds
<1>8. \A j \in Zipper : j # i /\ Sharing(zip[j]) => <<Roots, j>> \in Slots(g)
  BY <1>1, <1>6 DEF Secure, Shared, Sharing
<1>9. Updates(zip, i, NoZipper, y)
  BY <1>1, NowUpdates
<1> HIDE DEF g, y, s
<1>10. Secure(g, y) /\ Granted(head, y)
  <2> DEFINE x == NoZipper
  <2>1. x = NoZipper /\ Updates(zip, i, x, y)
    BY <1>9
  <2> HIDE DEF x
  <2> QED BY <1>6, <1>7, <1>8, <2>1, StepEnds
<1> QED BY <1>4, <1>10, Settles

\* One zipper takes its turn: nobody else is busy with the head if that matters, and what it
\* claims is in nobody's way.
LEMMA GrantedTurn ==
    ASSUME NEW d, NEW z, Granted(d, z), NEW i \in Zipper, NEW x, NEW y, Updates(z, i, x, y),
           Lawful(d, x),
           ~d.threaded => \A j \in Zipper : j # i => ~Busy(z[j]),
           \A j \in Zipper : j # i /\ Holds(z[j]) /\ Comparable(x.path, z[j].path) =>
              z[j].mode = "read" /\ x.mode = "read"
    PROVE  Granted(d, y)
<1>1. y[i] = x /\ \A j \in Zipper : j # i => y[j] = z[j]
  BY DEF Updates
<1>2. \A j \in Zipper : y[j] # NoZipper => Lawful(d, y[j])
  BY <1>1 DEF Granted
<1>3. ASSUME ~d.threaded, NEW j \in Zipper, NEW k \in Zipper, Busy(y[j]), Busy(y[k])
      PROVE  j = k
  BY <1>1, <1>3 DEF Granted
<1>4. ASSUME NEW j \in Zipper, NEW k \in Zipper, j # k, Holds(y[j]), Holds(y[k]),
             Comparable(y[j].path, y[k].path)
      PROVE  y[j].mode = "read" /\ y[k].mode = "read"
  <2>1. CASE j # i /\ k # i
    BY <1>1, <1>4, <2>1 DEF Granted
  <2>2. CASE j = i
    BY <1>1, <1>4, <2>2
  <2>3. CASE k = i
    <3>1. Comparable(x.path, z[j].path)
      BY <1>1, <1>4, <2>3 DEF Comparable
    <3> QED BY <1>1, <1>4, <2>3, <3>1
  <2> QED BY <2>1, <2>2, <2>3
<1> QED BY <1>2, <1>3, <1>4 DEF Granted

\* The end of a step that leaves the heap alone.
LEMMA StepKeepsHeap ==
    ASSUME Good, head' = head, NEW y, Secure(heap, y), Granted(head, y), zip' = y,
           UNCHANGED <<heap, focus, panicked>>
    PROVE  Good'
BY DEF Good

\* A writer is dropped.
LEMMA DropWriterStep ==
    ASSUME Good, head' = head, NEW i \in Zipper, DropWriter(i)
    PROVE  Good'
<1> DEFINE x == NoZipper
           y == Now(i, x)
<1>1. zip' = y /\ UNCHANGED <<heap, focus, panicked>>
  BY DEF DropWriter
<1>2. HeapOK(heap) /\ OfZippers(zip)
  BY GoodFacts
<1> HIDE DEF x
<1>3. Updates(zip, i, x, y)
  BY <1>2, NowUpdates
<1> HIDE DEF y
<1>4. Kept(heap) /\ \A j \in Zipper : Sharing(zip[j]) => <<Roots, j>> \in Slots(heap)
  BY KeptFacts
<1>5. x = NoZipper
  BY DEF x
<1> DEFINE h == heap
<1>6. HeapOK(h) /\ (\A j \in Zipper : Writing(zip[j]) => Rooted(h, zip[j]))
      /\ \A j \in Zipper : Sharing(zip[j]) => <<Roots, j>> \in Slots(h)
  BY <1>2, <1>4 DEF Kept
<1> HIDE DEF h
<1>7. Secure(h, y) /\ Granted(head, y)
  BY <1>3, <1>5, <1>6, StepEnds
<1> QED BY <1>1, <1>7, StepKeepsHeap DEF h

\* A writer is on its way to being cleaned up; its lock is released.
LEMMA LeaveStep ==
    ASSUME Good, head' = head, NEW i \in Zipper, Leave(i)
    PROVE  Good'
<1> DEFINE u == zip[i]
           x == [u EXCEPT !.stage = "leaving", !.slot = NoSlot]
           y == Now(i, x)
<1>1. zip' = y /\ UNCHANGED <<heap, focus, panicked>>
  BY DEF Leave
<1>2. HeapOK(heap) /\ OfZippers(zip)
  BY GoodFacts
<1>3. u # NoZipper /\ u.stage = "open" /\ u.mode = "write" /\ HeadFree /\ "cleanup" \in head.ends
  BY DEF Leave, Writers, Open, Is
<1>4. u \in ZipperIn(heap) /\ Lawful(head, u) /\ Rooted(heap, u)
  BY <1>3 DEF Good, Secure, Granted, Writing
<1>5. Holds(u)
  BY <1>3 DEF Holds
<1>6. ~head.threaded => \A j \in Zipper : j # i => ~Busy(zip[j])
  BY <1>3 DEF HeadFree, Is, Busy
<1>7. \A j \in Zipper : j # i /\ Holds(zip[j]) /\ Comparable(u.path, zip[j].path) =>
         zip[j].mode = "read" /\ u.mode = "read"
  BY <1>5 DEF Good, Granted
<1> HIDE DEF u
<1>8. /\ x \in ZipperIn(heap)
      /\ x.mode = u.mode /\ x.stage = "leaving" /\ x.path = u.path /\ x.abs = u.abs
      /\ x.slot = NoSlot
  BY <1>4 DEF ZipperIn
<1> HIDE DEF x
<1>9. Updates(zip, i, x, y)
  BY <1>2, NowUpdates
<1> HIDE DEF y
<1>10. Lawful(head, x)
  BY <1>3, <1>4, <1>8 DEF Lawful
<1>11. Rooted(heap, x)
  BY <1>4, <1>8 DEF Rooted
<1>12. ~Sharing(x)
  BY <1>8 DEF Sharing
<1>13. Granted(head, y)
  <2>1. Granted(head, zip)
    BY DEF Good
  <2>2. \A j \in Zipper : j # i /\ Holds(zip[j]) /\ Comparable(x.path, zip[j].path) =>
           zip[j].mode = "read" /\ x.mode = "read"
    BY <1>7, <1>8
  <2> QED BY <1>6, <1>9, <1>10, <2>1, <2>2, GrantedTurn
<1>14. Secure(heap, y)
  <2>1. Secure(heap, zip) /\ Granted(head, zip)
    BY DEF Good
  <2>2. OfZippers(y) /\ y[i] = x /\ \A j \in Zipper : j # i => y[j] = zip[j]
    BY <1>9 DEF Updates
  <2> DEFINE h == heap
  <2>3. (\A j \in Zipper : Writing(zip[j]) => Rooted(h, zip[j]))
        /\ \A j \in Zipper : Sharing(zip[j]) => <<Roots, j>> \in Slots(h)
    BY KeptFacts DEF Kept
  <2>4. x \in ZipperIn(h) /\ Rooted(h, x) /\ HeapOK(h) /\ Secure(h, zip)
    BY <1>2, <1>8, <1>11, <2>1
  <2> HIDE DEF h
  <2>5. Secure(h, y)
    BY <1>12, <2>1, <2>2, <2>3, <2>4, SecureStep
  <2> QED BY <2>5 DEF h
<1> QED BY <1>1, <1>13, <1>14, StepKeepsHeap

\* A zipper is asked for, and granted its path.
LEMMA RequestStep ==
    ASSUME Good, head' = head, NEW i \in Zipper, NEW p \in head.paths, NEW mode \in L!Mode,
           Request(i, p, mode)
    PROVE  Good'
<1> DEFINE x == [mode |-> mode, stage |-> "asking", path |-> p, abs |-> <<>>, slot |-> NoSlot]
           y == Now(i, x)
           lock == [path |-> p, mode |-> mode]
<1>1. zip' = y /\ UNCHANGED <<heap, focus, panicked>> /\ HeadFree /\ ~L!Blocked(lock)
  BY DEF Request
<1>2. HeapOK(heap) /\ OfZippers(zip) /\ head \in Heads
  BY GoodFacts
<1>3. p \in Path /\ head.base \o p \in TriePath /\ mode \in {"read", "write"}
  <2>1. head \in HeadType
    BY <1>2, HeadAssumption
  <2>2. head.paths \subseteq Path /\ head.within \subseteq TriePath
    BY <2>1 DEF HeadType
  <2>3. head.base \o p \in head.within
    BY <1>2, HeadAssumption
  <2> QED BY <2>2, <2>3 DEF L!Mode
<1>4. ~head.threaded => \A j \in Zipper : ~Busy(zip[j])
  BY <1>1 DEF HeadFree, Is, Busy
<1>5. ASSUME NEW j \in Zipper, Holds(zip[j]), Comparable(p, zip[j].path)
      PROVE  zip[j].mode = "read" /\ mode = "read"
  <2> DEFINE u == zip[j]
  <2>1. u # NoZipper /\ u.stage # "map" /\ u \in ZipperIn(heap) /\ Lawful(head, u)
    BY <1>5 DEF Holds, Good, Secure, Granted
  <2>2. u.stage # "leaving"
    BY <1>4, <2>1 DEF Lawful, Good, Disciplined, Busy
  <2>3. /\ u.mode \in {"read", "write"} /\ u.stage \in {"asking", "open"}
        /\ u.path \in Path
    BY <1>2, <2>1, <2>2, ZipperInFacts
  <2>4. HeldLocks[j] = [path |-> u.path, mode |-> u.mode]
    BY <2>1, <2>3 DEF HeldLocks, Is
  <2> HIDE DEF u
  <2>5. HeldLocks[j] # NoZipper
    BY <2>3, <2>4, HeadAssumption
  <2>6. ~L!Clash(lock, HeldLocks[j])
    BY <1>1, <2>5 DEF L!Blocked, L!Held
  <2>7. Comparable(p, u.path)
    BY <1>5 DEF u
  <2>8. ~("write" \in {mode, u.mode})
    BY <2>4, <2>6, <2>7 DEF L!Clash, L!Comparable, L!IsPrefix, Comparable, IsPrefix
  <2> QED BY <1>3, <2>3, <2>8 DEF u
<1>6. /\ x \in ZipperIn(heap) /\ Lawful(head, x) /\ ~Writing(x) /\ ~Sharing(x)
      /\ x.path = p /\ x.mode = mode
  <2>1. <<>> \in TriePath
    BY TriePathFacts
  <2>2. x \in ZipperIn(heap)
    BY <1>3, <2>1 DEF ZipperIn
  <2> QED BY <1>3, <2>2 DEF Lawful, Writing, Sharing
<1> HIDE DEF x
<1>7. Updates(zip, i, x, y)
  BY <1>2, NowUpdates
<1> HIDE DEF y
<1>8. Granted(head, y)
  <2>1. Granted(head, zip)
    BY DEF Good
  <2> QED BY <1>4, <1>5, <1>6, <1>7, <2>1, GrantedTurn
<1>9. Secure(heap, y)
  <2>1. Secure(heap, zip) /\ Granted(head, zip)
    BY DEF Good
  <2>2. OfZippers(y) /\ y[i] = x /\ \A j \in Zipper : j # i => y[j] = zip[j]
    BY <1>7 DEF Updates
  <2> DEFINE h == heap
  <2>3. (\A j \in Zipper : Writing(zip[j]) => Rooted(h, zip[j]))
        /\ \A j \in Zipper : Sharing(zip[j]) => <<Roots, j>> \in Slots(h)
    BY KeptFacts DEF Kept
  <2>4. x \in ZipperIn(h) /\ HeapOK(h) /\ Secure(h, zip)
    BY <1>2, <1>6, <2>1
  <2> HIDE DEF h
  <2>5. Secure(h, y)
    BY <1>6, <2>1, <2>2, <2>3, <2>4, SecureStep
  <2> QED BY <2>5 DEF h
<1> QED BY <1>1, <1>8, <1>9, StepKeepsHeap

\* The largest of some numbers up to n.
LEMMA MaxFacts ==
    ASSUME NEW n \in Nat, NEW S \in SUBSET (0..n), 0 \in S
    PROVE  Max(S) \in S /\ \A k \in S : k <= Max(S)
<1> DEFINE D == {n - k : k \in S}
<1>1. D \in SUBSET Nat /\ D # {}
  <2>1. \A k \in S : k \in 0..n
    OBVIOUS
  <2>2. \A k \in S : n - k \in Nat
    BY <2>1
  <2>3. n - 0 \in D
    OBVIOUS
  <2> QED BY <2>2, <2>3
<1>2. PICK d \in D : \A e \in D : d <= e
  BY <1>1, LeastNumber
<1>3. PICK m \in S : d = n - m
  BY <1>2
<1>4. \A k \in S : m >= k
  <2> TAKE k \in S
  <2>1. n - m <= n - k
    BY <1>2, <1>3
  <2> QED BY <2>1
<1>5. \E x \in S : \A y \in S : x >= y
  BY <1>4
<1>6. Max(S) \in S /\ \A y \in S : Max(S) >= y
  BY <1>5 DEF Max
<1> QED BY <1>6

\* Paths none of which begins the other go the same way up to a fork.
LEMMA Fork ==
    ASSUME NEW p \in Seq(Byte), NEW a \in Seq(Byte), ~Begins(p, a), ~Begins(a, p)
    PROVE  \E m \in Nat : /\ m < Len(p) /\ m < Len(a)
                          /\ p[m + 1] # a[m + 1]
                          /\ \A k \in 1..m : p[k] = a[k]
<1> DEFINE D == {k \in Nat : k < Len(p) /\ k < Len(a) /\ p[k + 1] # a[k + 1]}
<1>1. D # {}
  <2>1. CASE Len(p) <= Len(a)
    <3>1. PICK k \in 1..Len(p) : p[k] # a[k]
      BY <2>1 DEF Begins
    <3>2. k - 1 \in D
      BY <2>1, <3>1
    <3> QED BY <3>2
  <2>2. CASE Len(a) <= Len(p)
    <3>1. PICK k \in 1..Len(a) : a[k] # p[k]
      BY <2>2 DEF Begins
    <3>2. k - 1 \in D
      BY <2>2, <3>1
    <3> QED BY <3>2
  <2> QED BY <2>1, <2>2
<1>2. PICK m \in D : \A k \in D : m <= k
  BY <1>1, LeastNumber
<1>3. ASSUME NEW k \in 1..m
      PROVE  p[k] = a[k]
  <2>1. k - 1 \in Nat /\ k - 1 < m
    OBVIOUS
  <2>2. k - 1 \notin D
    BY <1>2, <2>1
  <2> QED BY <2>1, <2>2
<1> QED BY <1>3

\* The beginning of a path, and its beginnings.
LEMMA Beginning ==
    ASSUME NEW p \in Seq(Byte), NEW k \in 0..Len(p)
    PROVE  LET q == SubSeq(p, 1, k)
           IN /\ q \in Seq(Byte) /\ Len(q) = k
              /\ \A n \in 1..k : q[n] = p[n]
              /\ Begins(q, p)
              /\ k = Len(p) => q = p
<1> DEFINE q == SubSeq(p, 1, k)
<1>1. q \in Seq(Byte) /\ Len(q) = k /\ \A n \in 1..k : q[n] = p[n]
  OBVIOUS
<1> HIDE DEF q
<1>2. Begins(q, p)
  BY <1>1 DEF Begins
<1>3. k = Len(p) => q = p
  BY <1>1, <1>2, BeginsFacts
<1> QED BY <1>1, <1>2, <1>3 DEF q

\* A set with two members.
LEMMA TwoMembers ==
    ASSUME NEW S, IsFiniteSet(S), NEW x \in S, NEW y \in S, x # y
    PROVE  Cardinality(S) > 1
<1> DEFINE A == {x}
           B == A \cup {y}
<1>1. IsFiniteSet(A) /\ Cardinality(A) = 1
  BY FS_Singleton
<1>2. y \notin A /\ B \in SUBSET S
  OBVIOUS
<1> HIDE DEF A
<1>3. Cardinality(B) = Cardinality(A) + 1
  BY <1>1, <1>2, FS_AddElement
<1> HIDE DEF B
<1>4. Cardinality(B) <= Cardinality(S) /\ Cardinality(S) \in Nat
  BY <1>2, FS_Subset, FS_CardinalityType
<1> QED BY <1>1, <1>3, <1>4

\* Does the node that slot s leads to have several children?
Branches(h, s) == Cardinality(DOMAIN h[NodeIn(h, s)]) > 1

\* A node that two bytes lead on from branches.
LEMMA TwoChildren ==
    ASSUME NEW h, HeapOK(h), NEW s \in Slots(h), NEW x, NEW y, x # y,
           <<NodeIn(h, s), x>> \in Slots(h), <<NodeIn(h, s), y>> \in Slots(h)
    PROVE  Branches(h, s)
<1> DEFINE n == NodeIn(h, s)
<1>1. n # Roots
  BY HeapFacts
<1>2. <<n, x>> \in Slots(h) /\ <<n, y>> \in Slots(h)
  OBVIOUS
<1> HIDE DEF n
<1>3. n \in DOMAIN h /\ x \in DOMAIN h[n] /\ y \in DOMAIN h[n]
  BY <1>2, SlotsDef
<1>4. DOMAIN h[n] \subseteq Byte
  <2> SUFFICES ASSUME NEW b \in DOMAIN h[n]
               PROVE  b \in Byte
    OBVIOUS
  <2> DEFINE t == <<n, b>>
  <2>1. t \in Slots(h) /\ t[1] = n /\ t[2] = b
    BY <1>3, SlotsDef
  <2> HIDE DEF t
  <2>2. Named(h, t)
    BY <2>1, HeapFacts
  <2> QED BY <1>1, <2>1, <2>2 DEF Named
<1>5. IsFiniteSet(DOMAIN h[n])
  BY <1>4, FS_Subset, HeadAssumption
<1>6. Cardinality(DOMAIN h[n]) > 1
  BY <1>3, <1>5, TwoMembers
<1> QED BY <1>6 DEF Branches, n

\* Where two chains part, the node branches.
LEMMA ForkBranches ==
    ASSUME NEW h, HeapOK(h), NEW p \in Seq(Byte), NEW c, Chain(h, p, c),
           NEW a \in Seq(Byte), NEW e, Chain(h, a, e), NEW m \in Nat, m < Len(p), m < Len(a),
           p[m + 1] # a[m + 1], \A k \in 1..m : p[k] = a[k]
    PROVE  Branches(h, Stop(c, m))
<1> DEFINE q == SubSeq(p, 1, m)
           s == Stop(c, m)
           n == NodeIn(h, s)
<1>1. q \in Seq(Byte) /\ Len(q) = m /\ (\A k \in 1..m : q[k] = p[k]) /\ Begins(q, p)
  BY Beginning
<1> HIDE DEF q
<1>2. Begins(q, a)
  BY <1>1 DEF Begins
<1>3. Locate(h, q) = s
  BY <1>1, LocateChain
<1>4. Locate(h, q) = Stop(e, m)
  BY <1>1, <1>2, LocateChain
<1>5. m \in 0..(Len(p) - 1) /\ m + 1 \in 0..Len(p) /\ m \in 0..(Len(a) - 1) /\ m + 1 \in 0..Len(a)
  OBVIOUS
<1>6. <<n, p[m + 1]>> \in Slots(h)
  BY <1>5 DEF Chain
<1>7. Stop(e, m) = s
  BY <1>3, <1>4
<1> HIDE DEF s
<1>8. <<n, a[m + 1]>> \in Slots(h)
  BY <1>5, <1>7 DEF Chain
<1> HIDE DEF n
<1> DEFINE x == p[m + 1]
           y == a[m + 1]
<1>9. <<n, x>> \in Slots(h) /\ <<n, y>> \in Slots(h) /\ x # y
  BY <1>6, <1>8
<1>10. s \in Slots(h)
  BY <1>5 DEF Chain, s
<1> HIDE DEF x, y
<1>11. Branches(h, s)
  BY <1>9, <1>10, TwoChildren DEF n
<1> QED BY <1>11 DEF s

\* What prune_path does at the end of a chain: it clears the cell there when that has a value,
\* else it takes out the cell below the last that has a value or a sibling.
LEMMA PruneFacts ==
    ASSUME NEW h, HeapOK(h), NEW p \in Seq(Byte), p # <<>>, NEW c, Chain(h, p, c)
    PROVE  LET s == Stop(c, Len(p))
           IN /\ At(h, s).val # NoVal =>
                    PruneEnd(h, p) = WithCell(h, s, [At(h, s) EXCEPT !.rec = NoNode])
              /\ At(h, s).val = NoVal =>
                    \E k \in 1..Len(p) :
                       /\ PruneEnd(h, p) = WithoutCell(h, Stop(c, k))
                       /\ \A m \in k..(Len(p) - 1) : ~Branches(h, Stop(c, m))
                       /\ \A m \in k..(Len(p) - 1) : ValIn(h, Stop(c, m)) = NoVal
                       /\ k # 1 => Branches(h, Stop(c, k - 1)) \/ ValIn(h, Stop(c, k - 1)) # NoVal
<1> DEFINE slot(k) == Locate(h, SubSeq(p, 1, k))
           cell(k) == At(h, slot(k))
           stops(k) == k = 0 \/ cell(k).val # NoVal \/ Cardinality(DOMAIN h[cell(k).rec]) > 1
           S == {k \in 0..(Len(p) - 1) : stops(k)}
           keep == Max(S)
           s == Stop(c, Len(p))
<1>1. Len(p) \in Nat /\ Len(p) > 0
  OBVIOUS
<1>2. \A k \in 0..Len(p) : slot(k) = Stop(c, k)
  <2> SUFFICES ASSUME NEW k \in 0..Len(p)
               PROVE  slot(k) = Stop(c, k)
    OBVIOUS
  <2> DEFINE q == SubSeq(p, 1, k)
  <2>1. q \in Seq(Byte) /\ Len(q) = k /\ Begins(q, p)
    BY Beginning
  <2> HIDE DEF q
  <2>2. Locate(h, q) = Stop(c, k)
    BY <2>1, LocateChain
  <2> QED BY <2>2 DEF q
<1>3. PruneEnd(h, p) = IF cell(Len(p)).val # NoVal
                       THEN WithCell(h, slot(Len(p)), [cell(Len(p)) EXCEPT !.rec = NoNode])
                       ELSE WithoutCell(h, slot(keep + 1))
  BY DEF PruneEnd
<1> HIDE DEF slot
<1>4. slot(Len(p)) = s
  BY <1>1, <1>2
<1>5. keep \in S /\ \A k \in S : k <= keep
  <2>1. S \in SUBSET (0..(Len(p) - 1)) /\ 0 \in S /\ Len(p) - 1 \in Nat
    BY <1>1
  <2> HIDE DEF S
  <2> DEFINE n == Len(p) - 1
  <2>2. n \in Nat /\ S \in SUBSET (0..n)
    BY <2>1
  <2> HIDE DEF n
  <2> QED BY <2>1, <2>2, MaxFacts
<1>6. keep + 1 \in 1..Len(p) /\ keep + 1 \in 0..Len(p)
  BY <1>1, <1>5
<1>7. \A m \in (keep + 1)..(Len(p) - 1) : ~Branches(h, Stop(c, m)) /\ ValIn(h, Stop(c, m)) = NoVal
  <2> SUFFICES ASSUME NEW m \in (keep + 1)..(Len(p) - 1)
               PROVE  ~Branches(h, Stop(c, m)) /\ ValIn(h, Stop(c, m)) = NoVal
    OBVIOUS
  <2>1. m \in 0..(Len(p) - 1) /\ ~(m <= keep) /\ m \in 0..Len(p)
    BY <1>1, <1>5
  <2>2. m \notin S
    BY <1>5, <2>1
  <2> HIDE DEF keep
  <2>3. ~stops(m)
    BY <2>1, <2>2
  <2>4. cell(m) = At(h, Stop(c, m))
    BY <1>2, <2>1
  <2> QED BY <2>3, <2>4 DEF Branches, NodeIn, ValIn
<1>12. keep # 0 => Branches(h, Stop(c, keep)) \/ ValIn(h, Stop(c, keep)) # NoVal
  <2>1. keep \in 0..Len(p)
    BY <1>1, <1>5
  <2>2. stops(keep)
    BY <1>5
  <2> HIDE DEF keep
  <2>3. cell(keep) = At(h, Stop(c, keep))
    BY <1>2, <2>1
  <2> QED BY <2>2, <2>3 DEF Branches, NodeIn, ValIn
<1> DEFINE k == keep + 1
<1>13. k # 1 => Branches(h, Stop(c, k - 1)) \/ ValIn(h, Stop(c, k - 1)) # NoVal
  <2>1. k - 1 = keep /\ (k # 1 => keep # 0)
    BY <1>1, <1>5
  <2> HIDE DEF k, keep
  <2> QED BY <1>12, <2>1
<1> HIDE DEF S
<1>8. cell(Len(p)) = At(h, s)
  BY <1>4
<1>9. slot(keep + 1) = Stop(c, keep + 1)
  BY <1>2, <1>6
<1>14. k \in 1..Len(p) /\ slot(keep + 1) = Stop(c, k)
       /\ \A m \in k..(Len(p) - 1) : ~Branches(h, Stop(c, m)) /\ ValIn(h, Stop(c, m)) = NoVal
  BY <1>6, <1>7, <1>9
<1> HIDE DEF cell, keep, k
<1>10. At(h, s).val # NoVal => PruneEnd(h, p) = WithCell(h, s, [At(h, s) EXCEPT !.rec = NoNode])
  BY <1>3, <1>4, <1>8
<1>11. At(h, s).val = NoVal => PruneEnd(h, p) = WithoutCell(h, Stop(c, k))
  BY <1>3, <1>8, <1>14
<1> QED BY <1>10, <1>11, <1>13, <1>14

\* Pruning a path leaves a heap, with the cells of the owners.
LEMMA PruneHeap ==
    ASSUME NEW h, HeapOK(h), NEW p \in Seq(Byte), p # <<>>, NEW c, Chain(h, p, c)
    PROVE  /\ HeapOK(PruneEnd(h, p))
           /\ \A o : <<Roots, o>> \in Slots(h) => <<Roots, o>> \in Slots(PruneEnd(h, p))
<1> DEFINE s == Stop(c, Len(p))
           d == [At(h, s) EXCEPT !.rec = NoNode]
           g == PruneEnd(h, p)
<1>1. Len(p) \in 0..Len(p)
  OBVIOUS
<1>2. s \in Slots(h)
  BY <1>1 DEF Chain
<1> HIDE DEF s, g
<1>3. CASE At(h, s).val # NoVal
  <2>1. At(h, s) \in CellType(h) /\ Named(h, s)
    BY <1>2, HeapFacts
  <2>2. d \in CellType(h)
    BY <2>1 DEF CellType
  <2>3. g = WithCell(h, s, d)
    BY <1>3, PruneFacts DEF g, s
  <2> HIDE DEF d
  <2>4. HeapOK(g) /\ Slots(g) = Slots(h) \cup {s}
    BY <2>1, <2>2, <2>3, WithCellFacts
  <2> QED BY <2>4 DEF g
<1>4. CASE At(h, s).val = NoVal
  <2>1. PICK k \in 1..Len(p) : /\ g = WithoutCell(h, Stop(c, k))
                               /\ \A m \in k..(Len(p) - 1) : ~Branches(h, Stop(c, m))
    BY <1>4, PruneFacts DEF g, s
  <2> DEFINE t == Stop(c, k)
  <2>2. k \in 0..Len(p) /\ k # 0
    OBVIOUS
  <2>3. t \in Slots(h) /\ t[1] # Roots
    BY <2>2, ChainFacts
  <2> HIDE DEF t
  <2>4. t # HeadSlot
    BY <2>3, HeapFacts
  <2>5. g = WithoutCell(h, t)
    BY <2>1 DEF t
  <2>6. HeapOK(g) /\ Slots(g) = Slots(h) \ {t}
    BY <2>3, <2>4, <2>5, WithoutCellFacts
  <2>7. \A o : <<Roots, o>> # t
    BY <2>3
  <2> QED BY <2>6, <2>7 DEF g
<1> QED BY <1>3, <1>4

\* The writer of a path that neither begins with the one pruned nor is a beginning of it
\* keeps its chain.
LEMMA PruneApart ==
    ASSUME NEW h, HeapOK(h), NEW p \in Seq(Byte), p # <<>>, NEW c, Chain(h, p, c),
           NEW x, x.abs \in Seq(Byte), ~Begins(p, x.abs), ~Begins(x.abs, p), Rooted(h, x)
    PROVE  Rooted(PruneEnd(h, p), x)
<1> DEFINE a == x.abs
           s == Stop(c, Len(p))
           d == [At(h, s) EXCEPT !.rec = NoNode]
           g == PruneEnd(h, p)
<1>1. PICK e : /\ Chain(h, a, e)
               /\ NodeIn(h, Stop(e, Len(a))) # NoNode
               /\ x.stage = "open" => x.slot = Stop(e, Len(a))
  BY DEF Rooted
<1>2. Len(p) \in 0..Len(p) /\ a \in Seq(Byte) /\ Len(a) \in 0..Len(a)
  OBVIOUS
<1>3. s \in Slots(h)
  BY <1>2 DEF Chain
<1> HIDE DEF a, g
<1>4. CASE At(h, s).val # NoVal
  <2>1. Begins(p, p)
    BY <1>2 DEF Begins
  <2>2. Locate(h, p) = s
    BY <2>1, LocateChain
  <2>3. s # NoSlot
    BY <1>3, NoSlotFacts
  <2>4. OffChain(e, Len(a), s)
    <3>1. ~Begins(p, a)
      BY DEF a
    <3>2. Locate(h, p) = NoSlot \/ OffChain(e, Len(a), Locate(h, p))
      BY <1>1, <1>2, <3>1, LocateChain
    <3> QED BY <2>2, <2>3, <3>2
  <2> HIDE DEF s
  <2>5. OffChain(e, Len(a) - 1, s)
    BY <1>1, <1>2, <2>4, OffLess
  <2>6. At(h, s) \in CellType(h) /\ Named(h, s)
    BY <1>3, HeapFacts
  <2>7. d \in CellType(h) /\ d.rec = NoNode
    BY <2>6 DEF CellType
  <2>8. g = WithCell(h, s, d)
    BY <1>4, PruneFacts DEF g, s
  <2> HIDE DEF d
  <2>9. Chain(g, a, e)
    BY <1>1, <1>2, <2>5, <2>6, <2>7, <2>8, ChainWrites
  <2>10. \A t \in Slots(h) : t # s => At(g, t) = At(h, t)
    BY <2>6, <2>7, <2>8, WithCellFacts
  <2>11. NodeIn(g, Stop(e, Len(a))) # NoNode
    <3>1. Stop(e, Len(a)) \in Slots(h) /\ Stop(e, Len(a)) # s
      BY <1>1, <1>2, <2>4 DEF Chain, OffChain
    <3> QED BY <1>1, <2>10, <3>1 DEF NodeIn
  <2> QED BY <1>1, <2>9, <2>11 DEF Rooted, a, g
<1>5. CASE At(h, s).val = NoVal
  <2>1. PICK k \in 1..Len(p) : /\ g = WithoutCell(h, Stop(c, k))
                               /\ \A m \in k..(Len(p) - 1) : ~Branches(h, Stop(c, m))
    BY <1>5, PruneFacts DEF g
  <2> DEFINE t == Stop(c, k)
             q == SubSeq(p, 1, k)
  <2>2. k \in 0..Len(p) /\ k # 0
    OBVIOUS
  <2>3. t \in Slots(h) /\ t[1] # Roots
    BY <2>2, ChainFacts
  <2>4. /\ q \in Seq(Byte) /\ Len(q) = k /\ Begins(q, p) /\ \A n \in 1..k : q[n] = p[n]
    BY <2>2, Beginning
  <2> HIDE DEF q
  <2>5. Locate(h, q) = t
    BY <2>4, LocateChain
  <2>6. ~Begins(q, a)
    <3> SUFFICES ASSUME Begins(q, a)
                 PROVE  FALSE
      OBVIOUS
    <3>1. ~Begins(p, a) /\ ~Begins(a, p)
      BY DEF a
    <3>2. PICK m \in Nat : /\ m < Len(p) /\ m < Len(a)
                           /\ p[m + 1] # a[m + 1]
                           /\ \A n \in 1..m : p[n] = a[n]
      BY <1>2, <3>1, Fork
    <3>3. Branches(h, Stop(c, m))
      BY <1>1, <1>2, <3>2, ForkBranches
    <3>4. ~(m \in k..(Len(p) - 1))
      BY <2>1, <3>3
    <3>5. m + 1 \in 1..k
      BY <1>2, <3>2, <3>4
    <3>6. q[m + 1] = p[m + 1] /\ q[m + 1] = a[m + 1]
      BY <2>4, <3>5 DEF Begins
    <3> QED BY <3>2, <3>6
  <2> HIDE DEF t
  <2>7. t # NoSlot /\ t # HeadSlot
    BY <2>3, NoSlotFacts, HeapFacts
  <2>8. OffChain(e, Len(a), t)
    BY <1>1, <1>2, <2>4, <2>5, <2>6, <2>7, LocateChain
  <2>9. Rooted(WithoutCell(h, t), x)
    BY <1>1, <2>3, <2>7, <2>8, CutEnds DEF a
  <2> QED BY <2>1, <2>9 DEF t, g
<1> QED BY <1>4, <1>5

\* A path is cleaned up: it is there, and pruning it takes nothing away from anybody.
LEMMA CleanupStep ==
    ASSUME Good, head' = head, NEW i \in Zipper, Cleanup(i)
    PROVE  Good'
<1> DEFINE p == zip[i].path
           s == Locate(heap, p)
           w == HeapOf(Walk(heap, HeadSlot, p))
           g == IF p # <<>> /\ IsEmpty(heap, At(heap, s).rec) THEN PruneEnd(w, p) ELSE w
           y == Now(i, NoZipper)
<1>1. HeapOK(heap) /\ OfZippers(zip) /\ head \in Heads /\ HeadSlot \in Slots(heap)
      /\ Secure(heap, zip) /\ Granted(head, zip) /\ focus = head.base
  BY GoodFacts DEF Good
<1>2. zip[i] # NoZipper /\ zip[i].stage = "leaving" /\ Writing(zip[i]) /\ Holds(zip[i])
  BY DEF Cleanup, Is, Writing, Holds
<1>3. head.base = <<>>
  BY <1>1, <1>2 DEF Granted, Lawful, Good, Disciplined
<1>4. p \in Seq(Byte) /\ zip[i].abs = p /\ focus = <<>> /\ head.base \o p = p
  <2>1. zip[i] \in ZipperIn(heap) /\ zip[i].abs = head.base \o p
    BY <1>1, <1>2 DEF Secure, Granted, Lawful
  <2>2. p \in Seq(Byte)
    BY <1>1, <2>1, ZipperInFacts, HeadPaths
  <2> HIDE DEF p
  <2>3. <<>> \o p = p
    BY <2>2
  <2> QED BY <1>1, <1>3, <2>1, <2>2, <2>3
<1>5. PICK c : Chain(heap, p, c) /\ NodeIn(heap, Stop(c, Len(p))) # NoNode
  BY <1>1, <1>2, <1>4 DEF Secure, Rooted
<1>6. (s = NoSlot \/ At(heap, s).rec = NoNode) \/
      (Settle(g, y) /\ focus' = <<>> /\ UNCHANGED panicked)
  BY DEF Cleanup, HeapOf
<1> HIDE DEF p
<1>7. Len(p) \in 0..Len(p) /\ Begins(p, p)
  BY <1>4 DEF Begins
<1>8. s = Stop(c, Len(p)) /\ s \in Slots(heap)
  <2>1. s = Stop(c, Len(p))
    BY <1>1, <1>4, <1>5, <1>7, LocateChain
  <2> QED BY <1>5, <1>7, <2>1 DEF Chain
<1>9. s # NoSlot /\ At(heap, s).rec # NoNode
  BY <1>5, <1>8, NoSlotFacts DEF NodeIn
<1>10. w = heap
  <2> DEFINE o == <<>>
             t == HeadSlot
             h == heap
  <2>1. o \in Seq(Byte) /\ Len(o) = 0 /\ o \o p = p
    BY <1>4
  <2>2. t = Stop(c, 0) /\ t \in Slots(h) /\ HeapOK(h) /\ Chain(h, p, c)
    BY <1>1, <1>5 DEF Chain
  <2>3. w = HeapOf(Walk(h, t, p))
    OBVIOUS
  <2> HIDE DEF o, t, h, w
  <2>4. Begins(o, p)
    BY <1>4, <2>1, BeginsFacts DEF Begins
  <2>5. Placed(c, p, o, t)
    BY <2>1, <2>2, <2>4 DEF Placed
  <2>6. Begins(o \o p, p) => HeapOf(Walk(h, t, p)) = h
    BY <1>4, <2>1, <2>2, <2>5, WalkChain
  <2> QED BY <1>7, <2>1, <2>3, <2>6 DEF h
<1> HIDE DEF w, s
<1>11. HeapOK(g) /\ \A o : <<Roots, o>> \in Slots(heap) => <<Roots, o>> \in Slots(g)
  <2>1. CASE g = heap
    BY <1>1, <2>1
  <2>2. CASE p # <<>> /\ g = PruneEnd(heap, p)
    BY <1>1, <1>4, <1>5, <2>2, PruneHeap
  <2> QED BY <1>10, <2>1, <2>2
<1>12. ASSUME NEW j \in Zipper, j # i, Writing(zip[j])
       PROVE  Rooted(g, zip[j])
  <2> DEFINE x == zip[j]
  <2>1. Rooted(heap, x) /\ x.abs \in Seq(Byte)
    BY <1>12, GoodFacts DEF Good, Secure
  <2>2. ~Begins(p, x.abs) /\ ~Begins(x.abs, p)
    BY <1>1, <1>2, <1>4, <1>12, Apart DEF p
  <2> HIDE DEF x
  <2>3. CASE g = heap
    BY <2>1, <2>3 DEF x
  <2>4. CASE p # <<>> /\ g = PruneEnd(heap, p)
    <3>1. Rooted(PruneEnd(heap, p), x)
      BY <1>1, <1>4, <1>5, <2>1, <2>2, <2>4, PruneApart
    <3> QED BY <2>4, <3>1 DEF x
  <2> QED BY <1>10, <2>3, <2>4
<1>13. \A j \in Zipper : j # i /\ Sharing(zip[j]) => <<Roots, j>> \in Slots(g)
  BY <1>1, <1>11 DEF Secure, Shared, Sharing
<1> HIDE DEF g
<1>14. Updates(zip, i, NoZipper, y)
  BY <1>1, NowUpdates
<1> HIDE DEF y
<1>15. Secure(g, y) /\ Granted(head, y)
  <2> DEFINE x == NoZipper
  <2>1. x = NoZipper /\ Updates(zip, i, x, y)
    BY <1>14
  <2> HIDE DEF x
  <2> QED BY <1>11, <1>12, <1>13, <2>1, StepEnds
<1>16. Settle(g, y) /\ UNCHANGED <<focus, panicked>>
  BY <1>4, <1>6, <1>9
<1> QED BY <1>15, <1>16, Settles

\* Every step.
LEMMA StepKeeps ==
    ASSUME Good, head' = head, NEW i \in Zipper, ZipperStep(i)
    PROVE  Good'
<1>1. CASE \E p \in head.paths, mode \in L!Mode : Request(i, p, mode)
  BY <1>1, RequestStep
<1>2. CASE EnterRead(i)
  BY <1>2, EnterReadStep
<1>3. CASE EnterWrite(i)
  BY <1>3, EnterWriteStep
<1>4. CASE \E r \in {<<>>} \cup {<<b>> : b \in Byte}, v \in Val : Set(i, r, v)
  <2>1. PICK r \in {<<>>} \cup {<<b>> : b \in Byte}, v \in Val : Set(i, r, v)
    BY <1>4
  <2>2. <<>> \in Seq(Byte) /\ \A b \in Byte : <<b>> \in Seq(Byte)
    OBVIOUS
  <2>3. r \in Seq(Byte)
    BY <2>2
  <2> QED BY <2>1, <2>3, SetStep
<1>5. CASE RemoveRootVal(i)
  BY <1>5, RemoveRootValStep
<1>6. CASE \E b \in Byte : RemoveValBelow(i, b)
  BY <1>6, RemoveValBelowStep
<1>7. CASE \E j \in Zipper : Graft(i, j)
  BY <1>7, GraftStep
<1>8. CASE \E j \in Zipper : MakeMap(i, j)
  BY <1>8, MakeMapStep
<1>9. CASE IntoReader(i)
  BY <1>9 DEF IntoReader, Good, Disciplined
<1>10. CASE DropShare(i)
  BY <1>10, DropShareStep
<1>11. CASE DropWriter(i)
  BY <1>11, DropWriterStep
<1>12. CASE Leave(i)
  BY <1>12, LeaveStep
<1>13. CASE Cleanup(i)
  BY <1>13, CleanupStep
<1> QED BY <1>1, <1>2, <1>3, <1>4, <1>5, <1>6, <1>7, <1>8, <1>9, <1>10, <1>11, <1>12, <1>13
        DEF ZipperStep

-----------------------------------------------------------------------------
(* The invariant, and what follows from it.                                *)

\* The heap at the start: the root node, empty.
Barren(h) == \A s \in Slots(h) : s = HeadSlot /\ \A p \in Seq(Byte) : CellBelow(h, At(h, s), p).val = NoVal

\* The heap of Init is such a heap, and in order.
LEMMA InitHeap ==
    ASSUME Init
    PROVE  HeapOK(heap) /\ Tidy(heap) /\ Barren(heap)
<1> DEFINE n == {<<"map", <<>>>>}
           r == Roots
           cell == [rec |-> n, val |-> NoVal]
           roots == [m \in {"map"} |-> cell]
           h == Put([x \in {r} |-> roots], n, EmptyNode)
<1>1. heap = h
  BY DEF Init
<1>2. n # r /\ NoNode # n /\ NoNode # r
  <2> DEFINE x == <<"map", <<>>>>
             y == <<"roots", <<>>>>
  <2>1. x[1] = "map" /\ y[1] = "roots" /\ n = {x} /\ r = {y} /\ NoNode = {}
    BY DEF Roots, NoNode
  <2>2. x # y
    BY <2>1
  <2> HIDE DEF x, y, n, r
  <2> QED BY <2>1, <2>2
<1>3. n \in NodeType
  <2> DEFINE e == <<>>
  <2>1. e \in Seq(Nat) /\ "map" \in Owner \cup {"new"} /\ n = {<<"map", e>>}
    BY DEF Owner
  <2> HIDE DEF e, n
  <2> QED BY <2>1 DEF NodeType
<1> HIDE DEF n, r, cell
<1>4. DOMAIN h = {r, n} /\ h[r] = roots /\ h[n] = EmptyNode
  BY <1>2 DEF Put
<1>5. DOMAIN roots = {"map"} /\ roots["map"] = cell
  OBVIOUS
<1>6. DOMAIN EmptyNode = {}
  BY DEF EmptyNode
<1> HIDE DEF h, roots
<1>7. IsFiniteSet(DOMAIN h)
  <2>1. IsFiniteSet({r}) /\ {r, n} = {r} \cup {n}
    BY FS_Singleton
  <2> DEFINE A == {r}
  <2>2. IsFiniteSet(A) /\ DOMAIN h = A \cup {n}
    BY <1>4, <2>1
  <2> HIDE DEF A
  <2> QED BY <2>2, FS_AddElement
<1>8. Nodes(h) = {n}
  BY <1>2, <1>4 DEF Nodes, r
<1>9. <<r, "map">> \in Slots(h)
  BY <1>4, <1>5, SlotsDef
<1>10. cell \in CellType(h)
  BY <1>8 DEF CellType, cell
<1>11. ASSUME NEW s \in Slots(h)
       PROVE  Named(h, s) /\ At(h, s) \in CellType(h) /\ s = <<r, "map">> /\ At(h, s) = cell
  <2>1. s = <<s[1], s[2]>> /\ s[1] \in DOMAIN h /\ s[2] \in DOMAIN h[s[1]]
    BY SlotsDef
  <2>2. s[1] = r
    BY <1>4, <1>6, <2>1
  <2>3. s[2] = "map"
    BY <1>4, <1>5, <2>1, <2>2
  <2>4. At(h, s) = cell
    BY <1>4, <1>5, <2>2, <2>3 DEF At
  <2> QED BY <1>4, <1>10, <2>1, <2>2, <2>3, <2>4 DEF Named, Owner, r
<1>12. HeapOK(h)
  BY <1>2, <1>3, <1>4, <1>7, <1>8, <1>9, <1>11 DEF HeapOK, HeadSlot, r
<1>13. ASSUME NEW p \in Seq(Byte)
       PROVE  (CellBelow(h, cell, p).rec = n <=> p = <<>>) /\ CellBelow(h, cell, p).val = NoVal
  <2> DEFINE s == <<r, "map">>
             X(q) == CellBelow(h, cell, q)
             S == {q \in Seq(Byte) : q = <<>> \/ X(q) = NoCell}
             e == <<>>
  <2>1. s \in Slots(h) /\ At(h, s) = cell
    BY <1>4, <1>5, <1>9 DEF At
  <2>2. \A b : <<n, b>> \notin Slots(h)
    BY <1>4, <1>6, SlotsDef
  <2>3. NodeIn(h, s) = n
    BY <2>1 DEF NodeIn, cell
  <2>4. X(e) = cell
    BY CellBelowEmpty
  <2>5. e \in S
    OBVIOUS
  <2> HIDE DEF X, s
  <2>6. ASSUME NEW q \in Seq(Byte), q \in S, NEW b \in Byte
        PROVE  Append(q, b) \in S
    <3>1. X(Append(q, b)) = Below(h, X(q), b)
      BY CellBelowAppend DEF X
    <3>2. X(q) = cell \/ X(q) = NoCell
      BY <2>4, <2>6
    <3>3. Below(h, cell, b) = NoCell /\ Below(h, NoCell, b) = NoCell
      BY <1>12, <2>1, <2>2, <2>3, BelowSlot
    <3>4. X(Append(q, b)) = NoCell /\ Append(q, b) \in Seq(Byte)
      BY <3>1, <3>2, <3>3
    <3> QED BY <3>4
  <2> HIDE DEF S, e
  <2>7. p \in S
    <3>1. <<>> \in S
      BY <2>5 DEF e
    <3> QED BY <2>6, <3>1, PathInduction
  <2>8. p = e \/ X(p) = NoCell
    BY <2>7 DEF S, e
  <2>9. NoCell.rec # n /\ cell.rec = n /\ NoCell.val = NoVal /\ cell.val = NoVal
    BY <1>2 DEF NoCell, cell
  <2>10. CellBelow(h, cell, p) = X(p)
    BY DEF X
  <2>11. (X(p).rec = n <=> p = e) /\ X(p).val = NoVal
    BY <2>4, <2>8, <2>9
  <2> QED BY <2>10, <2>11 DEF e
<1>14. Tidy(h)
  <2>1. Ways(h, r) = r
    BY DEF Ways, r
  <2>2. Ways(h, n) = n
    <3> DEFINE W == (DOMAIN h[r]) \X TriePath
               e == <<>>
               o == "map"
    <3>1. Ways(h, n) = {w \in W : CellBelow(h, h[r][w[1]], w[2]).rec = n}
      BY <1>2 DEF Ways, r
    <3>2. h[r][o] = cell /\ DOMAIN h[r] = {o}
      BY <1>4, <1>5
    <3>3. e \in TriePath /\ TriePath \subseteq Seq(Byte)
      BY TriePathFacts
    <3>4. n = {<<o, e>>}
      BY DEF n
    <3>5. \A p \in TriePath : CellBelow(h, cell, p).rec = n <=> p = e
      BY <1>13, <3>3
    <3> HIDE DEF e, o
    <3>6. \A w \in W : CellBelow(h, h[r][w[1]], w[2]).rec = n <=> w = <<o, e>>
      <4> SUFFICES ASSUME NEW w \in W
                   PROVE  CellBelow(h, h[r][w[1]], w[2]).rec = n <=> w = <<o, e>>
        OBVIOUS
      <4>1. w[1] = o /\ w[2] \in TriePath /\ w = <<w[1], w[2]>>
        BY <3>2
      <4>2. CellBelow(h, h[r][w[1]], w[2]).rec = n <=> w[2] = e
        BY <3>2, <3>5, <4>1
      <4> QED BY <4>1, <4>2
    <3>7. <<o, e>> \in W
      BY <3>2, <3>3
    <3> HIDE DEF W
    <3>8. Ways(h, n) = {<<o, e>>}
      BY <3>1, <3>6, <3>7
    <3> QED BY <3>4, <3>8
  <2> QED BY <1>4, <2>1, <2>2 DEF Tidy
<1>15. Barren(h)
  BY <1>11, <1>13 DEF Barren, HeadSlot, r
<1> QED BY <1>1, <1>12, <1>14, <1>15

\* The invariant holds at the start.
LEMMA InitInv ==
    ASSUME Init
    PROVE  HeadInv
<1>1. HeapOK(heap) /\ Tidy(heap)
  BY InitHeap
<1>2. \A i \in Zipper : zip[i] = NoZipper
  BY DEF Init
<1>3. OfZippers(zip)
  BY DEF Init, OfZippers
<1>4. head \in Heads /\ focus = head.base /\ panicked = FALSE
  BY DEF Init
<1>5. Granted(head, zip)
  BY <1>2 DEF Granted, Busy, Holds
<1>6. Secure(heap, zip)
  BY <1>1, <1>2, <1>3 DEF Secure
<1> QED BY <1>1, <1>4, <1>5, <1>6 DEF HeadInv

\* Every step keeps it.
LEMMA NextInv ==
    ASSUME HeadInv, [Next]_vars
    PROVE  HeadInv'
<1>1. CASE Next
  <2>1. PICK i \in Zipper : ZipperStep(i) /\ head' = head
    BY <1>1 DEF Next
  <2>2. CASE Disciplined(head)
    <3>1. Good
      BY <2>2 DEF HeadInv, Good
    <3>2. Good'
      BY <2>1, <3>1, StepKeeps
    <3> QED BY <3>2 DEF HeadInv, Good
  <2>3. CASE ~Disciplined(head)
    <3>1. ~Disciplined(head')
      BY <2>1, <2>3
    <3> QED BY <3>1 DEF HeadInv
  <2> QED BY <2>2, <2>3
<1>2. CASE UNCHANGED vars
  BY <1>2 DEF vars, HeadInv
<1> QED BY <1>1, <1>2

\* The inductive invariant of the zipper head (ZipperHead::with_inner_core_z and the zippers
\* it creates): under the discipline of the documentation, every writer's slot is at the end of
\* a chain of nodes of its own, and every reader and map has its cell.
THEOREM HeadInvariant == Spec => []HeadInv
<1>1. Init => HeadInv
  BY InitInv
<1>2. HeadInv /\ [Next]_vars => HeadInv'
  BY NextInv
<1> QED BY <1>1, <1>2, PTL DEF Spec

\* What the invariant says of one writer.
LEMMA WriterAttached ==
    ASSUME Good, NEW i \in Writers
    PROVE  /\ Locate(heap, zip[i].abs) = zip[i].slot
           /\ CellOf(i).rec # NoNode
           /\ \A k \in 0..(Len(zip[i].abs) - 1) :
                 Refs(heap, At(heap, Locate(heap, SubSeq(zip[i].abs, 1, k))).rec) = 1
<1> DEFINE a == zip[i].abs
           s == zip[i].slot
<1>1. zip[i] # NoZipper /\ zip[i].stage = "open" /\ Writing(zip[i]) /\ i \in Zipper
  BY DEF Writers, Open, Is, Writing
<1>2. HeapOK(heap) /\ a \in Seq(Byte)
  BY <1>1, GoodFacts
<1>3. PICK c : /\ Chain(heap, a, c)
               /\ NodeIn(heap, Stop(c, Len(a))) # NoNode
               /\ s = Stop(c, Len(a))
  BY <1>1 DEF Good, Secure, Rooted
<1> HIDE DEF a, s
<1>4. Begins(a, a) /\ Len(a) \in Nat
  BY <1>2 DEF Begins
<1>5. Locate(heap, a) = s
  BY <1>2, <1>3, <1>4, LocateChain
<1>6. CellOf(i).rec # NoNode
  BY <1>3 DEF CellOf, NodeIn, s
<1>7. ASSUME NEW k \in 0..(Len(a) - 1)
      PROVE  Refs(heap, At(heap, Locate(heap, SubSeq(a, 1, k))).rec) = 1
  <2> DEFINE q == SubSeq(a, 1, k)
  <2>1. k \in 0..Len(a)
    BY <1>4
  <2>2. q \in Seq(Byte) /\ Len(q) = k /\ Begins(q, a)
    BY <1>2, <2>1, Beginning
  <2> HIDE DEF q
  <2>3. Locate(heap, q) = Stop(c, k)
    BY <1>2, <1>3, <2>2, LocateChain
  <2>4. Stop(c, k) \in Slots(heap) /\ Sole(heap, Stop(c, k))
    BY <1>3, <2>1 DEF Chain
  <2>5. Refs(heap, NodeIn(heap, Stop(c, k))) = 1
    BY <1>2, <2>4, SoleRefs
  <2> QED BY <2>3, <2>5 DEF NodeIn, q
<1> QED BY <1>5, <1>6, <1>7 DEF a, s

\* What it says of two open zippers.
LEMMA OpenApart ==
    ASSUME Good, NEW i \in Readers \cup Writers, NEW j \in Readers \cup Writers, i # j,
           Comparable(zip[i].abs, zip[j].abs)
    PROVE  {i, j} \subseteq Readers
<1>1. \A k \in Readers \cup Writers :
         /\ k \in Zipper /\ zip[k] # NoZipper /\ zip[k].stage = "open" /\ Holds(zip[k])
         /\ zip[k].abs = head.base \o zip[k].path /\ zip[k].abs \in Seq(Byte)
         /\ (k \notin Readers => Writing(zip[k]))
  <2> SUFFICES ASSUME NEW k \in Readers \cup Writers
               PROVE  /\ k \in Zipper /\ zip[k] # NoZipper /\ zip[k].stage = "open" /\ Holds(zip[k])
                      /\ zip[k].abs = head.base \o zip[k].path /\ zip[k].abs \in Seq(Byte)
                      /\ (k \notin Readers => Writing(zip[k]))
    OBVIOUS
  <2>1. /\ k \in Zipper /\ zip[k] # NoZipper /\ zip[k].stage = "open"
        /\ (k \notin Readers => zip[k].mode = "write")
    BY DEF Readers, Writers, Open, Is
  <2>2. zip[k] \in ZipperIn(heap) /\ Lawful(head, zip[k]) /\ HeapOK(heap)
    BY <2>1 DEF Good, Secure, Granted
  <2>3. zip[k].abs \in Seq(Byte)
    BY <2>2, ZipperInFacts, HeadPaths
  <2> QED BY <2>1, <2>2, <2>3 DEF Holds, Writing, Lawful
<1>2. Begins(zip[i].abs, zip[j].abs) \/ Begins(zip[j].abs, zip[i].abs)
  BY <1>1, BeginsComparable
<1>3. head \in Heads /\ Secure(heap, zip) /\ Granted(head, zip)
  BY DEF Good
<1>4. ~Writing(zip[j])
  <2> SUFFICES ASSUME Writing(zip[j])
               PROVE  FALSE
    OBVIOUS
  <2>1. i \in Zipper /\ j \in Zipper /\ i # j /\ Holds(zip[i])
    BY <1>1
  <2>2. /\ ~Begins(head.base \o zip[i].path, zip[j].abs)
        /\ ~Begins(zip[j].abs, head.base \o zip[i].path)
    BY <1>3, <2>1, Apart
  <2>3. zip[i].abs = head.base \o zip[i].path
    BY <1>1
  <2> QED BY <1>2, <2>2, <2>3
<1>5. ~Writing(zip[i])
  <2> SUFFICES ASSUME Writing(zip[i])
               PROVE  FALSE
    OBVIOUS
  <2>1. j \in Zipper /\ i \in Zipper /\ j # i /\ Holds(zip[j])
    BY <1>1
  <2>2. /\ ~Begins(head.base \o zip[j].path, zip[i].abs)
        /\ ~Begins(zip[i].abs, head.base \o zip[j].path)
    BY <1>3, <2>1, Apart
  <2>3. zip[j].abs = head.base \o zip[j].path
    BY <1>1
  <2> QED BY <1>2, <2>2, <2>3
<1> QED BY <1>1, <1>4, <1>5

\* A writer's slot is the one its path leads to, and every node on the way is referred to
\* once: neither copy-on-write on behalf of another zipper, nor cleaning up after one, nor a
\* graft detaches it (prepare_exclusive_write_path, make_unique).
THEOREM WritersStayAttached == Spec => [](Disciplined(head) => WritersAttached)
<1>1. HeadInv => (Disciplined(head) => WritersAttached)
  <2> SUFFICES ASSUME HeadInv, Disciplined(head)
               PROVE  WritersAttached
    OBVIOUS
  <2>1. Good
    BY DEF HeadInv, Good
  <2> QED BY <2>1, WriterAttached DEF WritersAttached
<1> QED BY <1>1, HeadInvariant, PTL

\* Zippers at, above or below one another's places in the trie are readers: the locks, on
\* paths relative to the head, exclude what they mean to (SharedTrackerPaths).
THEOREM OpenZippersExclude == Spec => [](Disciplined(head) => OpenExclusive)
<1>1. HeadInv => (Disciplined(head) => OpenExclusive)
  <2> SUFFICES ASSUME HeadInv, Disciplined(head)
               PROVE  OpenExclusive
    OBVIOUS
  <2>1. Good
    BY DEF HeadInv, Good
  <2> QED BY <2>1, OpenApart DEF OpenExclusive
<1> QED BY <1>1, HeadInvariant, PTL

\* cleanup_write_zipper finds the node of the writer it is given (zipper_head.rs:82).
THEOREM CleanupNeverPanics == Spec => [](Disciplined(head) => NoPanic)
<1>1. HeadInv => (Disciplined(head) => NoPanic)
  BY DEF HeadInv, NoPanic
<1> QED BY <1>1, HeadInvariant, PTL

\* Nodes are named by the ways that lead to them, cells lead to nodes there are, and a zipper's
\* slot is a slot of the heap.
THEOREM HeadTypes == Spec => [](Disciplined(head) => TypeOK)
<1>1. HeadInv => (Disciplined(head) => TypeOK)
  <2> SUFFICES ASSUME HeadInv, Disciplined(head)
               PROVE  TypeOK
    OBVIOUS
  <2>1. /\ HeapOK(heap) /\ OfZippers(zip) /\ Tidy(heap) /\ Secure(heap, zip)
        /\ focus = head.base /\ head \in Heads /\ panicked = FALSE
    BY DEF HeadInv, Secure
  <2>2. ASSUME NEW n \in DOMAIN heap
        PROVE  /\ n = Ways(heap, n)
               /\ DOMAIN heap[n] \subseteq IF n = Roots THEN Owner ELSE Byte
               /\ \A b \in DOMAIN heap[n] :
                     /\ heap[n][b].rec \in (DOMAIN heap \ {Roots}) \cup {NoNode}
                     /\ heap[n][b].val \in Val \cup {NoVal}
    <3>1. ASSUME NEW b \in DOMAIN heap[n]
          PROVE  /\ b \in IF n = Roots THEN Owner ELSE Byte
                 /\ heap[n][b].rec \in (DOMAIN heap \ {Roots}) \cup {NoNode}
                 /\ heap[n][b].val \in Val \cup {NoVal}
      <4> DEFINE s == <<n, b>>
                 c == At(heap, s)
      <4>1. s \in Slots(heap) /\ s[1] = n /\ s[2] = b
        BY SlotsDef
      <4>2. c = heap[n][b]
        BY DEF At
      <4> HIDE DEF s
      <4>3. Named(heap, s) /\ c \in CellType(heap)
        BY <2>1, <4>1, HeapFacts
      <4> HIDE DEF c
      <4>4. c.rec \in (DOMAIN heap \ {Roots}) \cup {NoNode} /\ c.val \in Val \cup {NoVal}
        BY <4>3 DEF CellType, Nodes
      <4>5. b \in IF n = Roots THEN Owner ELSE Byte
        BY <4>1, <4>3 DEF Named
      <4> QED BY <4>2, <4>4, <4>5
    <3>2. n = Ways(heap, n)
      BY <2>1 DEF Tidy
    <3> QED BY <3>1, <3>2
  <2>3. ASSUME NEW i \in Zipper
        PROVE  /\ zip[i] \in ZipType \cup {NoZipper}
               /\ zip[i] # NoZipper => zip[i].slot \in Slots(heap) \cup {NoSlot}
    <3> DEFINE x == zip[i]
    <3>1. x # NoZipper => x \in ZipperIn(heap)
      BY <2>1 DEF Secure
    <3> HIDE DEF x
    <3>2. x # NoZipper => x \in ZipType /\ x.slot \in Slots(heap) \cup {NoSlot}
      BY <2>1, <3>1, ZipperInFacts
    <3> QED BY <3>2 DEF x
  <2>4. zip \in [Zipper -> ZipType \cup {NoZipper}]
    <3>1. zip = [i \in Zipper |-> zip[i]]
      BY <2>1 DEF OfZippers
    <3> QED BY <2>3, <3>1
  <2>5. focus \in TriePath
    BY <2>1, HeadPaths
  <2> QED BY <2>1, <2>2, <2>3, <2>4, <2>5 DEF TypeOK
<1> QED BY <1>1, HeadInvariant, PTL

-------------------------------------------------------------------------------
(* Pruning: a chain that nothing branches off.                             *)

\* Nothing is below an empty node.
LEMMA EmptyBelow ==
    ASSUME NEW h, HeapOK(h), NEW x, IsEmpty(h, x.rec), NEW r \in Seq(Byte), r # <<>>
    PROVE  CellBelow(h, x, r) = NoCell
<1> DEFINE S == {q \in Seq(Byte) : q # <<>> => CellBelow(h, x, q) = NoCell}
<1>1. <<>> \in S
  OBVIOUS
<1>2. ASSUME NEW q \in Seq(Byte), q \in S, NEW b \in Byte
      PROVE  Append(q, b) \in S
  <2>1. CellBelow(h, x, Append(q, b)) = Below(h, CellBelow(h, x, q), b) /\ Append(q, b) \in Seq(Byte)
    BY CellBelowAppend
  <2>2. CASE q = <<>>
    <3>1. CellBelow(h, x, q) = x
      BY <2>2, CellBelowEmpty
    <3>2. x.rec = NoNode \/ h[x.rec] = EmptyNode
      BY DEF IsEmpty
    <3>3. DOMAIN EmptyNode = {}
      BY DEF EmptyNode
    <3> HIDE DEF EmptyNode
    <3>4. Below(h, x, b) = NoCell
      BY <3>2, <3>3 DEF Below
    <3> QED BY <2>1, <3>1, <3>4
  <2>3. CASE q # <<>>
    <3>1. CellBelow(h, x, q) = NoCell
      BY <1>2, <2>3
    <3>2. Below(h, NoCell, b) = NoCell
      BY BelowSlot
    <3> QED BY <2>1, <3>1, <3>2
  <2> QED BY <2>2, <2>3
<1> HIDE DEF S
<1>3. r \in S
  BY <1>1, <1>2, PathInduction
<1> QED BY <1>3 DEF S

\* The beginning of a path has the beginning of its chain.
LEMMA ChainPrefix ==
    ASSUME NEW h, NEW p \in Seq(Byte), NEW c, Chain(h, p, c), NEW a \in Seq(Byte), Begins(a, p)
    PROVE  Chain(h, a, c)
<1>1. Len(a) \in Nat /\ Len(p) \in Nat /\ Len(a) <= Len(p) /\ \A k \in 1..Len(a) : a[k] = p[k]
  BY DEF Begins
<1>2. ASSUME NEW k \in 0..Len(a)
      PROVE  Stop(c, k) \in Slots(h)
  <2>1. k \in 0..Len(p)
    BY <1>1
  <2> QED BY <2>1 DEF Chain
<1>3. ASSUME NEW k \in 0..(Len(a) - 1)
      PROVE  /\ NodeIn(h, Stop(c, k)) # NoNode
             /\ Stop(c, k + 1) = <<NodeIn(h, Stop(c, k)), a[k + 1]>>
             /\ Sole(h, Stop(c, k))
  <2>1. k \in 0..(Len(p) - 1) /\ k + 1 \in 1..Len(a)
    BY <1>1
  <2>2. a[k + 1] = p[k + 1]
    BY <1>1, <2>1
  <2> QED BY <2>1, <2>2 DEF Chain
<1>4. Stop(c, 0) = HeadSlot
  BY DEF Chain
<1> QED BY <1>2, <1>3, <1>4 DEF Chain

\* Below a stop from which a chain goes on without branches, and ends in an empty node, there
\* is only the rest of the chain.
LEMMA LoneChain ==
    ASSUME NEW h, HeapOK(h), NEW p \in Seq(Byte), NEW c, Chain(h, p, c),
           IsEmpty(h, NodeIn(h, Stop(c, Len(p)))), NEW a \in Seq(Byte), Begins(a, p),
           \A m \in Len(a)..(Len(p) - 1) : ~Branches(h, Stop(c, m)),
           NEW r \in Seq(Byte)
    PROVE  LET x == CellBelow(h, At(h, HeadSlot), a \o r)
           IN x = NoCell \/ (Begins(a \o r, p) /\ x = At(h, Stop(c, Len(a \o r))))
<1> DEFINE X(q) == CellBelow(h, At(h, HeadSlot), a \o q)
           S == {q \in Seq(Byte) : X(q) = NoCell \/ (Begins(a \o q, p) /\ X(q) = At(h, Stop(c, Len(a \o q))))}
<1>1. <<>> \in S
  <2>1. a \o <<>> = a
    BY ConcatFacts
  <2>2. CellBelow(h, At(h, HeadSlot), a) = At(h, Stop(c, Len(a)))
    BY CellBelowChain
  <2> QED BY <2>1, <2>2
<1>2. ASSUME NEW q \in Seq(Byte), q \in S, NEW b \in Byte
      PROVE  Append(q, b) \in S
  <2> DEFINE d == a \o q
             e == Append(d, b)
  <2>1. d \in Seq(Byte) /\ e \in Seq(Byte) /\ a \o Append(q, b) = e /\ Append(q, b) \in Seq(Byte)
        /\ Len(d) = Len(a) + Len(q)
    BY ConcatFacts
  <2>2. CellBelow(h, At(h, HeadSlot), e) = Below(h, CellBelow(h, At(h, HeadSlot), d), b)
    BY <2>1, CellBelowAppend
  <2>3. X(q) = CellBelow(h, At(h, HeadSlot), d) /\ X(Append(q, b)) = Below(h, X(q), b)
    BY <2>1, <2>2
  <2> HIDE DEF X
  <2>4. CASE X(q) = NoCell
    <3>1. X(Append(q, b)) = NoCell
      BY <2>3, <2>4, BelowSlot
    <3> QED BY <2>1, <3>1
  <2>5. CASE Begins(d, p) /\ X(q) = At(h, Stop(c, Len(d)))
    <3> DEFINE m == Len(d)
               s == Stop(c, m)
               u == <<NodeIn(h, s), b>>
    <3>1. m \in 0..Len(p) /\ Len(a) <= m /\ Len(p) \in Nat
      <4>1. Len(a) \in Nat /\ Len(q) \in Nat /\ Len(p) \in Nat /\ m <= Len(p)
        BY <2>5 DEF Begins
      <4> QED BY <2>1, <4>1
    <3>2. s \in Slots(h)
      BY <3>1 DEF Chain
    <3>3. CASE m = Len(p)
      <4> DEFINE x == At(h, s)
      <4>1. IsEmpty(h, x.rec)
        BY <3>3 DEF NodeIn
      <4> HIDE DEF x
      <4>2. Below(h, x, b) = NoCell
        <5> DEFINE z == <<>>
                   f == Append(z, b)
        <5>1. z \in Seq(Byte) /\ f \in Seq(Byte) /\ f # <<>>
          OBVIOUS
        <5>2. CellBelow(h, x, z) = x
          BY CellBelowEmpty
        <5> HIDE DEF z
        <5>3. CellBelow(h, x, f) = Below(h, CellBelow(h, x, z), b)
          BY <5>1, CellBelowAppend
        <5> HIDE DEF f
        <5>4. CellBelow(h, x, f) = NoCell
          BY <4>1, <5>1, EmptyBelow
        <5> QED BY <5>2, <5>3, <5>4
      <4>3. X(Append(q, b)) = NoCell
        BY <2>3, <2>5, <4>2 DEF x
      <4> QED BY <2>1, <4>3
    <3>4. CASE m # Len(p) /\ b = p[m + 1]
      <4>1. Begins(e, p)
        <5>1. m < Len(p) /\ b = p[m + 1]
          BY <3>1, <3>4
        <5>2. Begins(d, p) /\ Len(d) < Len(p) /\ b = p[Len(d) + 1]
          BY <2>5, <5>1
        <5> HIDE DEF d, m
        <5> QED BY <2>1, <5>2, BeginsFacts
      <4>2. CellBelow(h, At(h, HeadSlot), e) = At(h, Stop(c, Len(e)))
        BY <2>1, <4>1, CellBelowChain
      <4> QED BY <2>1, <4>1, <4>2 DEF X
    <3>5. CASE m # Len(p) /\ b # p[m + 1]
      <4>1. m \in Len(a)..(Len(p) - 1) /\ m \in 0..(Len(p) - 1) /\ m + 1 \in 0..Len(p)
        BY <3>1, <3>5
      <4>2. <<NodeIn(h, s), p[m + 1]>> \in Slots(h)
        BY <4>1 DEF Chain
      <4>3. ~Branches(h, s)
        BY <4>1
      <4> HIDE DEF s, m
      <4> DEFINE y == p[m + 1]
      <4>4. y # b /\ <<NodeIn(h, s), y>> \in Slots(h)
        BY <3>5, <4>2
      <4> HIDE DEF y
      <4>5. u \notin Slots(h)
        BY <3>2, <4>3, <4>4, TwoChildren
      <4>6. Below(h, At(h, s), b) = NoCell
        BY <3>2, <4>5, BelowSlot
      <4>7. X(Append(q, b)) = NoCell
        BY <2>3, <2>5, <4>6 DEF s, m
      <4> QED BY <2>1, <4>7
    <3> QED BY <3>3, <3>4, <3>5
  <2> QED BY <1>2, <2>4, <2>5
<1> HIDE DEF S
<1>3. r \in S
  BY <1>1, <1>2, PathInduction
<1> QED BY <1>3 DEF S

-------------------------------------------------------------------------------
(* Paths.                                                                  *)

\* A path that another begins goes on from there.
LEMMA BeginsRest ==
    ASSUME NEW a \in Seq(Byte), NEW p \in Seq(Byte), Begins(a, p)
    PROVE  \E r \in Seq(Byte) : p = a \o r
<1> DEFINE r == SubSeq(p, Len(a) + 1, Len(p))
<1>1. Len(a) \in Nat /\ Len(p) \in Nat /\ Len(a) <= Len(p) /\ \A k \in 1..Len(a) : a[k] = p[k]
  BY DEF Begins
<1>2. r \in Seq(Byte) /\ Len(r) = Len(p) - Len(a) /\ \A k \in 1..Len(r) : r[k] = p[Len(a) + k]
  BY <1>1
<1> HIDE DEF r
<1>3. a \o r \in Seq(Byte) /\ Len(a \o r) = Len(p)
  BY <1>1, <1>2
<1>4. ASSUME NEW k \in 1..Len(p)
      PROVE  (a \o r)[k] = p[k]
  <2>1. (a \o r)[k] = IF k <= Len(a) THEN a[k] ELSE r[k - Len(a)]
    BY <1>1, <1>2
  <2>2. CASE k <= Len(a)
    <3>1. k \in 1..Len(a)
      BY <1>1, <2>2
    <3> QED BY <1>1, <2>1, <2>2, <3>1
  <2>3. CASE ~(k <= Len(a))
    <3>1. k - Len(a) \in 1..Len(r) /\ Len(a) + (k - Len(a)) = k
      BY <1>1, <1>2, <2>3
    <3> QED BY <1>2, <2>1, <2>3, <3>1
  <2> QED BY <2>2, <2>3
<1> DEFINE q == a \o r
<1>5. q \in Seq(Byte) /\ Len(q) = Len(p) /\ \A k \in 1..Len(p) : q[k] = p[k]
  BY <1>3, <1>4
<1> HIDE DEF q
<1>6. q = p
  BY <1>5
<1> QED BY <1>2, <1>6 DEF q

\* Does cell x lead on by byte b?  Does path p of owner o?
On(h, x, b) == <<x.rec, b>> \in Slots(h)
Leads(h, o, p, b) == <<Roots, o>> \in Slots(h) /\ On(h, CellBelow(h, At(h, <<Roots, o>>), p), b)

\* No owner has a path in g that it does not have in h, but for the head, which may have the
\* beginnings of a.
Adds(h, g, a) ==
    \A o : \A p \in Seq(Byte) : \A b \in Byte :
        Leads(g, o, p, b) => Leads(h, o, p, b) \/ (o = "map" /\ Begins(Append(p, b), a))

\* Slots u of g and v of h go together.
Paired(R, u, v) == <<u, v>> \in R

\* When from slots that go together only such slots are reached, whatever path exists below
\* the one exists below the other.
LEMMA Simulated ==
    ASSUME NEW h, HeapOK(h), NEW g, HeapOK(g), NEW R,
           \A u, v : Paired(R, u, v) => u \in Slots(g) /\ v \in Slots(h),
           \A u, v : \A b \in Byte : Paired(R, u, v) /\ <<NodeIn(g, u), b>> \in Slots(g)
              => Paired(R, <<NodeIn(g, u), b>>, <<NodeIn(h, v), b>>),
           NEW s, NEW t, Paired(R, s, t), NEW p \in Seq(Byte), NEW c \in Byte,
           On(g, CellBelow(g, At(g, s), p), c)
    PROVE  On(h, CellBelow(h, At(h, t), p), c)
<1> DEFINE X(q) == CellBelow(g, At(g, s), q)
           Y(q) == CellBelow(h, At(h, t), q)
           Both(q) == X(q) = NoCell \/ \E u, v : Paired(R, u, v) /\ X(q) = At(g, u) /\ Y(q) = At(h, v)
           S == {q \in Seq(Byte) : Both(q)}
<1>1. <<>> \in S
  <2>1. X(<<>>) = At(g, s) /\ Y(<<>>) = At(h, t)
    BY CellBelowEmpty
  <2> HIDE DEF X, Y
  <2>2. Both(<<>>)
    BY <2>1
  <2> QED BY <2>2
<1>2. ASSUME NEW q \in Seq(Byte), q \in S, NEW b \in Byte
      PROVE  Append(q, b) \in S
  <2>1. X(Append(q, b)) = Below(g, X(q), b) /\ Y(Append(q, b)) = Below(h, Y(q), b)
        /\ Append(q, b) \in Seq(Byte)
    BY CellBelowAppend
  <2> HIDE DEF X, Y
  <2>2. CASE X(q) = NoCell
    <3>1. X(Append(q, b)) = NoCell
      BY <2>1, <2>2, BelowSlot
    <3> QED BY <2>1, <3>1
  <2>3. CASE X(q) # NoCell
    <3>1. PICK u, v : Paired(R, u, v) /\ X(q) = At(g, u) /\ Y(q) = At(h, v)
      BY <1>2, <2>3
    <3> DEFINE u1 == <<NodeIn(g, u), b>>
               v1 == <<NodeIn(h, v), b>>
    <3>2. u \in Slots(g) /\ v \in Slots(h)
      BY <3>1
    <3>3. X(Append(q, b)) = IF u1 \in Slots(g) THEN At(g, u1) ELSE NoCell
      BY <2>1, <3>1, <3>2, BelowSlot
    <3>4. Y(Append(q, b)) = IF v1 \in Slots(h) THEN At(h, v1) ELSE NoCell
      BY <2>1, <3>1, <3>2, BelowSlot
    <3>5. u1 \in Slots(g) => Paired(R, u1, v1)
      BY <3>1
    <3> HIDE DEF u1, v1
    <3>6. Both(Append(q, b))
      BY <3>3, <3>4, <3>5
    <3> QED BY <2>1, <3>6
  <2> QED BY <2>2, <2>3
<1> HIDE DEF S
<1>3. p \in S
  BY <1>1, <1>2, PathInduction
<1> HIDE DEF X, Y
<1>4. Both(p)
  BY <1>3 DEF S
<1>5. On(g, X(p), c)
  BY DEF X
<1>6. X(p) # NoCell
  <2>1. SUFFICES ASSUME X(p) = NoCell PROVE FALSE
    OBVIOUS
  <2>2. <<NoNode, c>> \in Slots(g)
    BY <1>5, <2>1 DEF On, NoCell
  <2> QED BY <2>2, SlotsDef, HeapFacts
<1>7. PICK u, v : Paired(R, u, v) /\ X(p) = At(g, u) /\ Y(p) = At(h, v)
  BY <1>4, <1>6
<1>8. <<NodeIn(g, u), c>> \in Slots(g)
  BY <1>5, <1>7 DEF On, NodeIn
<1>9. <<NodeIn(h, v), c>> \in Slots(h)
  BY <1>7, <1>8
<1> QED BY <1>7, <1>9 DEF On, NodeIn, Y

\* The same, for slots that the two heaps share.
LEMMA Within ==
    ASSUME NEW h, HeapOK(h), NEW g, HeapOK(g), NEW U,
           \A t \in U : t \in Slots(h) /\ t \in Slots(g),
           \A t \in U : \A b \in Byte : <<NodeIn(g, t), b>> \in Slots(g)
              => NodeIn(g, t) = NodeIn(h, t) /\ <<NodeIn(g, t), b>> \in U,
           NEW s \in U, NEW p \in Seq(Byte), NEW c \in Byte, On(g, CellBelow(g, At(g, s), p), c)
    PROVE  On(h, CellBelow(h, At(h, s), p), c)
<1> DEFINE R == {x \in U \X U : x[1] = x[2]}
<1>1. \A u, v : Paired(R, u, v) <=> u \in U /\ v = u
  BY DEF Paired
<1> HIDE DEF R
<1>2. \A u, v : Paired(R, u, v) => u \in Slots(g) /\ v \in Slots(h)
  BY <1>1
<1>3. ASSUME NEW u, NEW v, NEW b \in Byte, Paired(R, u, v), <<NodeIn(g, u), b>> \in Slots(g)
      PROVE  Paired(R, <<NodeIn(g, u), b>>, <<NodeIn(h, v), b>>)
  BY <1>1, <1>3
<1>4. Paired(R, s, s)
  BY <1>1
<1> QED BY <1>2, <1>3, <1>4, Simulated

\* One heap after another.
LEMMA AddsTrans ==
    ASSUME NEW h, NEW g, NEW k, NEW a \in Seq(Byte), NEW b \in Seq(Byte),
           Adds(h, g, a), Adds(g, k, b), Begins(a, b)
    PROVE  Adds(h, k, b)
<1>1. ASSUME NEW q \in Seq(Byte), Begins(q, a)
      PROVE  Begins(q, b)
  <2>1. Len(q) \in Nat /\ Len(a) \in Nat /\ Len(b) \in Nat
    OBVIOUS
  <2>2. \A n \in 1..Len(q) : n \in 1..Len(a)
    BY <1>1, <2>1 DEF Begins
  <2> QED BY <1>1, <2>1, <2>2 DEF Begins
<1>2. ASSUME NEW o, NEW p \in Seq(Byte), NEW c \in Byte, Leads(k, o, p, c)
      PROVE  Leads(h, o, p, c) \/ (o = "map" /\ Begins(Append(p, c), b))
  <2>1. Leads(g, o, p, c) \/ (o = "map" /\ Begins(Append(p, c), b))
    BY <1>2 DEF Adds
  <2>2. Append(p, c) \in Seq(Byte)
    OBVIOUS
  <2>3. Leads(g, o, p, c) => Leads(h, o, p, c) \/ (o = "map" /\ Begins(Append(p, c), a))
    BY DEF Adds
  <2> QED BY <1>1, <2>1, <2>2, <2>3
<1> QED BY <1>2 DEF Adds

\* A new node, empty or a copy, brings no path.
LEMMA GrownAdds ==
    ASSUME NEW h, HeapOK(h), NEW g, HeapOK(g), NEW s \in Slots(h), Grown(h, g, s)
    PROVE  Adds(h, g, <<>>)
<1> DEFINE R == {x \in Slots(g) \X Slots(h) : Mirrors(h, g, s, x[2], x[1])}
<1>1. \A u, v : Paired(R, u, v) <=> Mirrors(h, g, s, v, u)
  BY DEF Paired, Mirrors
<1>2. \A u, v : Paired(R, u, v) => u \in Slots(g) /\ v \in Slots(h)
  BY DEF Paired
<1> HIDE DEF R
<1>3. ASSUME NEW u, NEW v, NEW b \in Byte, Paired(R, u, v), <<NodeIn(g, u), b>> \in Slots(g)
      PROVE  Paired(R, <<NodeIn(g, u), b>>, <<NodeIn(h, v), b>>)
  <2> DEFINE n == NodeIn(h, s)
             m == NodeIn(g, s)
             v1 == <<NodeIn(h, v), b>>
             u1 == <<NodeIn(g, u), b>>
  <2>1. Mirrors(h, g, s, v, u) /\ v \in Slots(h) /\ u1 \in Slots(g)
    BY <1>1, <1>2, <1>3
  <2>2. /\ m \notin DOMAIN h /\ m # NoNode
        /\ \A x \in Slots(h) : x # s => At(g, x) = At(h, x)
        /\ At(g, s).val = At(h, s).val
        /\ \A x \in Slots(g) : x \notin Slots(h) => x[1] = m
        /\ <<m, b>> \in Slots(g) <=> <<n, b>> \in Slots(h)
        /\ <<n, b>> \in Slots(h) => At(g, <<m, b>>) = At(h, <<n, b>>)
    BY DEF Grown
  <2>3. NodeIn(h, v) \in DOMAIN h \/ NodeIn(h, v) = NoNode
    BY <2>1, HeapFacts
  <2>4. CASE NodeIn(g, u) = NodeIn(h, v)
    <3>1. v1 = u1 /\ u1[1] # m
      BY <2>2, <2>3, <2>4
    <3> HIDE DEF u1, v1, m, n
    <3>2. v1 \in Slots(h)
      BY <2>1, <2>2, <3>1
    <3>3. Mirrors(h, g, s, v1, u1)
      <4>1. CASE v1 = s
        BY <2>1, <2>2, <3>1, <3>2, <4>1 DEF Mirrors, ValIn
      <4>2. CASE v1 # s
        <5>1. At(g, u1) = At(h, v1)
          BY <2>2, <3>1, <3>2, <4>2
        <5> QED BY <2>1, <3>2, <5>1 DEF Mirrors, NodeIn, ValIn
      <4> QED BY <4>1, <4>2
    <3> QED BY <1>1, <3>3 DEF u1, v1
  <2>5. CASE NodeIn(g, u) = m /\ NodeIn(h, v) = n
    <3>1. v1 = <<n, b>> /\ u1 = <<m, b>>
      BY <2>5
    <3>2. v1 \in Slots(h) /\ At(g, u1) = At(h, v1)
      BY <2>1, <2>2, <3>1
    <3> HIDE DEF u1, v1, m, n
    <3>3. Mirrors(h, g, s, v1, u1)
      BY <2>1, <3>2 DEF Mirrors, NodeIn, ValIn
    <3> QED BY <1>1, <3>3 DEF u1, v1
  <2> QED BY <2>1, <2>4, <2>5 DEF Mirrors
<1>4. ASSUME NEW t \in Slots(h)
      PROVE  Paired(R, t, t)
  <2>1. t \in Slots(g)
    BY DEF Grown
  <2>2. Mirrors(h, g, s, t, t)
    <3>1. CASE t = s
      BY <2>1, <3>1 DEF Mirrors, Grown, ValIn
    <3>2. CASE t # s
      <4>1. At(g, t) = At(h, t)
        BY <3>2 DEF Grown
      <4> QED BY <2>1, <4>1 DEF Mirrors, NodeIn, ValIn
    <3> QED BY <3>1, <3>2
  <2> QED BY <1>1, <2>2
<1>5. ASSUME NEW o, NEW p \in Seq(Byte), NEW b \in Byte, Leads(g, o, p, b)
      PROVE  Leads(h, o, p, b)
  <2> DEFINE t == <<Roots, o>>
  <2>1. t \in Slots(h)
    BY <1>5, GrownValues DEF Leads, SameValues, SameOwners
  <2>2. On(g, CellBelow(g, At(g, t), p), b)
    BY <1>5 DEF Leads
  <2> HIDE DEF t
  <2>3. Paired(R, t, t)
    BY <1>4, <2>1
  <2>4. On(h, CellBelow(h, At(h, t), p), b)
    BY <1>2, <1>3, <2>2, <2>3, Simulated
  <2> QED BY <2>1, <2>4 DEF Leads, t
<1> QED BY <1>5 DEF Adds

\* What brings no path brings none but the beginnings of some.
LEMMA AddsNothing ==
    ASSUME NEW h, NEW g, Adds(h, g, <<>>), NEW a
    PROVE  Adds(h, g, a)
<1>1. ASSUME NEW o, NEW p \in Seq(Byte), NEW b \in Byte, Leads(g, o, p, b)
      PROVE  Leads(h, o, p, b)
  <2>1. Leads(h, o, p, b) \/ (o = "map" /\ Begins(Append(p, b), <<>>))
    BY <1>1 DEF Adds
  <2>2. Len(Append(p, b)) = Len(p) + 1 /\ Len(p) \in Nat
    OBVIOUS
  <2>3. Len(<<>>) = 0
    OBVIOUS
  <2>4. ~Begins(Append(p, b), <<>>)
    BY <2>2, <2>3 DEF Begins
  <2> QED BY <2>1, <2>4
<1> QED BY <1>1 DEF Adds

\* A heap brings nothing to itself.
LEMMA AddsSame ==
    ASSUME NEW h, NEW a
    PROVE  Adds(h, h, a)
BY DEF Adds

\* Slots are taken out, or made to lead nowhere.
LEMMA FewerAdds ==
    ASSUME NEW h, HeapOK(h), NEW g, HeapOK(g),
           \A t \in Slots(g) : /\ t \in Slots(h)
                               /\ NodeIn(g, t) = NodeIn(h, t) \/ \A b : <<NodeIn(g, t), b>> \notin Slots(g)
    PROVE  Adds(h, g, <<>>)
<1> DEFINE U == Slots(g)
<1>1. \A t \in U : t \in Slots(h) /\ t \in Slots(g)
  OBVIOUS
<1>2. \A t \in U : \A b \in Byte : <<NodeIn(g, t), b>> \in Slots(g)
         => NodeIn(g, t) = NodeIn(h, t) /\ <<NodeIn(g, t), b>> \in U
  OBVIOUS
<1>3. \A t \in Slots(g) : t \in U
  OBVIOUS
<1> HIDE DEF U
<1>4. ASSUME NEW o, NEW p \in Seq(Byte), NEW b \in Byte, Leads(g, o, p, b)
      PROVE  Leads(h, o, p, b)
  <2> DEFINE s == <<Roots, o>>
  <2>1. s \in Slots(g) /\ On(g, CellBelow(g, At(g, s), p), b)
    BY <1>4 DEF Leads
  <2> HIDE DEF s
  <2>2. On(h, CellBelow(h, At(h, s), p), b)
    BY <1>1, <1>2, <1>3, <2>1, Within
  <2> QED BY <1>1, <1>3, <2>1, <2>2 DEF Leads, s
<1> QED BY <1>4 DEF Adds

\* make_mut and prepare_cf bring no path.
LEMMA MakeMutAdds ==
    ASSUME NEW h, HeapOK(h), NEW s \in Slots(h)
    PROVE  Adds(h, MakeMut(h, s), <<>>) /\ Adds(h, EnsureNode(h, s), <<>>)
<1>1. HeapOK(MakeMut(h, s)) /\ (MakeMut(h, s) = h \/ Grown(h, MakeMut(h, s), s))
  BY MakeMutFacts
<1>2. EnsureNode(h, s) = h \/ EnsureNode(h, s) = MakeMut(h, s)
  BY EnsureNodeFacts
<1>3. Adds(h, MakeMut(h, s), <<>>)
  BY <1>1, AddsSame, GrownAdds
<1> QED BY <1>2, <1>3, AddsSame

\* From a slot off a chain nothing leads back to it.
LEMMA OffBelow ==
    ASSUME NEW h, HeapOK(h), NEW a \in Seq(Byte), NEW c, Chain(h, a, c),
           NEW s \in Slots(h), OffChain(c, Len(a), s), NEW r \in Seq(Byte)
    PROVE  \/ CellBelow(h, At(h, s), r) = NoCell
           \/ \E t \in Slots(h) : OffChain(c, Len(a), t) /\ CellBelow(h, At(h, s), r) = At(h, t)
<1> DEFINE U == {t \in Slots(h) : OffChain(c, Len(a), t)}
<1>1. ASSUME NEW t \in U, NEW b \in Byte
      PROVE  OffChain(c, Len(a), <<NodeIn(h, t), b>>)
  <2>1. t \in Slots(h) /\ \A k \in 0..(Len(a) - 1) : t # Stop(c, k)
    BY OffLess DEF OffChain
  <2> QED BY <2>1, StepOff
<1>2. s \in U /\ \A t : t \in U <=> t \in Slots(h) /\ OffChain(c, Len(a), t)
  OBVIOUS
<1> HIDE DEF U
<1>3. CellBelow(h, At(h, s), r) = NoCell \/ \E t \in U : CellBelow(h, At(h, s), r) = At(h, t)
  BY <1>1, <1>2, LookupAgrees
<1> QED BY <1>2, <1>3

\* There is one way to a node to which nothing leads but the end of a chain.
LEMMA OnlyWay ==
    ASSUME NEW h, HeapOK(h), NEW a \in Seq(Byte), NEW c, Chain(h, a, c),
           NEW s, s = Stop(c, Len(a)), Sole(h, s), NodeIn(h, s) # NoNode,
           NEW o, <<Roots, o>> \in Slots(h), NEW p \in Seq(Byte),
           CellBelow(h, At(h, <<Roots, o>>), p).rec = NodeIn(h, s)
    PROVE  o = "map" /\ p = a
<1>1. ASSUME NEW t \in Slots(h), OffChain(c, Len(a), t), NodeIn(h, t) = NodeIn(h, s)
      PROVE  FALSE
  <2>1. t = s
    BY <1>1 DEF Sole
  <2>2. Len(a) \in 0..Len(a)
    OBVIOUS
  <2> QED BY <1>1, <2>1, <2>2 DEF OffChain
<1>2. NoCell.rec = NoNode
  BY DEF NoCell
<1>3. o = "map"
  <2>1. SUFFICES ASSUME o # "map" PROVE FALSE
    OBVIOUS
  <2> DEFINE d == <<Roots, o>>
  <2>2. d \in Slots(h) /\ OffChain(c, Len(a), d)
    BY <2>1, RootOff
  <2>3. CellBelow(h, At(h, d), p).rec = NodeIn(h, s)
    OBVIOUS
  <2> HIDE DEF d
  <2>4. \/ CellBelow(h, At(h, d), p) = NoCell
        \/ \E t \in Slots(h) : OffChain(c, Len(a), t) /\ CellBelow(h, At(h, d), p) = At(h, t)
    BY <2>2, OffBelow
  <2> QED BY <1>1, <1>2, <2>3, <2>4 DEF NodeIn
<1>4. p = a
  <2> DEFINE x == CellBelow(h, At(h, HeadSlot), p)
  <2>1. x.rec = NodeIn(h, s)
    BY <1>3 DEF HeadSlot
  <2>2. \/ Begins(p, a) /\ x = At(h, Stop(c, Len(p)))
        \/ ~Begins(p, a) /\ x = NoCell
        \/ ~Begins(p, a) /\ \E t \in Slots(h) : OffChain(c, Len(a), t) /\ x = At(h, t)
    BY CellBelowChain
  <2> HIDE DEF x
  <2>3. Begins(p, a) /\ x = At(h, Stop(c, Len(p)))
    BY <1>1, <1>2, <2>1, <2>2 DEF NodeIn
  <2>4. Len(p) \in 0..Len(a) /\ Len(a) \in 0..Len(a)
    BY <2>3 DEF Begins
  <2>5. Stop(c, Len(p)) \in Slots(h) /\ NodeIn(h, Stop(c, Len(p))) = NodeIn(h, s)
    BY <2>1, <2>3, <2>4, ChainFacts DEF NodeIn
  <2>6. Stop(c, Len(p)) = Stop(c, Len(a))
    BY <2>5 DEF Sole
  <2>7. \A i, j \in 0..Len(a) : Stop(c, i) = Stop(c, j) => i = j
    BY ChainFacts
  <2>8. Len(p) = Len(a)
    BY <2>4, <2>6, <2>7
  <2> QED BY <2>3, <2>8, BeginsFacts
<1> QED BY <1>3, <1>4

\* A step down at the end of a chain brings the path it goes.
LEMMA DescendAdds ==
    ASSUME NEW h, HeapOK(h), NEW p \in Seq(Byte), NEW c, Chain(h, p, c),
           NEW s, s = Stop(c, Len(p)), NEW b \in Byte
    PROVE  Adds(h, HeapOf(Descend(h, s, b)), Append(p, b))
<1> DEFINE m == MakeMut(h, s)
           g == HeapOf(Descend(h, s, b))
           t == SlotOf(Descend(h, s, b))
<1>1. s \in Slots(h)
  <2>1. Len(p) \in 0..Len(p)
    OBVIOUS
  <2> QED BY <2>1, ChainFacts
<1>2. /\ HeapOK(g)
      /\ g = m \/ (t \notin Slots(m) /\ g = WithCell(m, t, NoCell))
      /\ t = <<NodeIn(m, s), b>>
  BY <1>1, DescendFacts
<1>3. HeapOK(m) /\ NodeIn(m, s) # NoNode /\ Sole(m, s) /\ Slots(h) \subseteq Slots(m)
  BY <1>1, MakeMutFacts
<1>4. Chain(m, p, c)
  BY <1>1, MakeMutChain
<1>5. Adds(h, m, <<>>)
  BY <1>1, MakeMutAdds
<1> HIDE DEF m, g, t
<1>6. CASE g = m
  BY <1>5, <1>6, AddsNothing DEF g
<1>7. CASE t \notin Slots(m) /\ g = WithCell(m, t, NoCell)
  <2>1. NodeIn(m, s) \in Nodes(m)
    BY <1>1, <1>3, HeapFacts
  <2>2. Named(m, t) /\ t[1] # Roots
    BY <1>2, <2>1 DEF Named, Nodes
  <2>3. NoCell \in CellType(m)
    BY DEF NoCell, CellType
  <2>4. /\ Slots(g) = Slots(m) \cup {t} /\ At(g, t) = NoCell
        /\ \A u \in Slots(m) : At(g, u) = At(m, u)
    BY <1>3, <1>7, <2>2, <2>3, WithCellFacts
  <2>5. ASSUME NEW u \in Slots(m), NEW r \in Seq(Byte)
        PROVE  CellBelow(g, At(g, u), r) = CellBelow(m, At(m, u), r)
    BY <1>2, <1>3, <1>7, <2>4, BlankSlot
  <2>6. ASSUME NEW o, NEW q \in Seq(Byte), NEW e \in Byte, Leads(g, o, q, e)
        PROVE  Leads(h, o, q, e) \/ (o = "map" /\ Begins(Append(q, e), Append(p, b)))
    <3> DEFINE d == <<Roots, o>>
               x == CellBelow(m, At(m, d), q)
    <3>1. d # t
      BY <2>2
    <3>2. d \in Slots(g) /\ On(g, CellBelow(g, At(g, d), q), e)
      BY <2>6 DEF Leads
    <3>3. d \in Slots(m)
      BY <2>4, <3>1, <3>2
    <3>4. On(g, x, e)
      BY <2>5, <3>2, <3>3
    <3>5. CASE <<x.rec, e>> \in Slots(m)
      <4>1. Leads(m, o, q, e)
        BY <3>3, <3>5 DEF Leads, On
      <4> QED BY <1>5, <4>1, AddsNothing DEF Adds
    <3>6. CASE <<x.rec, e>> = t
      <4>1. x.rec = NodeIn(m, s) /\ e = b
        BY <1>2, <3>6
      <4>2. o = "map" /\ q = p
        BY <1>3, <1>4, <3>3, <4>1, OnlyWay
      <4>3. Append(q, e) = Append(p, b) /\ Append(p, b) \in Seq(Byte)
        BY <4>1, <4>2
      <4>4. Begins(Append(p, b), Append(p, b))
        BY <4>3 DEF Begins
      <4> QED BY <4>2, <4>3, <4>4
    <3> QED BY <2>4, <3>4, <3>5, <3>6 DEF On
  <2> QED BY <2>6 DEF Adds, g
<1> QED BY <1>2, <1>6, <1>7

\* A walk from the end of a chain brings the path it goes.
LEMMA WalkAdds ==
    ASSUME NEW h, HeapOK(h), NEW p \in Seq(Byte), NEW c, Chain(h, p, c),
           NEW s, s = Stop(c, Len(p)), NEW r \in Seq(Byte)
    PROVE  Adds(h, HeapOf(Walk(h, s, r)), p \o r)
<1> DEFINE S == {q \in Seq(Byte) : Adds(h, HeapOf(Walk(h, s, q)), p \o q)}
<1>0. s \in Slots(h)
  <2>1. Len(p) \in 0..Len(p)
    OBVIOUS
  <2> QED BY <2>1, ChainFacts
<1>1. <<>> \in S
  <2>1. HeapOf(Walk(h, s, <<>>)) = h
    BY WalkEmpty
  <2>2. Adds(h, HeapOf(Walk(h, s, <<>>)), p \o <<>>)
    BY <2>1, AddsSame
  <2> QED BY <2>2
<1>2. ASSUME NEW q \in Seq(Byte), q \in S, NEW b \in Byte
      PROVE  Append(q, b) \in S
  <2>0. \E d : /\ Chain(HeapOf(Walk(h, s, q)), p \o q, d)
              /\ \A k \in 0..Len(p) : Stop(d, k) = Stop(c, k)
              /\ Stop(d, Len(p \o q)) = SlotOf(Walk(h, s, q))
    <3> HIDE DEF S
    <3> QED BY <1>0, WalkOwn
  <2> DEFINE w == Walk(h, s, q)
             v == Walk(h, s, Append(q, b))
             a == p \o q
  <2>1. HeapOK(HeapOf(w)) /\ SlotOf(w) \in Slots(HeapOf(w))
    BY <1>0, WalkFacts
  <2>2. PICK d : Chain(HeapOf(w), a, d) /\ Stop(d, Len(a)) = SlotOf(w)
    BY <2>0
  <2>3. v = Descend(HeapOf(w), SlotOf(w), b)
    BY WalkAppend
  <2>4. Adds(h, HeapOf(w), a)
    BY <1>2
  <2>5. a \in Seq(Byte) /\ p \o Append(q, b) = Append(a, b)
    BY ConcatFacts
  <2>6. Append(a, b) \in Seq(Byte) /\ Append(q, b) \in Seq(Byte)
    BY <2>5
  <2>7. Begins(a, Append(a, b))
    BY <2>5, <2>6 DEF Begins
  <2> HIDE DEF w, v, a
  <2>8. Adds(HeapOf(w), HeapOf(v), Append(a, b))
    BY <2>1, <2>2, <2>3, <2>5, DescendAdds
  <2>9. Adds(h, HeapOf(v), Append(a, b))
    BY <2>4, <2>5, <2>6, <2>7, <2>8, AddsTrans
  <2> QED BY <2>5, <2>6, <2>9 DEF v
<1> HIDE DEF S
<1>3. r \in S
  BY <1>1, <1>2, PathInduction
<1> QED BY <1>3 DEF S

\* Preparing a path brings that path.
LEMMA PrepareAdds ==
    ASSUME NEW h, HeapOK(h), focus \in Seq(Byte), NEW p \in Seq(Byte)
    PROVE  Adds(h, HeapOf(Prepare(h, p)), focus \o p)
<1>1. PICK f, m, w : /\ f = Walk(h, HeadSlot, focus)
                     /\ m = MakeMut(HeapOf(f), SlotOf(f))
                     /\ w = Walk(m, SlotOf(f), p)
                     /\ HeapOK(HeapOf(f)) /\ SlotOf(f) \in Slots(HeapOf(f))
                     /\ HeapOK(m) /\ SlotOf(f) \in Slots(m)
                     /\ HeapOK(HeapOf(w)) /\ SlotOf(w) \in Slots(HeapOf(w))
                     /\ Slots(h) \subseteq Slots(HeapOf(w))
                     /\ SlotOf(Prepare(h, p)) = SlotOf(w)
                     /\ HeapOf(Prepare(h, p)) = EnsureNode(HeapOf(w), SlotOf(w))
  BY PrepareParts
<1> DEFINE a == focus \o p
           r == focus
           t == HeadSlot
           q == <<>>
<1>2. PICK c0 : Chain(h, q, c0) /\ Stop(c0, Len(q)) = t
  BY FirstStop
<1>3. q \in Seq(Byte) /\ q \o r = r /\ r \in Seq(Byte) /\ t \in Slots(h) /\ f = Walk(h, t, r)
  BY <1>1, HeapFacts, ConcatFacts
<1>4. a \in Seq(Byte) /\ a = r \o p /\ Begins(r, a)
  BY ConcatFacts
<1> HIDE DEF a, q, r, t
<1>5. \E c : /\ Chain(HeapOf(Walk(h, t, r)), q \o r, c)
             /\ \A k \in 0..Len(q) : Stop(c, k) = Stop(c0, k)
             /\ Stop(c, Len(q \o r)) = SlotOf(Walk(h, t, r))
  <2>1. q \in Seq(Byte) /\ r \in Seq(Byte) /\ t \in Slots(h)
    BY <1>3
  <2> QED BY <1>2, <2>1, WalkOwn
<1>6. PICK c : Chain(HeapOf(f), r, c) /\ Stop(c, Len(r)) = SlotOf(f)
  BY <1>3, <1>5
<1>7. Adds(h, HeapOf(f), r)
  <2>1. Adds(h, HeapOf(Walk(h, t, r)), q \o r)
    BY <1>2, <1>3, WalkAdds
  <2> QED BY <1>3, <2>1
<1>8. Adds(HeapOf(f), m, <<>>)
  BY <1>1, MakeMutAdds
<1>9. Chain(m, r, c)
  BY <1>1, <1>3, <1>6, MakeMutChain
<1>10. Adds(m, HeapOf(w), a)
  <2>1. Adds(m, HeapOf(Walk(m, SlotOf(f), p)), r \o p)
    BY <1>1, <1>3, <1>6, <1>9, WalkAdds
  <2> QED BY <1>1, <1>4, <2>1
<1>11. Adds(HeapOf(w), HeapOf(Prepare(h, p)), <<>>)
  BY <1>1, MakeMutAdds
<1>12. Begins(a, a) /\ Begins(r, r)
  BY <1>3, <1>4 DEF Begins
<1>13. Adds(h, m, r)
  BY <1>3, <1>7, <1>8, <1>12, AddsNothing, AddsTrans
<1>14. Adds(h, HeapOf(w), a)
  BY <1>3, <1>4, <1>10, <1>13, AddsTrans
<1>15. Adds(h, HeapOf(Prepare(h, p)), a)
  BY <1>4, <1>11, <1>12, <1>14, AddsNothing, AddsTrans
<1> QED BY <1>15 DEF a

\* A head of the root that splits there brings no path.
LEMMA SplitAdds ==
    ASSUME NEW h, HeapOK(h), focus = <<>>
    PROVE  Adds(h, SplitAtFocus(h), <<>>)
<1> DEFINE f == Walk(h, HeadSlot, focus)
<1>1. SplitAtFocus(h) = h \/ SplitAtFocus(h) = EnsureNode(HeapOf(f), SlotOf(f))
  BY DEF SplitAtFocus, HeapOf, SlotOf
<1>2. HeapOf(f) = h /\ SlotOf(f) = HeadSlot
  BY WalkEmpty
<1>3. HeadSlot \in Slots(h)
  BY HeapFacts
<1> HIDE DEF f
<1> QED BY <1>1, <1>2, <1>3, AddsSame, MakeMutAdds

\* Settling brings no path.
LEMMA SettledAdds ==
    ASSUME NEW h, HeapOK(h), NEW g, Settled(h, g)
    PROVE  Adds(h, g, <<>>)
<1>1. HeapOK(g)
  BY SettledOK
<1>2. ASSUME NEW o, NEW p \in Seq(Byte), NEW b \in Byte, Leads(g, o, p, b)
      PROVE  Leads(h, o, p, b)
  <2> DEFINE r == <<Roots, o>>
  <2>1. r \in Slots(g) /\ On(g, CellBelow(g, At(g, r), p), b)
    BY <1>2 DEF Leads
  <2>2. r[1] = Roots /\ r[2] = o
    OBVIOUS
  <2> HIDE DEF r
  <2>3. r \in Slots(h)
    <3>1. PICK s : Live(h, s) /\ r = Moved(h, s)
      BY <2>1, SettledSlots
    <3>2. s \in Slots(h) /\ NewName(h, s[1]) = Roots
      BY <2>2, <3>1 DEF Live, Moved
    <3>3. s[1] \in DOMAIN h /\ Roots \in DOMAIN h /\ NewName(h, Roots) = Roots /\ Roots # NoNode
      BY <3>2, HeapFacts, NewNameFacts DEF Named
    <3>4. s[1] = Roots
      BY <3>2, <3>3, NewNameFacts
    <3>5. Moved(h, s) = s
      BY <3>2, <3>4, SettledSlots
    <3> QED BY <3>1, <3>2, <3>5
  <2> DEFINE x == CellBelow(h, At(h, r), p)
             y == CellBelow(g, At(g, r), p)
  <2>4. y = NoCell \/ y = Renamed(h, x)
    BY <2>3, SettledBelow DEF r
  <2>5. x = NoCell \/ \E t \in Slots(h) : x = At(h, t)
    BY <2>3, CellBelowSlot
  <2> HIDE DEF x, y
  <2>6. x \in CellType(h)
    <3>1. NoCell \in CellType(h)
      BY DEF NoCell, CellType
    <3> QED BY <2>5, <3>1, HeapFacts
  <2>7. <<y.rec, b>> \in Slots(g)
    BY <2>1 DEF On, y
  <2>8. y.rec # NoNode
    <3>1. y.rec \in DOMAIN g /\ NoNode \notin DOMAIN g
      BY <1>1, <2>7, SlotsDef, HeapFacts
    <3> QED BY <3>1
  <2>9. y.rec = NewName(h, x.rec)
    <3>1. NoCell.rec = NoNode
      BY DEF NoCell
    <3> QED BY <2>4, <2>6, <2>8, <3>1, RenamedFacts
  <2>10. x.rec \in DOMAIN h
    <3>1. x.rec \in Nodes(h) \cup {NoNode}
      BY <2>6 DEF CellType
    <3> QED BY <2>8, <2>9, <3>1, NewNameFacts DEF Nodes
  <2>11. PICK s : Live(h, s) /\ <<y.rec, b>> = Moved(h, s)
    BY <2>7, SettledSlots
  <2>12. NewName(h, s[1]) = y.rec /\ s[2] = b /\ s \in Slots(h)
    BY <2>11 DEF Moved, Live
  <2>13. s[1] \in DOMAIN h /\ s = <<s[1], s[2]>>
    BY <2>12, SlotsDef
  <2>14. s[1] = x.rec
    BY <2>8, <2>9, <2>10, <2>12, <2>13, NewNameFacts
  <2>15. <<x.rec, b>> \in Slots(h)
    BY <2>12, <2>13, <2>14
  <2> QED BY <2>3, <2>15 DEF Leads, On, x, r
<1> QED BY <1>2 DEF Adds

\* The end of a step.
LEMMA SettleAdds ==
    ASSUME NEW h, NEW g, HeapOK(g), NEW a \in Seq(Byte), Adds(h, g, a), NEW z, Settle(g, z),
           NEW k, k = heap'
    PROVE  Adds(h, k, a)
<1>1. Settled(g, k)
  BY SettleFacts
<1>2. Adds(g, k, a)
  BY <1>1, SettledAdds, AddsNothing
<1>3. Begins(a, a)
  BY DEF Begins
<1> QED BY <1>2, <1>3, AddsTrans

\* An owner other than the head is given a cell: it has the paths below that cell, the others
\* have theirs.
LEMMA RootAdds ==
    ASSUME NEW h, HeapOK(h), NEW i \in Owner, i # "map", NEW d \in CellType(h),
           d.rec = NoNode \/ \E t \in Slots(h) : t # <<Roots, i>> /\ d.rec = NodeIn(h, t),
           NEW g, g = WithCell(h, <<Roots, i>>, d),
           NEW o, NEW p \in Seq(Byte), NEW b \in Byte, Leads(g, o, p, b)
    PROVE  /\ o # i => Leads(h, o, p, b)
           /\ o = i => On(h, CellBelow(h, d, p), b)
<1> DEFINE s == <<Roots, i>>
           e == <<Roots, o>>
<1>1. s[1] = Roots /\ Named(h, s)
  BY HeapFacts DEF Named
<1>2. (e = s <=> o = i) /\ e \in Slots(g) /\ On(g, CellBelow(g, At(g, e), p), b)
  BY DEF Leads
<1> HIDE DEF s
<1>3. /\ HeapOK(g) /\ Slots(g) = Slots(h) \cup {s} /\ At(g, s) = d
      /\ \A t \in Slots(h) : t # s => At(g, t) = At(h, t)
  BY <1>1, WithCellFacts DEF s
<1>4. Slots(g) \ {s} = Slots(h) \ {s}
  BY <1>3
<1>5. ASSUME NEW t \in Slots(h), t # s, NEW r \in Seq(Byte)
      PROVE  /\ CellBelow(g, At(g, t), r) = CellBelow(h, At(h, t), r)
             /\ CellBelow(h, At(h, t), r) = NoCell
                \/ \E u \in Slots(h) : u # s /\ CellBelow(h, At(h, t), r) = At(h, u)
  <2>1. s[1] = Roots /\ HeapOK(g)
    BY <1>1, <1>3
  <2>2. \A u \in Slots(h) : u # s => At(g, u) = At(h, u)
    BY <1>3
  <2> QED BY <1>4, <1>5, <2>1, <2>2, RootApart
<1>6. ASSUME NEW x, x.rec # Roots, On(g, x, b)
      PROVE  On(h, x, b)
  <2>1. <<x.rec, b>> \in Slots(g) /\ <<x.rec, b>> # s
    BY <1>1, <1>6 DEF On
  <2> QED BY <1>3, <2>1 DEF On
<1>7. NoCell.rec # Roots /\ NoCell.rec = NoNode
  BY HeapFacts DEF NoCell
<1>8. ASSUME NEW t \in Slots(h), t # s, On(g, CellBelow(g, At(g, t), p), b)
      PROVE  On(h, CellBelow(h, At(h, t), p), b)
  <2> DEFINE x == CellBelow(h, At(h, t), p)
  <2>1. CellBelow(g, At(g, t), p) = x
    BY <1>5, <1>8
  <2>2. x = NoCell \/ \E u \in Slots(h) : x = At(h, u)
    BY <1>5, <1>8
  <2> HIDE DEF x
  <2>3. x.rec # Roots
    BY <1>7, <2>2, HeapFacts DEF NodeIn
  <2> QED BY <1>6, <1>8, <2>1, <2>3 DEF x
<1>9. ASSUME o # i
      PROVE  Leads(h, o, p, b)
  <2>1. e \in Slots(h) /\ e # s
    BY <1>2, <1>3, <1>9
  <2> HIDE DEF e
  <2>2. On(h, CellBelow(h, At(h, e), p), b)
    BY <1>2, <1>8, <2>1
  <2> QED BY <2>1, <2>2 DEF Leads, e
<1>10. ASSUME o = i
       PROVE  On(h, CellBelow(h, d, p), b)
  <2>1. On(g, CellBelow(g, d, p), b)
    BY <1>2, <1>3, <1>10
  <2>2. CASE p = <<>>
    <3>1. CellBelow(g, d, p) = d /\ CellBelow(h, d, p) = d
      BY <2>2, CellBelowEmpty
    <3>2. d.rec # Roots
      BY <1>7 DEF CellType, Nodes
    <3> QED BY <1>6, <2>1, <3>1, <3>2
  <2>3. CASE p # <<>> /\ d.rec = NoNode
    <3>1. d.rec = NoCell.rec
      BY <1>7, <2>3
    <3>2. CellBelow(g, d, p) = CellBelow(g, NoCell, p) /\ CellBelow(h, d, p) = CellBelow(h, NoCell, p)
      BY <2>3, <3>1, CellBelowNode
    <3>3. CellBelow(g, d, p) = NoCell /\ CellBelow(h, d, p) = NoCell
      BY <1>3, <3>2, NoCellBelow
    <3> QED BY <1>6, <1>7, <2>1, <3>3
  <2>4. CASE p # <<>> /\ d.rec # NoNode
    <3>1. PICK t \in Slots(h) : t # s /\ d.rec = NodeIn(h, t)
      BY <2>4 DEF s
    <3> DEFINE x == At(h, t)
    <3>2. At(g, t) = x /\ x.rec = d.rec
      BY <1>3, <3>1 DEF NodeIn
    <3> HIDE DEF x
    <3>3. CellBelow(g, d, p) = CellBelow(g, x, p) /\ CellBelow(h, d, p) = CellBelow(h, x, p)
      BY <2>4, <3>2, CellBelowNode
    <3>4. On(g, CellBelow(g, At(g, t), p), b)
      BY <2>1, <3>2, <3>3
    <3>5. On(h, CellBelow(h, At(h, t), p), b)
      BY <1>8, <3>1, <3>4
    <3> QED BY <3>3, <3>5 DEF x
  <2> QED BY <2>2, <2>3, <2>4
<1> QED BY <1>9, <1>10

\* After the cell at the end of a chain is taken out, nothing is there.
LEMMA CutLeads ==
    ASSUME NEW h, HeapOK(h), NEW a \in Seq(Byte), a # <<>>, NEW c, Chain(h, a, c),
           NEW g, g = WithoutCell(h, Stop(c, Len(a))),
           NEW p \in Seq(Byte), NEW b \in Byte, Begins(a, Append(p, b))
    PROVE  ~Leads(g, "map", p, b)
<1> DEFINE s == Stop(c, Len(a))
           n == Len(a) - 1
           f == SubSeq(a, 1, n)
           e == a[Len(a)]
           t == Stop(c, n)
<1>1. n \in 0..Len(a) /\ Len(a) \in 1..Len(a) /\ Len(a) \in Nat /\ n + 1 = Len(a) /\ e \in Byte
  OBVIOUS
<1>2. f \in Seq(Byte) /\ Len(f) = n /\ Begins(f, a) /\ \A k \in 1..n : f[k] = a[k]
  BY <1>1, Beginning
<1>3. Begins(Append(f, e), a)
  <2>1. Len(f) < Len(a) /\ e = a[Len(f) + 1]
    BY <1>1, <1>2
  <2> HIDE DEF f, e
  <2> QED BY <1>1, <1>2, <2>1, BeginsFacts
<1>4. a = Append(f, e)
  <2>1. Append(f, e) \in Seq(Byte) /\ Len(Append(f, e)) = Len(a)
    BY <1>1, <1>2
  <2> QED BY <1>3, <2>1, BeginsFacts
<1>5. s \in Slots(h) /\ s # HeadSlot /\ s = <<NodeIn(h, t), e>> /\ t \in Slots(h)
  <2>1. Len(a) \in 0..Len(a) /\ Len(a) # 0
    BY <1>1
  <2>2. s \in Slots(h) /\ s[1] # Roots /\ t \in Slots(h)
    BY <1>1, <2>1, ChainFacts
  <2>3. s = <<NodeIn(h, Stop(c, Len(a) - 1)), a[Len(a)]>>
    BY <1>1, ChainFacts
  <2> QED BY <2>2, <2>3, HeapFacts
<1>6. OffChain(c, n, s)
  <2>1. OffChain(c, Len(a) - 1, Stop(c, Len(a)))
    BY OffLess
  <2> QED BY <2>1
<1> HIDE DEF f, e, n, s
<1>7. Chain(h, f, c)
  BY <1>2, ChainPrefix
<1>8. g = WithoutCell(h, s)
  BY DEF s
<1>9. Chain(g, f, c) /\ \A u \in Slots(h) : u # s => NodeIn(g, u) = NodeIn(h, u)
  <2>1. OffChain(c, Len(f), s)
    BY <1>2, <1>6
  <2>2. f \in Seq(Byte) /\ s \in Slots(h) /\ s # HeadSlot
    BY <1>2, <1>5
  <2>3. Chain(WithoutCell(h, s), f, c) /\ \A u \in Slots(h) : u # s => NodeIn(WithoutCell(h, s), u) = NodeIn(h, u)
    BY <1>7, <2>1, <2>2, ChainCut
  <2> QED BY <1>8, <2>3
<1>10. HeapOK(g) /\ s \notin Slots(g) /\ HeadSlot \in Slots(g)
  <2>1. HeapOK(g) /\ Slots(g) = Slots(h) \ {s}
    BY <1>5, <1>8, WithoutCellFacts
  <2> QED BY <2>1, HeapFacts
<1>11. t \in Slots(g) /\ NodeIn(g, t) = NodeIn(h, t)
  <2>1. Len(f) \in 0..Len(f)
    BY <1>1, <1>2
  <2>2. t \in Slots(g)
    BY <1>2, <1>9, <1>10, <2>1, ChainFacts
  <2> QED BY <1>5, <1>9, <1>10, <2>2
<1>12. CellBelow(g, At(g, HeadSlot), f) = At(g, t)
  <2>1. Begins(f, f)
    BY <1>2 DEF Begins
  <2>2. CellBelow(g, At(g, HeadSlot), f) = At(g, Stop(c, Len(f)))
    BY <1>2, <1>9, <1>10, <2>1, CellBelowChain
  <2> QED BY <1>2, <2>2
<1>13. CellBelow(g, At(g, HeadSlot), a) = NoCell
  <2>1. CellBelow(g, At(g, HeadSlot), Append(f, e)) = Below(g, At(g, t), e)
    BY <1>1, <1>2, <1>12, CellBelowAppend
  <2>2. <<NodeIn(g, t), e>> \notin Slots(g)
    BY <1>5, <1>10, <1>11
  <2>3. Below(g, At(g, t), e) = NoCell
    BY <1>10, <1>11, <2>2, BelowSlot
  <2> QED BY <1>4, <2>1, <2>3
<1>14. ASSUME Leads(g, "map", p, b)
       PROVE  FALSE
  <2>1. On(g, CellBelow(g, At(g, HeadSlot), p), b)
    BY <1>14 DEF Leads, HeadSlot
  <2>2. Len(Append(p, b)) = Len(p) + 1 /\ Len(p) \in Nat /\ Append(p, b)[Len(p) + 1] = b
        /\ \A k \in 1..Len(p) : Append(p, b)[k] = p[k]
    OBVIOUS
  <2>3. CASE Len(a) = Len(p) + 1
    <3>1. Len(p) = n /\ \A k \in 1..n : p[k] = a[k]
      BY <1>1, <2>2, <2>3 DEF Begins, n
    <3>2. p = f
      <4>1. Begins(p, f) /\ Len(p) = Len(f)
        BY <1>2, <3>1 DEF Begins
      <4> QED BY <1>2, <4>1, BeginsFacts
    <3>3. b = e
      BY <1>1, <2>2, <2>3 DEF Begins, e
    <3>4. <<NodeIn(g, t), e>> \in Slots(g)
      BY <1>12, <2>1, <3>2, <3>3 DEF On, NodeIn
    <3> QED BY <1>5, <1>10, <1>11, <3>4
  <2>4. CASE Len(a) <= Len(p)
    <3>1. Begins(a, p)
      <4>1. \A k \in 1..Len(a) : k \in 1..Len(p)
        BY <1>1, <2>2, <2>4
      <4> QED BY <2>2, <2>4, <4>1 DEF Begins
    <3>2. PICK r \in Seq(Byte) : p = a \o r
      BY <3>1, BeginsRest
    <3>3. CellBelow(g, At(g, HeadSlot), p) = CellBelow(g, NoCell, r)
      BY <1>13, <3>2, CellBelowConcat
    <3>4. On(g, NoCell, b)
      BY <1>10, <2>1, <3>3, NoCellBelow
    <3>5. <<NoNode, b>> \in Slots(g)
      BY <3>4 DEF On, NoCell
    <3> QED BY <1>10, <3>5, SlotsDef, HeapFacts
  <2> QED BY <1>1, <2>2, <2>3, <2>4 DEF Begins
<1> QED BY <1>14

\* Path p goes by a, and then leads on as the paths below x do.
Onward(h, a, x, p, b) == \E r \in Seq(Byte) : p = a \o r /\ On(h, CellBelow(h, x, r), b)

\* The cell at the end of a chain is written: below it are the paths of the new cell, all other
\* paths were there before.
LEMMA WriteLeads ==
    ASSUME NEW h, HeapOK(h), NEW a \in Seq(Byte), NEW c, Chain(h, a, c), NEW d \in CellType(h),
           \A k \in 0..(Len(a) - 1) : d.rec # NodeIn(h, Stop(c, k)),
           NEW g, g = WithCell(h, Stop(c, Len(a)), d),
           NEW o, NEW p \in Seq(Byte), NEW b \in Byte, Leads(g, o, p, b)
    PROVE  \/ Leads(h, o, p, b) /\ (o = "map" => ~Begins(a, p))
           \/ o = "map" /\ Onward(h, a, d, p, b)
<1> DEFINE s == Stop(c, Len(a))
<1>1. s \in Slots(h) /\ Named(h, s) /\ Len(a) \in Nat
  <2>1. Len(a) \in 0..Len(a)
    OBVIOUS
  <2> QED BY <2>1, HeapFacts DEF Chain
<1>0. g = WithCell(h, s, d)
  OBVIOUS
<1>2. /\ HeapOK(g) /\ Slots(g) = Slots(h)
      /\ \A r \in Seq(Byte) : CellBelow(g, At(g, HeadSlot), a \o r) = CellBelow(h, d, r)
  BY WriteLookup
<1> HIDE DEF s
<1>3. \A t \in Slots(h) : t # s => At(g, t) = At(h, t)
  BY <1>0, <1>1, WithCellFacts
<1>4. CASE o # "map"
  <2> DEFINE U == {t \in Slots(h) : OffChain(c, Len(a), t)}
             e == <<Roots, o>>
  <2>1. \A t \in U : t \in Slots(h) /\ OffChain(c, Len(a), t)
    OBVIOUS
  <2>2. \A t : t \in Slots(h) /\ OffChain(c, Len(a), t) => t \in U
    OBVIOUS
  <2> HIDE DEF U
  <2>3. ASSUME NEW t \in U
        PROVE  t \in Slots(g) /\ At(g, t) = At(h, t) /\ NodeIn(g, t) = NodeIn(h, t)
    <3>1. Len(a) \in 0..Len(a)
      BY <1>1
    <3>2. t \in Slots(h) /\ t # s
      BY <2>1, <3>1 DEF OffChain, s
    <3> QED BY <1>2, <1>3, <3>2 DEF NodeIn
  <2>4. ASSUME NEW t \in U, NEW e1 \in Byte, <<NodeIn(g, t), e1>> \in Slots(g)
        PROVE  NodeIn(g, t) = NodeIn(h, t) /\ <<NodeIn(g, t), e1>> \in U
    <3>1. t \in Slots(h) /\ \A k \in 0..(Len(a) - 1) : t # Stop(c, k)
      BY <2>1, OffLess DEF OffChain
    <3>2. OffChain(c, Len(a), <<NodeIn(h, t), e1>>)
      BY <3>1, StepOff
    <3> QED BY <1>2, <2>2, <2>3, <2>4, <3>2
  <2>5. e \in U
    <3>1. e \in Slots(h)
      BY <1>2 DEF Leads
    <3>2. OffChain(c, Len(a), e)
      BY <1>4, RootOff
    <3> HIDE DEF e
    <3> QED BY <2>2, <3>1, <3>2
  <2>6. On(g, CellBelow(g, At(g, e), p), b)
    BY DEF Leads
  <2> HIDE DEF e
  <2>7. \A t \in U : t \in Slots(h) /\ t \in Slots(g)
    BY <2>1, <2>3
  <2>8. On(h, CellBelow(h, At(h, e), p), b)
    BY <1>2, <2>4, <2>5, <2>6, <2>7, Within
  <2>9. Leads(h, o, p, b)
    BY <2>5, <2>7, <2>8 DEF Leads, e
  <2> QED BY <1>4, <2>9
<1>5. CASE o = "map" /\ Begins(a, p)
  <2>1. PICK r \in Seq(Byte) : p = a \o r
    BY <1>5, BeginsRest
  <2>2. On(g, CellBelow(g, At(g, HeadSlot), p), b)
    BY <1>5 DEF Leads, HeadSlot
  <2>3. CellBelow(g, At(g, HeadSlot), p) = CellBelow(h, d, r)
    BY <1>2, <2>1
  <2>4. On(h, CellBelow(h, d, r), b)
    BY <1>2, <2>2, <2>3 DEF On
  <2> QED BY <1>5, <2>1, <2>4 DEF Onward
<1>6. CASE o = "map" /\ ~Begins(a, p)
  <2> DEFINE X(q) == CellBelow(h, At(h, HeadSlot), q)
             Y(q) == CellBelow(g, At(g, HeadSlot), q)
             Both(q) == Y(q) = NoCell \/ \E t \in Slots(h) : t # s /\ X(q) = At(h, t) /\ Y(q) = At(g, t)
             S == {q \in Seq(Byte) : ~Begins(a, q) => Both(q)}
  <2>0. HeadSlot \in Slots(h)
    BY HeapFacts
  <2>1. <<>> \in S
    <3>1. SUFFICES ASSUME ~Begins(a, <<>>) PROVE Both(<<>>)
      OBVIOUS
    <3>2. X(<<>>) = At(h, HeadSlot) /\ Y(<<>>) = At(g, HeadSlot)
      BY CellBelowEmpty
    <3>3. HeadSlot # s
      <4>1. Len(a) # 0
        BY <3>1 DEF Begins
      <4>2. Len(a) \in 0..Len(a)
        BY <1>1
      <4>3. s[1] # Roots
        BY <4>1, <4>2, ChainFacts DEF s
      <4> QED BY <4>3, HeapFacts
    <3> HIDE DEF X, Y
    <3> QED BY <2>0, <3>2, <3>3
  <2>2. ASSUME NEW q \in Seq(Byte), q \in S, NEW e \in Byte
        PROVE  Append(q, e) \in S
    <3>1. X(Append(q, e)) = Below(h, X(q), e) /\ Y(Append(q, e)) = Below(g, Y(q), e)
          /\ Append(q, e) \in Seq(Byte)
      BY CellBelowAppend
    <3>2. SUFFICES ASSUME ~Begins(a, Append(q, e)) PROVE Both(Append(q, e))
      BY <3>1
    <3>3. ~Begins(a, q)
      <4>1. Len(Append(q, e)) = Len(q) + 1 /\ Len(q) \in Nat /\ \A k \in 1..Len(q) : Append(q, e)[k] = q[k]
        OBVIOUS
      <4>2. SUFFICES ASSUME Begins(a, q) PROVE FALSE
        OBVIOUS
      <4>3. Len(a) <= Len(q) /\ \A k \in 1..Len(a) : k \in 1..Len(q)
        BY <1>1, <4>1, <4>2 DEF Begins
      <4> QED BY <1>1, <3>2, <4>1, <4>2, <4>3 DEF Begins
    <3>4. Both(q)
      BY <2>2, <3>3
    <3>5. CASE Y(q) = NoCell
      <4>1. Y(Append(q, e)) = NoCell
        BY <1>2, <3>1, <3>5, BelowSlot
      <4> QED BY <4>1
    <3>6. CASE Y(q) # NoCell
      <4>1. PICK t \in Slots(h) : t # s /\ X(q) = At(h, t) /\ Y(q) = At(g, t)
        BY <3>4, <3>6
      <4> DEFINE u == <<NodeIn(h, t), e>>
      <4>2. At(g, t) = At(h, t) /\ NodeIn(g, t) = NodeIn(h, t) /\ t \in Slots(g)
        BY <1>2, <1>3, <4>1 DEF NodeIn
      <4>3. X(Append(q, e)) = IF u \in Slots(h) THEN At(h, u) ELSE NoCell
        <5>1. Below(h, At(h, t), e) = IF u \in Slots(h) THEN At(h, u) ELSE NoCell
          BY BelowSlot
        <5> QED BY <3>1, <4>1, <5>1
      <4>4. Y(Append(q, e)) = IF u \in Slots(g) THEN At(g, u) ELSE NoCell
        <5>1. Below(g, At(g, t), e) = IF u \in Slots(g) THEN At(g, u) ELSE NoCell
          BY <1>2, <4>2, BelowSlot
        <5> QED BY <3>1, <4>1, <5>1
      <4>5. u # s
        <5>1. SUFFICES ASSUME u = s PROVE FALSE
          OBVIOUS
        <5>2. u[1] = NodeIn(h, t) /\ u[2] = e /\ NodeIn(h, t) # Roots
          BY HeapFacts
        <5>3. Len(a) # 0 /\ s[1] = NodeIn(h, t) /\ s[2] = e
          <6>1. s[1] = NodeIn(h, t) /\ s[2] = e /\ s[1] # Roots
            BY <5>1, <5>2
          <6>2. Stop(c, 0)[1] = Roots
            BY HeapFacts DEF Chain
          <6> QED BY <6>1, <6>2 DEF s
        <5> DEFINE n == Len(a) - 1
                   f == SubSeq(a, 1, n)
                   v == Stop(c, n)
        <5>4. n \in 0..Len(a) /\ n + 1 = Len(a) /\ Len(a) \in 1..Len(a) /\ n \in 0..(Len(a) - 1)
          BY <1>1, <5>3
        <5>5. f \in Seq(Byte) /\ Len(f) = n /\ Begins(f, a)
          BY <5>4, Beginning
        <5>6. s = <<NodeIn(h, v), a[Len(a)]>> /\ v \in Slots(h)
          BY <5>4, ChainFacts DEF s
        <5>7. Sole(h, v) /\ NodeIn(h, v) # NoNode
          BY <5>4 DEF Chain
        <5> HIDE DEF f, n, v, u
        <5>8. Chain(h, f, c)
          BY <5>5, ChainPrefix
        <5>9. v = Stop(c, Len(f))
          BY <5>5 DEF v
        <5>10. NodeIn(h, v) = NodeIn(h, t) /\ e = a[Len(a)]
          BY <5>3, <5>6
        <5>11. CellBelow(h, At(h, <<Roots, "map">>), q).rec = NodeIn(h, v) /\ <<Roots, "map">> \in Slots(h)
          BY <2>0, <4>1, <5>10 DEF HeadSlot, NodeIn
        <5>12. q = f
          BY <5>5, <5>7, <5>8, <5>9, <5>11, OnlyWay
        <5>13. Begins(q, a) /\ Len(q) < Len(a) /\ e = a[Len(q) + 1]
          BY <5>4, <5>5, <5>10, <5>12
        <5>14. Begins(Append(q, e), a)
          BY <5>13, BeginsFacts
        <5>15. Len(Append(q, e)) = Len(a)
          BY <5>4, <5>5, <5>12
        <5>16. Append(q, e) = a
          BY <3>1, <5>14, <5>15, BeginsFacts
        <5>17. Begins(a, a)
          BY <1>1 DEF Begins
        <5> QED BY <3>2, <5>16, <5>17
      <4> HIDE DEF u, X, Y
      <4> QED BY <1>2, <4>3, <4>4, <4>5
    <3> QED BY <3>5, <3>6
  <2>3. \A q \in S : ~Begins(a, q) => Both(q)
    OBVIOUS
  <2> HIDE DEF S
  <2>4. p \in S
    BY <2>1, <2>2, PathInduction
  <2>5. Both(p)
    BY <1>6, <2>3, <2>4
  <2>6. On(g, Y(p), b)
    BY <1>6 DEF Leads, HeadSlot
  <2> HIDE DEF X, Y
  <2>7. Y(p) # NoCell
    <3>1. SUFFICES ASSUME Y(p) = NoCell PROVE FALSE
      OBVIOUS
    <3>2. <<NoNode, b>> \in Slots(g)
      BY <2>6, <3>1 DEF On, NoCell
    <3> QED BY <1>2, <3>2, SlotsDef, HeapFacts
  <2>8. Y(p) = X(p)
    BY <1>3, <2>5, <2>7
  <2>9. On(h, X(p), b)
    BY <1>2, <2>6, <2>8 DEF On
  <2>10. Leads(h, o, p, b)
    BY <1>6, <2>0, <2>9 DEF Leads, HeadSlot, X
  <2> QED BY <1>6, <2>10
<1> QED BY <1>4, <1>5, <1>6

\* Below path a of the head are the paths below x; all other paths were there before.
Grafts(h, g, a, x) ==
    \A o : \A p \in Seq(Byte) : \A b \in Byte : Leads(g, o, p, b) =>
        \/ Leads(h, o, p, b) /\ (o = "map" => ~Begins(a, p))
        \/ o = "map" /\ Onward(h, a, x, p, b)

\* What brings no path leaves it at that.
LEMMA GraftsThen ==
    ASSUME NEW h, NEW g, NEW k, NEW a, NEW x, Grafts(h, g, a, x), Adds(g, k, <<>>)
    PROVE  Grafts(h, k, a, x)
<1>1. ASSUME NEW o, NEW p \in Seq(Byte), NEW b \in Byte, Leads(k, o, p, b)
      PROVE  Leads(g, o, p, b)
  <2>1. Leads(g, o, p, b) \/ (o = "map" /\ Begins(Append(p, b), <<>>))
    BY <1>1 DEF Adds
  <2>2. Len(Append(p, b)) = Len(p) + 1 /\ Len(p) \in Nat
    OBVIOUS
  <2>3. Len(<<>>) = 0
    OBVIOUS
  <2>4. ~Begins(Append(p, b), <<>>)
    BY <2>2, <2>3 DEF Begins
  <2> QED BY <2>1, <2>4
<1> QED BY <1>1 DEF Grafts

\* Nothing leads on from an empty node.
LEMMA EmptyLeads ==
    ASSUME NEW h, HeapOK(h), NEW x, IsEmpty(h, x.rec), NEW r \in Seq(Byte), NEW b \in Byte
    PROVE  ~On(h, CellBelow(h, x, r), b)
<1>1. ASSUME NEW y, IsEmpty(h, y.rec)
      PROVE  ~On(h, y, b)
  <2>1. CASE y.rec = NoNode
    BY <2>1, SlotsDef, HeapFacts DEF On
  <2>2. CASE h[y.rec] = EmptyNode
    <3>1. DOMAIN h[y.rec] = {}
      BY <2>2 DEF EmptyNode
    <3> QED BY <3>1, SlotsDef DEF On
  <2> QED BY <1>1, <2>1, <2>2 DEF IsEmpty
<1>2. CASE r = <<>>
  BY <1>1, <1>2, CellBelowEmpty
<1>3. CASE r # <<>>
  <2>1. CellBelow(h, x, r) = NoCell
    BY <1>3, EmptyBelow
  <2>2. IsEmpty(h, NoCell.rec)
    BY DEF NoCell, IsEmpty
  <2> QED BY <1>1, <2>1, <2>2
<1> QED BY <1>2, <1>3

\* Nor does anything from a slot whose node has no cell.
LEMMA BareLeads ==
    ASSUME NEW h, HeapOK(h), NEW t \in Slots(h), \A b \in Byte : <<NodeIn(h, t), b>> \notin Slots(h),
           NEW r \in Seq(Byte), NEW b \in Byte
    PROVE  ~On(h, CellBelow(h, At(h, t), r), b)
<1> DEFINE w == At(h, t)
           X(q) == CellBelow(h, w, q)
           S == {q \in Seq(Byte) : q # <<>> => X(q) = NoCell}
<1>1. <<>> \in S
  OBVIOUS
<1>2. ASSUME NEW q \in Seq(Byte), q \in S, NEW e \in Byte
      PROVE  Append(q, e) \in S
  <2>1. X(Append(q, e)) = Below(h, X(q), e) /\ Append(q, e) \in Seq(Byte)
    BY CellBelowAppend
  <2>2. CASE q = <<>>
    <3>1. X(q) = w
      BY <2>2, CellBelowEmpty
    <3>2. Below(h, At(h, t), e) = NoCell
      BY BelowSlot
    <3> QED BY <2>1, <3>1, <3>2
  <2>3. CASE q # <<>>
    <3>1. X(q) = NoCell
      BY <1>2, <2>3
    <3>2. Below(h, NoCell, e) = NoCell
      BY BelowSlot
    <3> QED BY <2>1, <3>1, <3>2
  <2> QED BY <2>2, <2>3
<1>3. \A q \in S : q # <<>> => X(q) = NoCell
  OBVIOUS
<1> HIDE DEF S
<1>4. r \in S
  BY <1>1, <1>2, PathInduction
<1>5. CASE r = <<>>
  <2>1. X(r) = w
    BY <1>5, CellBelowEmpty
  <2>2. w.rec = NodeIn(h, t)
    BY DEF NodeIn
  <2> HIDE DEF w, X
  <2>3. ~On(h, X(r), b)
    BY <2>1, <2>2 DEF On
  <2> QED BY <2>3 DEF X, w
<1>6. CASE r # <<>>
  <2>1. X(r) = NoCell
    BY <1>3, <1>4, <1>6
  <2> HIDE DEF X
  <2>2. ~On(h, X(r), b)
    <3>1. NoCell.rec = NoNode
      BY DEF NoCell
    <3>2. <<NoNode, b>> \notin Slots(h)
      BY SlotsDef, HeapFacts
    <3> QED BY <2>1, <3>1, <3>2 DEF On
  <2> QED BY <2>2 DEF X
<1> QED BY <1>5, <1>6

\* A cell that leads to where x leads is written at the end of a chain.
LEMMA WriteGrafts ==
    ASSUME NEW h, HeapOK(h), NEW a \in Seq(Byte), NEW c, Chain(h, a, c), NEW d \in CellType(h),
           \A k \in 0..(Len(a) - 1) : d.rec # NodeIn(h, Stop(c, k)),
           NEW g, g = WithCell(h, Stop(c, Len(a)), d), NEW x, d.rec = x.rec
    PROVE  Grafts(h, g, a, x)
<1>1. ASSUME NEW r \in Seq(Byte), NEW b \in Byte, On(h, CellBelow(h, d, r), b)
      PROVE  On(h, CellBelow(h, x, r), b)
  <2>1. CASE r = <<>>
    BY <1>1, <2>1, CellBelowEmpty DEF On
  <2>2. CASE r # <<>>
    <3>1. CellBelow(h, d, r) = CellBelow(h, x, r)
      BY <2>2, CellBelowNode
    <3> QED BY <1>1, <3>1
  <2> QED BY <2>1, <2>2
<1>2. ASSUME NEW o, NEW p \in Seq(Byte), NEW b \in Byte, Leads(g, o, p, b)
      PROVE  \/ Leads(h, o, p, b) /\ (o = "map" => ~Begins(a, p))
             \/ o = "map" /\ Onward(h, a, x, p, b)
  <2>1. \/ Leads(h, o, p, b) /\ (o = "map" => ~Begins(a, p))
        \/ o = "map" /\ Onward(h, a, d, p, b)
    BY <1>2, WriteLeads
  <2>2. Onward(h, a, d, p, b) => Onward(h, a, x, p, b)
    BY <1>1 DEF Onward
  <2> QED BY <2>1, <2>2
<1> QED BY <1>2 DEF Grafts

===============================================================================
