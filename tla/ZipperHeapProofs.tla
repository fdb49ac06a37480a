--------------------------- MODULE ZipperHeapProofs ---------------------------
(***************************************************************************)
(* Facts about the heap of ZipperHead: what it means to walk a path in it, *)
(* what the operations that allocate, copy, link and unlink nodes leave as *)
(* it was, and that a path all of whose nodes are referred to once stays   *)
(* so as long as nobody else is at work on it; then, what becomes of the   *)
(* values that are found below a cell.                                     *)
(***************************************************************************)
EXTENDS ZipperHead, PathTrieProofs, SequenceTheorems

\* Induction, with the property as a set of numbers.
LEMMA NatSetInduction ==
    ASSUME NEW S, 0 \in S, \A n \in Nat : n \in S => n + 1 \in S
    PROVE  \A n \in Nat : n \in S
<1> DEFINE D == {n \in Nat : n \notin S}
<1>1. SUFFICES ASSUME D # {}
               PROVE  FALSE
  OBVIOUS
<1>2. PICK m \in D : \A k \in D : m <= k
  BY <1>1, LeastNumber
<1>3. m # 0 /\ m - 1 \in Nat /\ m - 1 \notin D
  BY <1>2
<1>4. m - 1 \in S
  BY <1>3
<1> QED BY <1>2, <1>3, <1>4

-----------------------------------------------------------------------------
(* Walking down.                                                           *)

\* One byte down from a cell.
Below(h, d, b) == IF d.rec # NoNode /\ b \in DOMAIN h[d.rec] THEN h[d.rec][b] ELSE NoCell

\* f has the cells that CellBelow passes.
Passes(h, c, p, f) ==
    /\ f[0] = c
    /\ \A k \in 1..Len(p) : f[k] = Below(h, f[k - 1], p[k])
    /\ CellBelow(h, c, p) = f[Len(p)]

\* There is such a function.
LEMMA CellsExist ==
    ASSUME NEW h, NEW c, NEW p \in Seq(Byte)
    PROVE  \E f : Passes(h, c, p, f)
<1> DEFINE G(n, f) == f = [k \in 0..n |-> IF k = 0 THEN c ELSE Below(h, f[k - 1], p[k])]
           S == {n \in Nat : \E f : G(n, f)}
<1>1. 0 \in S
  <2>1. G(0, [k \in 0..0 |-> c])
    OBVIOUS
  <2> QED BY <2>1
<1>2. ASSUME NEW n \in Nat, n \in S
      PROVE  n + 1 \in S
  <2>1. PICK f : G(n, f)
    BY <1>2
  <2> DEFINE g == [k \in 0..(n + 1) |-> IF k = n + 1 THEN Below(h, f[n], p[n + 1]) ELSE f[k]]
  <2>2. \A k \in 0..n : g[k] = f[k]
    OBVIOUS
  <2>3. g[n + 1] = Below(h, g[n], p[n + 1])
    BY <2>2
  <2>4. \A k \in 0..n : k # 0 => f[k] = Below(h, f[k - 1], p[k])
    BY <2>1
  <2>5. f[0] = c
    BY <2>1
  <2>6. \A k \in 0..(n + 1) : g[k] = IF k = 0 THEN c ELSE Below(h, g[k - 1], p[k])
    BY <2>2, <2>3, <2>4, <2>5
  <2>7. DOMAIN g = 0..(n + 1)
    OBVIOUS
  <2> HIDE DEF g
  <2>8. g = [k \in DOMAIN g |-> g[k]]
    BY DEF g
  <2>9. G(n + 1, g)
    BY <2>6, <2>7, <2>8
  <2> HIDE DEF G
  <2>10. n + 1 \in Nat /\ \E e : G(n + 1, e)
    BY <2>9
  <2> QED BY <2>10
<1> HIDE DEF S
<1>3. Len(p) \in S
  BY <1>1, <1>2, NatSetInduction
<1>4. \E f : G(Len(p), f)
  BY <1>3 DEF S
<1> DEFINE F == CHOOSE f : G(Len(p), f)
<1>5. G(Len(p), F)
  BY <1>4
<1>6. CellBelow(h, c, p) = F[Len(p)]
  BY DEF CellBelow, Below
<1>7. F[0] = c /\ \A k \in 1..Len(p) : F[k] = Below(h, F[k - 1], p[k])
  <2> DEFINE R == [k \in 0..Len(p) |-> IF k = 0 THEN c ELSE Below(h, F[k - 1], p[k])]
  <2>1. \A k \in 0..Len(p) : R[k] = IF k = 0 THEN c ELSE Below(h, F[k - 1], p[k])
    OBVIOUS
  <2>2. F = R
    BY <1>5
  <2> HIDE DEF R, F
  <2> QED BY <2>1, <2>2
<1> HIDE DEF F
<1>8. Passes(h, c, p, F)
  BY <1>6, <1>7 DEF Passes
<1> QED BY <1>8

\* CellBelow, byte by byte.
LEMMA CellBelowEmpty ==
    ASSUME NEW h, NEW c
    PROVE  CellBelow(h, c, <<>>) = c
<1>1. <<>> \in Seq(Byte) /\ Len(<<>>) = 0
  OBVIOUS
<1>2. ASSUME NEW p \in Seq(Byte), Len(p) = 0
      PROVE  CellBelow(h, c, p) = c
  <2>1. PICK f : Passes(h, c, p, f)
    BY CellsExist
  <2> QED BY <1>2, <2>1 DEF Passes
<1> QED BY <1>1, <1>2

\* CellBelow, one byte more.
LEMMA CellBelowAppend ==
    ASSUME NEW h, NEW c, NEW p \in Seq(Byte), NEW b \in Byte
    PROVE  CellBelow(h, c, Append(p, b)) = Below(h, CellBelow(h, c, p), b)
<1> DEFINE q == Append(p, b)
<1>1. q \in Seq(Byte) /\ Len(q) = Len(p) + 1 /\ q[Len(p) + 1] = b
      /\ \A k \in 1..Len(p) : q[k] = p[k]
  OBVIOUS
<1> HIDE DEF q
<1>2. PICK f : Passes(h, c, p, f)
  BY CellsExist
<1>3. PICK g : Passes(h, c, q, g)
  BY <1>1, CellsExist
<1>4. /\ f[0] = c /\ g[0] = c
      /\ \A k \in 1..Len(p) : f[k] = Below(h, f[k - 1], p[k])
      /\ \A k \in 1..Len(q) : g[k] = Below(h, g[k - 1], q[k])
      /\ CellBelow(h, c, p) = f[Len(p)] /\ CellBelow(h, c, q) = g[Len(q)]
  BY <1>2, <1>3 DEF Passes
<1> DEFINE S == {n \in Nat : n <= Len(p) => f[n] = g[n]}
<1>5. 0 \in S
  BY <1>4
<1>6. ASSUME NEW n \in Nat, n \in S
      PROVE  n + 1 \in S
  <2>1. SUFFICES ASSUME n + 1 <= Len(p)
                 PROVE  f[n + 1] = g[n + 1]
    OBVIOUS
  <2>2. f[n] = g[n] /\ n + 1 \in 1..Len(p) /\ n + 1 \in 1..Len(q)
    BY <1>1, <1>6, <2>1
  <2> QED BY <1>1, <1>4, <2>2
<1> HIDE DEF S
<1>7. Len(p) \in S
  BY <1>5, <1>6, NatSetInduction
<1>8. f[Len(p)] = g[Len(p)]
  BY <1>7 DEF S
<1>9. g[Len(q)] = Below(h, g[Len(p)], b)
  BY <1>1, <1>4
<1> QED BY <1>4, <1>8, <1>9 DEF q

HeapOf(w) == w.heap
SlotOf(w) == w.slot

\* f has the states that Walk passes.
Walks(h, s, p, f) ==
    /\ f[0] = [heap |-> h, slot |-> s]
    /\ \A k \in 1..Len(p) : f[k] = Descend(f[k - 1].heap, f[k - 1].slot, p[k])
    /\ Walk(h, s, p) = f[Len(p)]

\* There is such a function.
LEMMA WalkExists ==
    ASSUME NEW h, NEW s, NEW p \in Seq(Byte)
    PROVE  \E f : Walks(h, s, p, f)
<1> DEFINE start == [heap |-> h, slot |-> s]
           Step(w, b) == Descend(w.heap, w.slot, b)
           G(n, f) == f = [k \in 0..n |-> IF k = 0 THEN start ELSE Step(f[k - 1], p[k])]
           S == {n \in Nat : \E f : G(n, f)}
<1> HIDE DEF start, Step
<1>1. 0 \in S
  <2>1. G(0, [k \in 0..0 |-> start])
    OBVIOUS
  <2> QED BY <2>1
<1>2. ASSUME NEW n \in Nat, n \in S
      PROVE  n + 1 \in S
  <2>1. PICK f : G(n, f)
    BY <1>2
  <2> DEFINE g == [k \in 0..(n + 1) |-> IF k = n + 1 THEN Step(f[n], p[n + 1]) ELSE f[k]]
  <2>2. \A k \in 0..n : g[k] = f[k]
    OBVIOUS
  <2>3. g[n + 1] = Step(g[n], p[n + 1])
    BY <2>2
  <2>4. \A k \in 0..n : k # 0 => f[k] = Step(f[k - 1], p[k])
    BY <2>1
  <2>5. f[0] = start
    BY <2>1
  <2>6. \A k \in 0..(n + 1) : g[k] = IF k = 0 THEN start ELSE Step(g[k - 1], p[k])
    BY <2>2, <2>3, <2>4, <2>5
  <2>7. DOMAIN g = 0..(n + 1)
    OBVIOUS
  <2> HIDE DEF g
  <2>8. g = [k \in DOMAIN g |-> g[k]]
    BY DEF g
  <2>9. G(n + 1, g)
    BY <2>6, <2>7, <2>8
  <2> HIDE DEF G
  <2>10. n + 1 \in Nat /\ \E e : G(n + 1, e)
    BY <2>9
  <2> QED BY <2>10
<1> HIDE DEF S
<1>3. Len(p) \in S
  BY <1>1, <1>2, NatSetInduction
<1>4. \E f : G(Len(p), f)
  BY <1>3 DEF S
<1> DEFINE F == CHOOSE f : G(Len(p), f)
<1>5. G(Len(p), F)
  BY <1>4
<1>6. Walk(h, s, p) = F[Len(p)]
  BY DEF Walk, start, Step
<1>7. F[0] = start /\ \A k \in 1..Len(p) : F[k] = Step(F[k - 1], p[k])
  <2> DEFINE R == [k \in 0..Len(p) |-> IF k = 0 THEN start ELSE Step(F[k - 1], p[k])]
  <2>1. \A k \in 0..Len(p) : R[k] = IF k = 0 THEN start ELSE Step(F[k - 1], p[k])
    OBVIOUS
  <2>2. F = R
    BY <1>5
  <2> HIDE DEF R, F
  <2> QED BY <2>1, <2>2
<1> HIDE DEF F
<1>8. Walks(h, s, p, F)
  BY <1>6, <1>7 DEF start, Step, Walks
<1> QED BY <1>8

\* Walk, byte by byte.
LEMMA WalkEmpty ==
    ASSUME NEW h, NEW s
    PROVE  HeapOf(Walk(h, s, <<>>)) = h /\ SlotOf(Walk(h, s, <<>>)) = s
<1>1. <<>> \in Seq(Byte) /\ Len(<<>>) = 0
  OBVIOUS
<1>2. ASSUME NEW p \in Seq(Byte), Len(p) = 0
      PROVE  Walk(h, s, p) = [heap |-> h, slot |-> s]
  <2>1. PICK f : Walks(h, s, p, f)
    BY WalkExists
  <2> QED BY <1>2, <2>1 DEF Walks
<1>3. Walk(h, s, <<>>) = [heap |-> h, slot |-> s]
  BY <1>1, <1>2
<1> QED BY <1>3 DEF HeapOf, SlotOf

\* Walk, one byte more.
LEMMA WalkAppend ==
    ASSUME NEW h, NEW s, NEW p \in Seq(Byte), NEW b \in Byte
    PROVE  Walk(h, s, Append(p, b)) = Descend(HeapOf(Walk(h, s, p)), SlotOf(Walk(h, s, p)), b)
<1> DEFINE q == Append(p, b)
<1>1. q \in Seq(Byte) /\ Len(q) = Len(p) + 1 /\ q[Len(p) + 1] = b
      /\ \A k \in 1..Len(p) : q[k] = p[k]
  OBVIOUS
<1> HIDE DEF q
<1>2. PICK f : Walks(h, s, p, f)
  BY WalkExists
<1>3. PICK g : Walks(h, s, q, g)
  BY <1>1, WalkExists
<1>4. /\ f[0] = [heap |-> h, slot |-> s] /\ g[0] = [heap |-> h, slot |-> s]
      /\ \A k \in 1..Len(p) : f[k] = Descend(f[k - 1].heap, f[k - 1].slot, p[k])
      /\ \A k \in 1..Len(q) : g[k] = Descend(g[k - 1].heap, g[k - 1].slot, q[k])
      /\ Walk(h, s, p) = f[Len(p)] /\ Walk(h, s, q) = g[Len(q)]
  BY <1>2, <1>3 DEF Walks
<1> DEFINE S == {n \in Nat : n <= Len(p) => f[n] = g[n]}
<1>5. 0 \in S
  BY <1>4
<1>6. ASSUME NEW n \in Nat, n \in S
      PROVE  n + 1 \in S
  <2>1. SUFFICES ASSUME n + 1 <= Len(p)
                 PROVE  f[n + 1] = g[n + 1]
    OBVIOUS
  <2>2. f[n] = g[n] /\ n + 1 \in 1..Len(p) /\ n + 1 \in 1..Len(q)
    BY <1>1, <1>6, <2>1
  <2> QED BY <1>1, <1>4, <2>2
<1> HIDE DEF S
<1>7. Len(p) \in S
  BY <1>5, <1>6, NatSetInduction
<1>8. f[Len(p)] = g[Len(p)]
  BY <1>7 DEF S
<1>9. g[Len(q)] = Descend(g[Len(p)].heap, g[Len(p)].slot, b)
  BY <1>1, <1>4
<1> QED BY <1>4, <1>8, <1>9 DEF q, HeapOf, SlotOf

-----------------------------------------------------------------------------
(* Heaps and slots.                                                        *)

\* A slot that is named as the slots of a heap are.
Named(h, s) == /\ s = <<s[1], s[2]>>
               /\ s[1] \in DOMAIN h
               /\ s[2] \in IF s[1] = Roots THEN Owner ELSE Byte

\* The node that the cell in a slot leads to, its value, and one cell of a node.
NodeIn(h, s) == At(h, s).rec
ValIn(h, s) == At(h, s).val
CellIn(node, b) == node[b]

Nodes(h) == DOMAIN h \ {Roots}
CellType(h) == [rec : Nodes(h) \cup {NoNode}, val : Val \cup {NoVal}]

\* A heap is made of finitely many nodes, whose cells lead to nodes of it.
HeapOK(h) == /\ IsFiniteSet(DOMAIN h)
             /\ Roots \in DOMAIN h /\ NoNode \notin DOMAIN h
             /\ Nodes(h) \subseteq NodeType
             /\ HeadSlot \in Slots(h)
             /\ \A s \in Slots(h) : Named(h, s) /\ At(h, s) \in CellType(h)

\* Slots, as pairs of a node and the name of a cell in it.
LEMMA SlotsDef ==
    ASSUME NEW h
    PROVE  /\ \A n \in DOMAIN h : \A b \in DOMAIN h[n] : <<n, b>> \in Slots(h)
           /\ \A s \in Slots(h) : s = <<s[1], s[2]>> /\ s[1] \in DOMAIN h /\ s[2] \in DOMAIN h[s[1]]
           /\ \A n, b : <<n, b>> \in Slots(h) <=> n \in DOMAIN h /\ b \in DOMAIN h[n]
<1>1. ASSUME NEW n \in DOMAIN h, NEW b \in DOMAIN h[n]
      PROVE  <<n, b>> \in Slots(h)
  <2>1. <<n, b>> \in {n} \X DOMAIN h[n]
    OBVIOUS
  <2> QED BY <2>1 DEF Slots
<1>2. ASSUME NEW s \in Slots(h)
      PROVE  s = <<s[1], s[2]>> /\ s[1] \in DOMAIN h /\ s[2] \in DOMAIN h[s[1]]
  <2>1. PICK n \in DOMAIN h : s \in {n} \X DOMAIN h[n]
    BY DEF Slots
  <2> QED BY <2>1
<1>3. ASSUME NEW n, NEW b, <<n, b>> \in Slots(h)
      PROVE  n \in DOMAIN h /\ b \in DOMAIN h[n]
  <2>1. <<n, b>>[1] = n /\ <<n, b>>[2] = b
    OBVIOUS
  <2> QED BY <1>2, <1>3, <2>1
<1> QED BY <1>1, <1>2, <1>3

\* A cell is written.
LEMMA WithCellFacts ==
    ASSUME NEW h, HeapOK(h), NEW s, Named(h, s), NEW c \in CellType(h)
    PROVE  LET g == WithCell(h, s, c)
           IN /\ HeapOK(g)
              /\ DOMAIN g = DOMAIN h
              /\ Slots(g) = Slots(h) \cup {s}
              /\ At(g, s) = c
              /\ \A t \in Slots(h) : t # s => At(g, t) = At(h, t)
<1> DEFINE g == WithCell(h, s, c)
<1>1. DOMAIN g = DOMAIN h
  BY DEF WithCell
<1>2. \A n \in DOMAIN h : n # s[1] => g[n] = h[n]
  BY DEF WithCell
<1>3. g[s[1]] = Put(h[s[1]], s[2], c)
  BY DEF WithCell, Named
<1>4. DOMAIN g[s[1]] = DOMAIN h[s[1]] \cup {s[2]}
  BY <1>3 DEF Put
<1>5. g[s[1]][s[2]] = c /\ \A b \in DOMAIN h[s[1]] : b # s[2] => g[s[1]][b] = h[s[1]][b]
  BY <1>3 DEF Put
<1> HIDE DEF g
<1>6. ASSUME NEW n, NEW b
      PROVE  <<n, b>> \in Slots(g) <=> <<n, b>> \in Slots(h) \/ <<n, b>> = s
  BY <1>1, <1>2, <1>4, SlotsDef DEF Named
<1>7. Slots(g) = Slots(h) \cup {s}
  BY <1>6, SlotsDef DEF Named
<1>8. At(g, s) = c
  BY <1>5 DEF At
<1>9. ASSUME NEW t \in Slots(h), t # s
      PROVE  At(g, t) = At(h, t)
  <2>1. t = <<t[1], t[2]>> /\ t[1] \in DOMAIN h /\ t[2] \in DOMAIN h[t[1]]
    BY SlotsDef
  <2>2. t[1] # s[1] \/ t[2] # s[2]
    BY <1>9, <2>1 DEF Named
  <2> QED BY <1>2, <1>5, <2>1, <2>2 DEF At
<1>10. CellType(g) = CellType(h)
  BY <1>1 DEF CellType, Nodes
<1>11. \A t : Named(g, t) <=> Named(h, t)
  BY <1>1 DEF Named
<1>12. HeapOK(g)
  BY <1>1, <1>7, <1>8, <1>9, <1>10, <1>11 DEF HeapOK, Nodes
<1> QED BY <1>1, <1>7, <1>8, <1>9, <1>12 DEF g

\* A cell is taken out.
LEMMA WithoutCellFacts ==
    ASSUME NEW h, HeapOK(h), NEW s \in Slots(h), s # HeadSlot
    PROVE  LET g == WithoutCell(h, s)
           IN /\ HeapOK(g)
              /\ DOMAIN g = DOMAIN h
              /\ Slots(g) = Slots(h) \ {s}
              /\ \A t \in Slots(g) : At(g, t) = At(h, t)
<1> DEFINE g == WithoutCell(h, s)
<1>0. Named(h, s)
  BY DEF HeapOK
<1>1. DOMAIN g = DOMAIN h
  BY DEF WithoutCell
<1>2. \A n \in DOMAIN h : n # s[1] => g[n] = h[n]
  BY DEF WithoutCell
<1>3. g[s[1]] = [x \in DOMAIN h[s[1]] \ {s[2]} |-> h[s[1]][x]]
  BY <1>0 DEF WithoutCell, Named, Restrict
<1> HIDE DEF g
<1>6. ASSUME NEW n, NEW b
      PROVE  <<n, b>> \in Slots(g) <=> <<n, b>> \in Slots(h) /\ <<n, b>> # s
  BY <1>0, <1>1, <1>2, <1>3, SlotsDef DEF Named
<1>7. Slots(g) = Slots(h) \ {s}
  BY <1>6, SlotsDef
<1>9. ASSUME NEW t \in Slots(g)
      PROVE  At(g, t) = At(h, t)
  <2>1. t = <<t[1], t[2]>> /\ t[1] \in DOMAIN g /\ t[2] \in DOMAIN g[t[1]]
    BY SlotsDef
  <2> QED BY <1>1, <1>2, <1>3, <2>1 DEF At
<1>10. CellType(g) = CellType(h)
  BY <1>1 DEF CellType, Nodes
<1>11. \A t : Named(g, t) <=> Named(h, t)
  BY <1>1 DEF Named
<1>12. HeapOK(g)
  BY <1>1, <1>7, <1>9, <1>10, <1>11 DEF HeapOK, Nodes
<1> QED BY <1>1, <1>7, <1>9, <1>12 DEF g

\* A new node is added, to which nothing leads yet.
LEMMA PutFacts ==
    ASSUME NEW h, HeapOK(h), NEW m \in NodeType, m \notin DOMAIN h, m # NoNode,
           NEW node, DOMAIN node \subseteq Byte, \A b \in DOMAIN node : node[b] \in CellType(h)
    PROVE  LET g == Put(h, m, node)
           IN /\ HeapOK(g)
              /\ DOMAIN g = DOMAIN h \cup {m}
              /\ Slots(g) = Slots(h) \cup ({m} \X DOMAIN node)
              /\ \A t \in Slots(h) : At(g, t) = At(h, t)
              /\ g[m] = node
<1> DEFINE g == Put(h, m, node)
<1>1. DOMAIN g = DOMAIN h \cup {m}
  BY DEF Put
<1>2. \A n \in DOMAIN h : g[n] = h[n]
  BY DEF Put
<1>3. g[m] = node
  BY DEF Put
<1> HIDE DEF g
<1>4. ASSUME NEW n, NEW b
      PROVE  <<n, b>> \in Slots(g) <=> <<n, b>> \in Slots(h) \/ (n = m /\ b \in DOMAIN node)
  BY <1>1, <1>2, <1>3, SlotsDef
<1>5. Slots(g) = Slots(h) \cup ({m} \X DOMAIN node)
  <2>1. ASSUME NEW s \in Slots(g)
        PROVE  s \in Slots(h) \cup ({m} \X DOMAIN node)
    BY <1>4, SlotsDef
  <2>2. ASSUME NEW s \in Slots(h)
        PROVE  s \in Slots(g)
    BY <1>4, SlotsDef
  <2>3. ASSUME NEW b \in DOMAIN node
        PROVE  <<m, b>> \in Slots(g)
    BY <1>4
  <2> QED BY <2>1, <2>2, <2>3
<1>6. \A t \in Slots(h) : At(g, t) = At(h, t)
  BY <1>2, SlotsDef DEF At
<1>7. \A b \in DOMAIN node : At(g, <<m, b>>) = node[b]
  BY <1>3 DEF At
<1>8. CellType(h) \subseteq CellType(g)
  BY <1>1 DEF CellType, Nodes
<1>9. \A t : Named(h, t) => Named(g, t)
  BY <1>1 DEF Named
<1>10. ASSUME NEW s \in Slots(g)
       PROVE  Named(g, s) /\ At(g, s) \in CellType(g)
  <2>1. CASE s \in Slots(h)
    BY <1>6, <1>8, <1>9, <2>1 DEF HeapOK
  <2>2. CASE s \in ({m} \X DOMAIN node)
    <3>1. PICK b \in DOMAIN node : s = <<m, b>>
      BY <2>2
    <3>2. At(g, s) \in CellType(g)
      BY <1>7, <1>8, <3>1
    <3>3. m # Roots /\ m \in DOMAIN g /\ b \in Byte
      BY <1>1 DEF HeapOK
    <3>4. Named(g, <<m, b>>)
      BY <3>3 DEF Named
    <3> QED BY <3>1, <3>2, <3>4
  <2> QED BY <1>5, <2>1, <2>2
<1>11. IsFiniteSet(DOMAIN g)
  BY <1>1, FS_AddElement DEF HeapOK
<1>12. HeapOK(g)
  BY <1>1, <1>5, <1>10, <1>11 DEF HeapOK, Nodes
<1> QED BY <1>1, <1>3, <1>5, <1>6, <1>12 DEF g

\* There is always a name for a new node.
LEMMA FreshNode ==
    ASSUME NEW h, HeapOK(h)
    PROVE  LET k == CHOOSE k \in 0..Cardinality(DOMAIN h) : {<<"new", <<k>>>>} \notin DOMAIN h
           IN {<<"new", <<k>>>>} \notin DOMAIN h /\ {<<"new", <<k>>>>} \in NodeType
<1> DEFINE C == Cardinality(DOMAIN h)
           new(k) == {<<"new", <<k>>>>}
<1>1. C \in Nat
  BY FS_CardinalityType DEF HeapOK
<1>0. ASSUME NEW k \in 0..C
      PROVE  new(k) \in NodeType
  <2> DEFINE q == <<k>>
  <2>1. q \in Seq(Nat)
    BY <1>1
  <2> HIDE DEF q
  <2>2. <<"new", q>> \in (Owner \cup {"new"}) \X Seq(Nat)
    BY <2>1
  <2> QED BY <2>2 DEF NodeType, q
<1> HIDE DEF C
<1>2. SUFFICES ASSUME \A k \in 0..C : new(k) \in DOMAIN h
               PROVE  FALSE
  BY <1>0 DEF C
<1> DEFINE f == [k \in 0..C |-> new(k)]
<1>3. f \in [0..C -> DOMAIN h]
  BY <1>2
<1>4. IsFiniteSet(0..C) /\ Cardinality(0..C) = C + 1
  BY <1>1, FS_Interval
<1>5. PICK x \in 0..C, y \in 0..C : x # y /\ f[x] = f[y]
  <2>1. IsFiniteSet(DOMAIN h) /\ Cardinality(DOMAIN h) < Cardinality(0..C)
    BY <1>1, <1>4 DEF HeapOK, C
  <2> HIDE DEF f
  <2> QED BY <1>3, <1>4, <2>1, FS_PigeonHole
<1>6. new(x) = new(y)
  BY <1>5
<1>7. <<"new", <<x>>>> = <<"new", <<y>>>>
  BY <1>6
<1>8. <<x>> = <<y>>
  BY <1>7
<1> QED BY <1>5, <1>8

\* A new node is put into a slot.
LEMMA AllocateFacts ==
    ASSUME NEW h, HeapOK(h), NEW s \in Slots(h),
           NEW node, DOMAIN node \subseteq Byte, \A b \in DOMAIN node : node[b] \in CellType(h)
    PROVE  LET g == Allocate(h, s, node)
               m == NodeIn(g, s)
           IN /\ HeapOK(g)
              /\ m \notin DOMAIN h /\ m # NoNode
              /\ DOMAIN g = DOMAIN h \cup {m}
              /\ Slots(h) \subseteq Slots(g)
              /\ \A t \in Slots(g) : t \notin Slots(h) => t[1] = m
              /\ At(g, s).val = At(h, s).val
              /\ \A t \in Slots(h) : t # s => At(g, t) = At(h, t)
              /\ \A b : <<m, b>> \in Slots(g) <=> b \in DOMAIN node
              /\ \A b \in DOMAIN node : At(g, <<m, b>>) = CellIn(node, b)
<1> DEFINE k == CHOOSE k \in 0..Cardinality(DOMAIN h) : {<<"new", <<k>>>>} \notin DOMAIN h
           m == {<<"new", <<k>>>>}
           f == Put(h, m, node)
           c == [At(h, s) EXCEPT !.rec = m]
           g == WithCell(f, s, c)
<1>1. Allocate(h, s, node) = g
  BY DEF Allocate
<1>2. m \notin DOMAIN h /\ m \in NodeType
  BY FreshNode
<1>3. m # NoNode
  BY DEF NoNode
<1> HIDE DEF m
<1>4. /\ HeapOK(f)
      /\ DOMAIN f = DOMAIN h \cup {m}
      /\ Slots(f) = Slots(h) \cup ({m} \X DOMAIN node)
      /\ \A t \in Slots(h) : At(f, t) = At(h, t)
      /\ f[m] = node
  BY <1>2, <1>3, PutFacts
<1> HIDE DEF f
<1>5. m # Roots /\ m \in Nodes(f)
  BY <1>2, <1>4 DEF HeapOK, Nodes
<1>6. Named(f, s) /\ At(h, s) \in CellType(h) /\ s[1] \in DOMAIN h
  BY <1>4, SlotsDef DEF HeapOK
<1>7. c \in CellType(f) /\ c.rec = m /\ c.val = At(h, s).val
  BY <1>5, <1>6 DEF CellType
<1> HIDE DEF c
<1>8. /\ HeapOK(g)
      /\ DOMAIN g = DOMAIN f
      /\ Slots(g) = Slots(f) \cup {s}
      /\ At(g, s) = c
      /\ \A t \in Slots(f) : t # s => At(g, t) = At(f, t)
  BY <1>4, <1>6, <1>7, WithCellFacts
<1> HIDE DEF g
<1>9. g[m] = node
  BY <1>2, <1>4, <1>6 DEF WithCell, g
<1>11. Slots(h) \subseteq Slots(g) /\ \A t \in Slots(g) : t \notin Slots(h) => t[1] = m
  BY <1>4, <1>8
<1>10. /\ \A b : <<m, b>> \in Slots(g) <=> b \in DOMAIN node
       /\ \A b \in DOMAIN node : At(g, <<m, b>>) = CellIn(node, b)
  <2>1. m \in DOMAIN g
    BY <1>4, <1>8
  <2> QED BY <1>9, <2>1, SlotsDef DEF At, CellIn
<1>12. NodeIn(g, s) = m /\ At(g, s).val = At(h, s).val
  BY <1>7, <1>8 DEF NodeIn
<1>13. DOMAIN g = DOMAIN h \cup {m} /\ \A t \in Slots(h) : t # s => At(g, t) = At(h, t)
  BY <1>4, <1>8
<1> QED BY <1>1, <1>2, <1>3, <1>8, <1>10, <1>11, <1>12, <1>13

\* No other slot leads to the node in slot s.
Sole(h, s) == \A t \in Slots(h) : NodeIn(h, t) = NodeIn(h, s) => t = s

\* A set of pairs is finite when the sets they come from are.
LEMMA FinitePairs ==
    ASSUME NEW A, IsFiniteSet(A), NEW B, IsFiniteSet(B),
           NEW S, \A s \in S : s = <<s[1], s[2]>> /\ s[1] \in A /\ s[2] \in B
    PROVE  IsFiniteSet(S)
<1>1. IsFiniteSet(A \X B)
  BY FS_Product
<1>2. S \in SUBSET (A \X B)
  <2>1. ASSUME NEW s \in S
        PROVE  s \in A \X B
    <3>1. <<s[1], s[2]>> \in A \X B
      OBVIOUS
    <3> QED BY <3>1
  <2> QED BY <2>1
<1> QED
  <2> DEFINE P == A \X B
  <2>1. IsFiniteSet(P) /\ S \in SUBSET P
    BY <1>1, <1>2
  <2> HIDE DEF P
  <2> QED BY <2>1, FS_Subset

\* A slot is the only one to lead to its node when the node has one reference.
LEMMA SoleRefs ==
    ASSUME NEW h, HeapOK(h), NEW s \in Slots(h)
    PROVE  /\ Refs(h, NodeIn(h, s)) \in Nat
           /\ Sole(h, s) <=> Refs(h, NodeIn(h, s)) = 1
           /\ Sole(h, s) <=> ~(Refs(h, NodeIn(h, s)) > 1)
<1> DEFINE R == {t \in Slots(h) : NodeIn(h, t) = NodeIn(h, s)}
<1>1. IsFiniteSet(Slots(h))
  <2>1. IsFiniteSet(Owner \cup Byte)
    BY HeadAssumption, FS_AddElement, FS_Union DEF Owner
  <2>2. IsFiniteSet(DOMAIN h)
    BY DEF HeapOK
  <2>3. \A t \in Slots(h) : t = <<t[1], t[2]>> /\ t[1] \in DOMAIN h /\ t[2] \in Owner \cup Byte
    BY DEF HeapOK, Named
  <2> QED BY <2>1, <2>2, <2>3, FinitePairs
<1>2. IsFiniteSet(R)
  BY <1>1, FS_Subset
<1>3. Cardinality(R) = Refs(h, NodeIn(h, s))
  BY DEF Refs, NodeIn
<1>4. s \in R
  OBVIOUS
<1>5. Sole(h, s) <=> R = {s}
  BY DEF Sole
<1>6. Cardinality(R) \in Nat
  BY <1>2, FS_CardinalityType
<1>7. Cardinality(R) = 1 <=> R = {s}
  <2> HIDE DEF R
  <2> QED BY <1>2, <1>4, FS_Singleton
<1>8. Cardinality(R) # 0
  <2> HIDE DEF R
  <2> QED BY <1>2, <1>4, FS_EmptySet
<1> QED BY <1>3, <1>5, <1>6, <1>7, <1>8

\* Heap g is heap h with a new node in slot s: an empty one when there was none,
\* else a copy.
Grown(h, g, s) ==
    LET n == NodeIn(h, s)
        m == NodeIn(g, s)
    IN /\ m \notin DOMAIN h /\ m # NoNode
       /\ Slots(h) \subseteq Slots(g)
       /\ At(g, s).val = At(h, s).val
       /\ \A t \in Slots(h) : t # s => At(g, t) = At(h, t)
       /\ \A t \in Slots(g) : t \notin Slots(h) => t[1] = m
       /\ \A b : <<m, b>> \in Slots(g) <=> <<n, b>> \in Slots(h)
       /\ \A b : <<n, b>> \in Slots(h) => At(g, <<m, b>>) = At(h, <<n, b>>)

\* Allocation of an empty node, or of a copy.
LEMMA AllocateGrows ==
    ASSUME NEW h, HeapOK(h), NEW s \in Slots(h)
    PROVE  /\ NodeIn(h, s) = NoNode =>
                 HeapOK(Allocate(h, s, EmptyNode)) /\ Grown(h, Allocate(h, s, EmptyNode), s)
           /\ NodeIn(h, s) # NoNode =>
                 /\ HeapOK(Allocate(h, s, h[NodeIn(h, s)]))
                 /\ Grown(h, Allocate(h, s, h[NodeIn(h, s)]), s)
<1> DEFINE n == NodeIn(h, s)
<1>1. n \in Nodes(h) \cup {NoNode} /\ NoNode \notin DOMAIN h
  BY DEF HeapOK, CellType, NodeIn
<1>2. \A b : <<n, b>> \in Slots(h) <=> n \in DOMAIN h /\ b \in DOMAIN h[n]
  BY SlotsDef
<1>3. ASSUME NEW node, DOMAIN node \subseteq Byte, \A b \in DOMAIN node : node[b] \in CellType(h),
             \A b : b \in DOMAIN node <=> <<n, b>> \in Slots(h),
             \A b \in DOMAIN node : node[b] = At(h, <<n, b>>)
      PROVE  HeapOK(Allocate(h, s, node)) /\ Grown(h, Allocate(h, s, node), s)
  <2> DEFINE g == Allocate(h, s, node)
             m == NodeIn(g, s)
  <2>1. /\ HeapOK(g)
        /\ m \notin DOMAIN h /\ m # NoNode
        /\ DOMAIN g = DOMAIN h \cup {m}
        /\ Slots(h) \subseteq Slots(g)
        /\ \A t \in Slots(g) : t \notin Slots(h) => t[1] = m
        /\ At(g, s).val = At(h, s).val
        /\ \A t \in Slots(h) : t # s => At(g, t) = At(h, t)
        /\ \A b : <<m, b>> \in Slots(g) <=> b \in DOMAIN node
        /\ \A b \in DOMAIN node : At(g, <<m, b>>) = CellIn(node, b)
    BY <1>3, AllocateFacts
  <2> HIDE DEF g
  <2>5. \A b : <<n, b>> \in Slots(h) => At(g, <<m, b>>) = At(h, <<n, b>>)
    BY <1>3, <2>1 DEF CellIn
  <2>6. \A b : <<m, b>> \in Slots(g) <=> <<n, b>> \in Slots(h)
    BY <1>3, <2>1
  <2>7. Slots(h) \subseteq Slots(g)
    BY <2>1
  <2> HIDE DEF n, m
  <2>8. Grown(h, g, s)
    BY <2>1, <2>5, <2>6, <2>7 DEF Grown, n, m
  <2> QED BY <2>1, <2>8 DEF g
<1>4. ASSUME n = NoNode
      PROVE  HeapOK(Allocate(h, s, EmptyNode)) /\ Grown(h, Allocate(h, s, EmptyNode), s)
  <2>1. DOMAIN EmptyNode = {}
    BY DEF EmptyNode
  <2>2. \A b : ~(<<n, b>> \in Slots(h))
    BY <1>1, <1>2, <1>4
  <2> HIDE DEF n
  <2> QED BY <1>3, <2>1, <2>2
<1>5. ASSUME n # NoNode
      PROVE  HeapOK(Allocate(h, s, h[n])) /\ Grown(h, Allocate(h, s, h[n]), s)
  <2>1. n \in DOMAIN h /\ n # Roots
    BY <1>1, <1>5 DEF Nodes
  <2>2. \A b \in DOMAIN h[n] : <<n, b>> \in Slots(h) /\ At(h, <<n, b>>) = h[n][b]
    BY <1>2, <2>1 DEF At
  <2>3. \A b \in DOMAIN h[n] : b \in Byte /\ h[n][b] \in CellType(h)
    BY <2>1, <2>2 DEF HeapOK, Named
  <2> HIDE DEF n
  <2> QED BY <1>2, <1>3, <2>1, <2>2, <2>3
<1> QED BY <1>4, <1>5 DEF n

\* make_mut: the node is the slot's own afterwards, new or a copy if need be.
LEMMA MakeMutFacts ==
    ASSUME NEW h, HeapOK(h), NEW s \in Slots(h)
    PROVE  LET g == MakeMut(h, s)
           IN /\ HeapOK(g)
              /\ Slots(h) \subseteq Slots(g)
              /\ NodeIn(g, s) # NoNode /\ Sole(g, s)
              /\ NodeIn(h, s) # NoNode /\ Sole(h, s) => g = h
              /\ g = h \/ (Grown(h, g, s) /\ (NodeIn(h, s) = NoNode \/ ~Sole(h, s)))
<1> DEFINE n == NodeIn(h, s)
           g == MakeMut(h, s)
<1>1. (Refs(h, n) > 1) <=> ~Sole(h, s)
  BY SoleRefs
<1>2. CASE n # NoNode /\ Sole(h, s)
  <2>1. g = h
    BY <1>1, <1>2 DEF MakeMut, NodeIn
  <2> QED BY <1>2, <2>1
<1>3. CASE n = NoNode \/ ~Sole(h, s)
  <2>1. HeapOK(g) /\ Grown(h, g, s)
    BY <1>1, <1>3, AllocateGrows DEF MakeMut, NodeIn
  <2> HIDE DEF g
  <2>2. Sole(g, s)
    <3>1. ASSUME NEW t \in Slots(g), NodeIn(g, t) = NodeIn(g, s), t # s
          PROVE  FALSE
      <4>1. \A u \in Slots(h) : NodeIn(h, u) \in DOMAIN h \cup {NoNode}
        BY DEF HeapOK, CellType, Nodes, NodeIn
      <4>2. CASE t \in Slots(h)
        BY <2>1, <3>1, <4>1, <4>2 DEF Grown, NodeIn
      <4>3. CASE t \notin Slots(h)
        <5>1. t = <<NodeIn(g, s), t[2]>>
          BY <2>1, <4>3, SlotsDef DEF Grown
        <5>2. <<n, t[2]>> \in Slots(h) /\ At(g, t) = At(h, <<n, t[2]>>)
          BY <2>1, <5>1 DEF Grown
        <5> QED BY <2>1, <3>1, <4>1, <5>2 DEF Grown, NodeIn
      <4> QED BY <4>2, <4>3
    <3> QED BY <3>1 DEF Sole
  <2> QED BY <1>3, <2>1, <2>2 DEF Grown, g
<1> QED BY <1>2, <1>3

\* Induction on paths, with the property as a set of paths.
LEMMA PathInduction ==
    ASSUME NEW S, <<>> \in S,
           \A p \in Seq(Byte) : p \in S => \A b \in Byte : Append(p, b) \in S
    PROVE  \A p \in Seq(Byte) : p \in S
<1> DEFINE N == {n \in Nat : \A p \in Seq(Byte) : Len(p) = n => p \in S}
<1>1. 0 \in N
  BY DEF N
<1>2. ASSUME NEW n \in Nat, n \in N
      PROVE  n + 1 \in N
  <2>1. ASSUME NEW p \in Seq(Byte), Len(p) = n + 1
        PROVE  p \in S
    <3> DEFINE q == SubSeq(p, 1, n)
    <3>1. q \in Seq(Byte) /\ Len(q) = n /\ p[n + 1] \in Byte /\ p = Append(q, p[n + 1])
      BY <2>1
    <3> HIDE DEF q
    <3>2. q \in S
      BY <1>2, <3>1
    <3>3. Append(q, p[n + 1]) \in S
      BY <3>1, <3>2
    <3> QED BY <3>1, <3>3
  <2> QED BY <2>1
<1> HIDE DEF N
<1>3. ASSUME NEW p \in Seq(Byte)
      PROVE  p \in S
  <2>1. Len(p) \in N
    BY <1>1, <1>2, NatSetInduction
  <2> QED BY <2>1 DEF N
<1> QED BY <1>3

-----------------------------------------------------------------------------
(* Chains: the slots on the way down a path, when nobody else refers to    *)
(* the nodes in between.                                                   *)

\* The k-th slot of chain c.
Stop(c, k) == c[k]

Chain(h, a, c) ==
    /\ Stop(c, 0) = HeadSlot
    /\ \A k \in 0..Len(a) : Stop(c, k) \in Slots(h)
    /\ \A k \in 0..(Len(a) - 1) :
          /\ NodeIn(h, Stop(c, k)) # NoNode
          /\ Stop(c, k + 1) = <<NodeIn(h, Stop(c, k)), a[k + 1]>>
          /\ Sole(h, Stop(c, k))

\* Slot s is none of the first slots of c, up to the n-th.
OffChain(c, n, s) == \A k \in 0..n : s # Stop(c, k)

\* Slots, cells and nodes of a heap.
LEMMA HeapFacts ==
    ASSUME NEW h, HeapOK(h)
    PROVE  /\ \A s \in Slots(h) : /\ NodeIn(h, s) \in Nodes(h) \cup {NoNode}
                                  /\ NodeIn(h, s) # Roots
                                  /\ At(h, s) \in CellType(h)
                                  /\ NodeIn(h, s) # NoNode => NodeIn(h, s) \in DOMAIN h
           /\ \A s : s \in Slots(h) => Named(h, s)
           /\ NoNode \notin DOMAIN h /\ Roots \in DOMAIN h /\ HeadSlot \in Slots(h)
           /\ HeadSlot[1] = Roots /\ NoNode # Roots
<1>1. HeadSlot[1] = Roots /\ NoNode # Roots
  BY DEF HeadSlot, NoNode, Roots
<1> QED BY <1>1 DEF HeapOK, CellType, NodeIn, Nodes

\* The node of every slot of a chain but the first is the one that the slot before leads to.
LEMMA ChainFacts ==
    ASSUME NEW h, HeapOK(h), NEW a \in Seq(Byte), NEW c, Chain(h, a, c)
    PROVE  /\ \A k \in 0..Len(a) : Stop(c, k) \in Slots(h) /\ (Stop(c, k)[1] = Roots <=> k = 0)
           /\ \A k \in 1..Len(a) : /\ k - 1 \in 0..(Len(a) - 1)
                                   /\ Stop(c, k)[1] = NodeIn(h, Stop(c, k - 1))
                                   /\ Stop(c, k) = <<NodeIn(h, Stop(c, k - 1)), a[k]>>
           /\ \A i, j \in 0..Len(a) : Stop(c, i) = Stop(c, j) => i = j
<1>1. \A k \in 1..Len(a) : /\ k - 1 \in 0..(Len(a) - 1) /\ (k - 1) + 1 = k
                           /\ Stop(c, k) = <<NodeIn(h, Stop(c, k - 1)), a[k]>>
  <2>1. ASSUME NEW k \in 1..Len(a)
        PROVE  /\ k - 1 \in 0..(Len(a) - 1) /\ (k - 1) + 1 = k
               /\ Stop(c, k) = <<NodeIn(h, Stop(c, k - 1)), a[k]>>
    <3>1. k - 1 \in 0..(Len(a) - 1) /\ (k - 1) + 1 = k
      OBVIOUS
    <3>2. Stop(c, (k - 1) + 1) = <<NodeIn(h, Stop(c, k - 1)), a[(k - 1) + 1]>>
      BY <3>1 DEF Chain
    <3> QED BY <3>1, <3>2
  <2> QED BY <2>1
<1>2. \A k \in 1..Len(a) : Stop(c, k)[1] = NodeIn(h, Stop(c, k - 1))
  BY <1>1
<1>3. \A k \in 0..Len(a) : Stop(c, k) \in Slots(h)
  BY DEF Chain
<1>4. \A k \in 1..Len(a) : Stop(c, k)[1] # Roots
  <2>1. \A k \in 1..Len(a) : k - 1 \in 0..Len(a)
    OBVIOUS
  <2> QED BY <1>2, <1>3, <2>1, HeapFacts
<1>5. Stop(c, 0)[1] = Roots
  BY HeapFacts DEF Chain
<1>6. ASSUME NEW i \in 0..Len(a), NEW j \in 0..Len(a), i < j, Stop(c, i) = Stop(c, j)
      PROVE  FALSE
  <2> DEFINE D == {m \in 0..Len(a) : \E l \in 0..Len(a) : m < l /\ Stop(c, m) = Stop(c, l)}
  <2>1. D \in SUBSET Nat /\ D # {}
    BY <1>6
  <2>2. PICK m \in D : \A k \in D : m <= k
    BY <2>1, LeastNumber
  <2>3. PICK l \in 0..Len(a) : m < l /\ Stop(c, m) = Stop(c, l)
    BY <2>2
  <2>4. CASE m = 0
    BY <1>4, <1>5, <2>3, <2>4
  <2>5. CASE m # 0
    <3>1. m \in 1..Len(a) /\ l \in 1..Len(a) /\ m - 1 \in 0..Len(a) /\ l - 1 \in 0..Len(a)
      BY <2>3, <2>5
    <3>2. NodeIn(h, Stop(c, m - 1)) = NodeIn(h, Stop(c, l - 1))
      BY <1>2, <2>3, <3>1
    <3>3. Sole(h, Stop(c, l - 1))
      BY <1>1, <3>1 DEF Chain
    <3>4. Stop(c, m - 1) = Stop(c, l - 1)
      BY <1>3, <3>1, <3>2, <3>3 DEF Sole
    <3>5. m - 1 \in D
      BY <2>3, <3>1, <3>4
    <3> QED BY <2>2, <3>5
  <2> QED BY <2>4, <2>5
<1>7. ASSUME NEW i \in 0..Len(a), NEW j \in 0..Len(a), Stop(c, i) = Stop(c, j)
      PROVE  i = j
  <2>1. ~(i < j) /\ ~(j < i)
    BY <1>6, <1>7
  <2> QED BY <2>1
<1>8. \A k \in 0..Len(a) : Stop(c, k)[1] = Roots <=> k = 0
  <2>1. \A k \in 0..Len(a) : k = 0 \/ k \in 1..Len(a)
    OBVIOUS
  <2> QED BY <1>4, <1>5, <2>1
<1> QED BY <1>1, <1>2, <1>3, <1>7, <1>8

\* A new node off the chain, or at its end, leaves it as it is.
LEMMA ChainGrows ==
    ASSUME NEW h, HeapOK(h), NEW a \in Seq(Byte), NEW c, Chain(h, a, c),
           NEW g, NEW s \in Slots(h), Grown(h, g, s), OffChain(c, Len(a) - 1, s)
    PROVE  /\ Chain(g, a, c)
           /\ NodeIn(h, Stop(c, Len(a))) # NoNode => NodeIn(g, Stop(c, Len(a))) # NoNode
<1>1. \A k \in 0..Len(a) : Stop(c, k) \in Slots(h) /\ Stop(c, k) \in Slots(g)
  BY ChainFacts DEF Grown
<1>2. ASSUME NEW t \in Slots(h), t # s
      PROVE  NodeIn(g, t) = NodeIn(h, t)
  BY <1>2 DEF Grown, NodeIn
<1>3. \A k \in 0..(Len(a) - 1) : k \in 0..Len(a) /\ Stop(c, k) # s
  BY DEF OffChain
<1>4. ASSUME NEW k \in 0..(Len(a) - 1), NEW t \in Slots(g), NodeIn(g, t) = NodeIn(g, Stop(c, k))
      PROVE  t = Stop(c, k)
  <2> DEFINE x == NodeIn(h, Stop(c, k))
  <2>1. NodeIn(g, Stop(c, k)) = x /\ x # NoNode /\ Sole(h, Stop(c, k)) /\ x \in DOMAIN h
    BY <1>1, <1>2, <1>3, HeapFacts DEF Chain
  <2>2. CASE t \in Slots(h)
    <3>1. t # s
      BY <1>4, <2>1 DEF Grown, NodeIn
    <3> QED BY <1>2, <1>4, <2>1, <2>2, <3>1 DEF Sole
  <2>3. CASE t \notin Slots(h)
    <3> DEFINE n == NodeIn(h, s)
               u == <<n, t[2]>>
    <3>1. t = <<NodeIn(g, s), t[2]>>
      BY <2>3, SlotsDef DEF Grown, NodeIn
    <3>2. u \in Slots(h) /\ At(g, t) = At(h, u)
      BY <3>1 DEF Grown, NodeIn
    <3>3. NodeIn(h, u) = x
      BY <1>4, <2>1, <3>2 DEF NodeIn
    <3>4. u = Stop(c, k)
      BY <2>1, <3>2, <3>3 DEF Sole
    <3>5. u[1] = n
      OBVIOUS
    <3>6. n # Roots
      BY HeapFacts
    <3>7. k \in 1..Len(a)
      BY <1>3, <3>4, <3>5, <3>6, ChainFacts
    <3>8. k - 1 \in 0..(Len(a) - 1) /\ NodeIn(h, Stop(c, k - 1)) = NodeIn(h, s)
      BY <3>4, <3>5, <3>7, ChainFacts
    <3>9. Sole(h, Stop(c, k - 1))
      BY <3>8 DEF Chain
    <3>10. s = Stop(c, k - 1)
      BY <3>8, <3>9 DEF Sole
    <3> QED BY <1>3, <3>8, <3>10
  <2> QED BY <2>2, <2>3
<1>5. ASSUME NEW k \in 0..(Len(a) - 1)
      PROVE  /\ NodeIn(g, Stop(c, k)) # NoNode
             /\ Stop(c, k + 1) = <<NodeIn(g, Stop(c, k)), a[k + 1]>>
             /\ Sole(g, Stop(c, k))
  <2>1. NodeIn(g, Stop(c, k)) = NodeIn(h, Stop(c, k))
    BY <1>1, <1>2, <1>3
  <2>2. Sole(g, Stop(c, k))
    BY <1>4 DEF Sole
  <2> QED BY <2>1, <2>2 DEF Chain
<1>6. Chain(g, a, c)
  BY <1>1, <1>5 DEF Chain
<1>7. ASSUME NodeIn(h, Stop(c, Len(a))) # NoNode
      PROVE  NodeIn(g, Stop(c, Len(a))) # NoNode
  <2>1. Stop(c, Len(a)) \in Slots(h)
    BY <1>1
  <2>2. CASE Stop(c, Len(a)) = s
    BY <2>2 DEF Grown, NodeIn
  <2> QED BY <1>2, <1>7, <2>1, <2>2
<1> QED BY <1>6, <1>7

\* The cell d of a slot off the chain, or at its end, is written, and does not lead to a
\* node of the chain.
LEMMA ChainWrites ==
    ASSUME NEW h, HeapOK(h), NEW a \in Seq(Byte), NEW c, Chain(h, a, c),
           NEW s, Named(h, s), NEW d \in CellType(h), OffChain(c, Len(a) - 1, s),
           d.rec = NoNode \/ \A k \in 0..(Len(a) - 1) : d.rec # NodeIn(h, Stop(c, k))
    PROVE  Chain(WithCell(h, s, d), a, c)
<1> DEFINE g == WithCell(h, s, d)
<1>1. /\ Slots(g) = Slots(h) \cup {s}
      /\ NodeIn(g, s) = d.rec
      /\ \A t \in Slots(h) : t # s => NodeIn(g, t) = NodeIn(h, t)
  BY WithCellFacts DEF NodeIn
<1> HIDE DEF g
<1>2. \A k \in 0..(Len(a) - 1) :
          /\ k \in 0..Len(a) /\ Stop(c, k) # s /\ Stop(c, k) \in Slots(h)
          /\ NodeIn(g, Stop(c, k)) = NodeIn(h, Stop(c, k))
          /\ NodeIn(h, Stop(c, k)) # NoNode
          /\ Sole(h, Stop(c, k))
  BY <1>1, ChainFacts DEF OffChain, Chain
<1>6. \A k \in 0..(Len(a) - 1) : NodeIn(g, s) # NodeIn(h, Stop(c, k))
  BY <1>1, <1>2
<1>3. \A k \in 0..(Len(a) - 1) : Sole(g, Stop(c, k))
  BY <1>1, <1>2, <1>6 DEF Sole
<1>4. \A k \in 0..Len(a) : Stop(c, k) \in Slots(g)
  BY <1>1, ChainFacts
<1>5. Chain(g, a, c)
  BY <1>2, <1>3, <1>4 DEF Chain
<1> QED BY <1>5 DEF g

\* A cell whose node stays the same is written, anywhere.
LEMMA ChainKeepsNode ==
    ASSUME NEW h, HeapOK(h), NEW a \in Seq(Byte), NEW c, Chain(h, a, c),
           NEW s \in Slots(h), NEW d \in CellType(h), d.rec = NodeIn(h, s)
    PROVE  /\ Chain(WithCell(h, s, d), a, c)
           /\ \A t \in Slots(h) : NodeIn(WithCell(h, s, d), t) = NodeIn(h, t)
<1> DEFINE g == WithCell(h, s, d)
<1>0. /\ Slots(g) = Slots(h) \cup {s}
      /\ At(g, s) = d
      /\ \A t \in Slots(h) : t # s => At(g, t) = At(h, t)
  BY WithCellFacts, HeapFacts
<1> HIDE DEF g
<1>1. /\ Slots(g) = Slots(h)
      /\ \A t \in Slots(h) : NodeIn(g, t) = NodeIn(h, t)
  <2>1. NodeIn(g, s) = NodeIn(h, s)
    BY <1>0 DEF NodeIn
  <2> QED BY <1>0, <2>1 DEF NodeIn
<1>2. \A k \in 0..(Len(a) - 1) : k \in 0..Len(a) /\ Stop(c, k) \in Slots(h)
  BY ChainFacts
<1>3. \A k \in 0..(Len(a) - 1) : Sole(g, Stop(c, k))
  BY <1>1, <1>2 DEF Sole, Chain
<1>5. Chain(g, a, c)
  BY <1>1, <1>2, <1>3 DEF Chain
<1> QED BY <1>1, <1>5 DEF g

\* A slot off the chain is taken out.
LEMMA ChainCut ==
    ASSUME NEW h, HeapOK(h), NEW a \in Seq(Byte), NEW c, Chain(h, a, c),
           NEW s \in Slots(h), s # HeadSlot, OffChain(c, Len(a), s)
    PROVE  /\ Chain(WithoutCell(h, s), a, c)
           /\ \A t \in Slots(h) : t # s => NodeIn(WithoutCell(h, s), t) = NodeIn(h, t)
<1> DEFINE g == WithoutCell(h, s)
<1>1. /\ Slots(g) = Slots(h) \ {s}
      /\ \A t \in Slots(h) : t # s => NodeIn(g, t) = NodeIn(h, t)
  BY WithoutCellFacts DEF NodeIn
<1> HIDE DEF g
<1>2. \A k \in 0..Len(a) : Stop(c, k) # s /\ Stop(c, k) \in Slots(h)
  BY ChainFacts DEF OffChain
<1>3. \A k \in 0..(Len(a) - 1) : k \in 0..Len(a)
  OBVIOUS
<1>4. \A k \in 0..(Len(a) - 1) : Sole(g, Stop(c, k))
  BY <1>1, <1>2, <1>3 DEF Sole, Chain
<1>5. Chain(g, a, c)
  BY <1>1, <1>2, <1>3, <1>4 DEF Chain
<1> QED BY <1>1, <1>5 DEF g

-----------------------------------------------------------------------------
(* What the steps of a walk do to a chain.                                 *)

\* A slot is off the chain, at its end, or one of its stops before.
LEMMA OnOrOff ==
    ASSUME NEW a, NEW c, NEW s
    PROVE  OffChain(c, Len(a) - 1, s) \/ \E k \in 0..(Len(a) - 1) : s = Stop(c, k)
BY DEF OffChain

\* make_mut keeps chains, and has nothing to do on one.
LEMMA MakeMutChain ==
    ASSUME NEW h, HeapOK(h), NEW s \in Slots(h), NEW a \in Seq(Byte), NEW c, Chain(h, a, c)
    PROVE  /\ Chain(MakeMut(h, s), a, c)
           /\ NodeIn(h, Stop(c, Len(a))) # NoNode => NodeIn(MakeMut(h, s), Stop(c, Len(a))) # NoNode
           /\ (\E k \in 0..(Len(a) - 1) : s = Stop(c, k)) => MakeMut(h, s) = h
<1> DEFINE g == MakeMut(h, s)
<1>1. /\ NodeIn(h, s) # NoNode /\ Sole(h, s) => g = h
      /\ g = h \/ Grown(h, g, s)
  BY MakeMutFacts
<1> HIDE DEF g
<1>2. ASSUME NEW k \in 0..(Len(a) - 1), s = Stop(c, k)
      PROVE  g = h
  BY <1>1, <1>2 DEF Chain
<1>3. CASE g = h
  BY <1>3 DEF g
<1>4. CASE g # h
  <2>1. OffChain(c, Len(a) - 1, s)
    BY <1>2, <1>4, OnOrOff
  <2>2. Grown(h, g, s)
    BY <1>1, <1>4
  <2>3. Chain(g, a, c) /\ (NodeIn(h, Stop(c, Len(a))) # NoNode => NodeIn(g, Stop(c, Len(a))) # NoNode)
    BY <2>1, <2>2, ChainGrows
  <2> QED BY <1>2, <2>3 DEF g
<1> QED BY <1>3, <1>4

\* EnsureNode is the first half of MakeMut.
LEMMA EnsureNodeFacts ==
    ASSUME NEW h, HeapOK(h), NEW s \in Slots(h)
    PROVE  /\ EnsureNode(h, s) = h \/ EnsureNode(h, s) = MakeMut(h, s)
           /\ NodeIn(h, s) # NoNode => EnsureNode(h, s) = h
           /\ NodeIn(EnsureNode(h, s), s) # NoNode
<1>1. NodeIn(h, s) = NoNode => EnsureNode(h, s) = MakeMut(h, s)
  BY DEF EnsureNode, MakeMut, NodeIn
<1>2. NodeIn(h, s) # NoNode => EnsureNode(h, s) = h
  BY DEF EnsureNode, NodeIn
<1>3. NodeIn(MakeMut(h, s), s) # NoNode
  BY MakeMutFacts
<1> QED BY <1>1, <1>2, <1>3

\* One byte down for writing.
LEMMA DescendFacts ==
    ASSUME NEW h, HeapOK(h), NEW s \in Slots(h), NEW b \in Byte
    PROVE  LET g == HeapOf(Descend(h, s, b))
               t == SlotOf(Descend(h, s, b))
           IN /\ HeapOK(g)
              /\ Slots(h) \subseteq Slots(g)
              /\ t \in Slots(g)
              /\ t = <<NodeIn(g, s), b>>
              /\ NodeIn(g, s) # NoNode /\ Sole(g, s)
              /\ g = MakeMut(h, s) \/ (t \notin Slots(MakeMut(h, s)) /\ g = WithCell(MakeMut(h, s), t, NoCell))
              /\ t = <<NodeIn(MakeMut(h, s), s), b>>
              /\ t \in Slots(MakeMut(h, s)) => g = MakeMut(h, s)
<1> DEFINE f == MakeMut(h, s)
           t == <<NodeIn(f, s), b>>
           g == IF t \in Slots(f) THEN f ELSE WithCell(f, t, NoCell)
<1>1. Descend(h, s, b) = [heap |-> g, slot |-> t]
  BY DEF Descend, Attached, NodeIn
<1>2. HeapOf(Descend(h, s, b)) = g /\ SlotOf(Descend(h, s, b)) = t
  BY <1>1 DEF HeapOf, SlotOf
<1>3. HeapOK(f) /\ Slots(h) \subseteq Slots(f) /\ NodeIn(f, s) # NoNode /\ Sole(f, s)
  BY MakeMutFacts
<1>4. s \in Slots(f)
  BY <1>3
<1>5. t[1] = NodeIn(f, s) /\ t[2] = b
  OBVIOUS
<1> HIDE DEF f
<1>6. Named(f, t)
  BY <1>3, <1>4, HeapFacts DEF Named
<1>7. NoCell \in CellType(f) /\ NoCell.rec = NoNode
  BY DEF NoCell, CellType
<1> HIDE DEF t
<1>8. CASE t \in Slots(f)
  <2>1. g = f
    BY <1>8
  <2> HIDE DEF g
  <2> QED BY <1>2, <1>3, <1>8, <2>1 DEF f, t
<1>9. CASE t \notin Slots(f)
  <2>1. g = WithCell(f, t, NoCell)
    BY <1>9
  <2> HIDE DEF g
  <2>2. /\ HeapOK(g)
        /\ Slots(g) = Slots(f) \cup {t}
        /\ At(g, t) = NoCell
        /\ \A u \in Slots(f) : u # t => At(g, u) = At(f, u)
    BY <1>3, <1>6, <1>7, <2>1, WithCellFacts
  <2>3. \A u \in Slots(f) : NodeIn(g, u) = NodeIn(f, u)
    BY <1>9, <2>2 DEF NodeIn
  <2>4. NodeIn(g, t) = NoNode
    BY <1>7, <2>2 DEF NodeIn
  <2>5. Sole(g, s)
    BY <1>3, <1>4, <2>2, <2>3, <2>4 DEF Sole
  <2>6. t = <<NodeIn(g, s), b>> /\ NodeIn(g, s) # NoNode
    BY <1>3, <1>4, <2>3 DEF t
  <2> QED BY <1>2, <1>3, <1>9, <2>1, <2>2, <2>5, <2>6 DEF f, t
<1> QED BY <1>8, <1>9

\* One byte down keeps chains; where it ends with respect to one.
LEMMA DescendChain ==
    ASSUME NEW h, HeapOK(h), NEW s \in Slots(h), NEW b \in Byte,
           NEW a \in Seq(Byte), NEW c, Chain(h, a, c)
    PROVE  LET g == HeapOf(Descend(h, s, b))
               t == SlotOf(Descend(h, s, b))
           IN /\ Chain(g, a, c)
              /\ NodeIn(h, Stop(c, Len(a))) # NoNode => NodeIn(g, Stop(c, Len(a))) # NoNode
              /\ OffChain(c, Len(a) - 1, s) => OffChain(c, Len(a), t)
              /\ \A k \in 0..(Len(a) - 1) : s = Stop(c, k) =>
                    IF b = a[k + 1] THEN g = h /\ t = Stop(c, k + 1) ELSE OffChain(c, Len(a), t)
<1> DEFINE f == MakeMut(h, s)
           g == HeapOf(Descend(h, s, b))
           t == SlotOf(Descend(h, s, b))
<1>1. /\ HeapOK(g)
      /\ t \in Slots(g)
      /\ t = <<NodeIn(f, s), b>>
      /\ t \in Slots(f) => g = f
      /\ g = f \/ (t \notin Slots(f) /\ g = WithCell(f, t, NoCell))
  BY DescendFacts
<1>2. HeapOK(f) /\ Slots(h) \subseteq Slots(f) /\ NodeIn(f, s) # NoNode /\ Sole(f, s)
  BY MakeMutFacts
<1>3. /\ Chain(f, a, c)
      /\ NodeIn(h, Stop(c, Len(a))) # NoNode => NodeIn(f, Stop(c, Len(a))) # NoNode
      /\ (\E k \in 0..(Len(a) - 1) : s = Stop(c, k)) => f = h
  BY MakeMutChain
<1> HIDE DEF f, g, t
<1>4. t[1] = NodeIn(f, s) /\ t[2] = b /\ NodeIn(f, s) # Roots /\ s \in Slots(f)
  BY <1>1, <1>2, HeapFacts
<1>5. ASSUME NEW k \in 0..Len(a), t = Stop(c, k)
      PROVE  k \in 1..Len(a) /\ s = Stop(c, k - 1) /\ b = a[k] /\ k - 1 \in 0..(Len(a) - 1)
  <2>1. k \in 1..Len(a)
    BY <1>2, <1>3, <1>4, <1>5, ChainFacts
  <2>2. /\ k - 1 \in 0..(Len(a) - 1) /\ k - 1 \in 0..Len(a)
        /\ Stop(c, k) = <<NodeIn(f, Stop(c, k - 1)), a[k]>>
    BY <1>2, <1>3, <2>1, ChainFacts
  <2>3. NodeIn(f, Stop(c, k - 1)) = NodeIn(f, s) /\ a[k] = b
    BY <1>1, <1>5, <2>2
  <2>4. Stop(c, k - 1) \in Slots(f)
    BY <1>2, <1>3, <2>2, ChainFacts
  <2>5. Stop(c, k - 1) = s
    BY <1>2, <2>3, <2>4 DEF Sole
  <2> QED BY <2>1, <2>2, <2>3, <2>5
<1>6. /\ Chain(g, a, c)
      /\ NodeIn(f, Stop(c, Len(a))) # NoNode => NodeIn(g, Stop(c, Len(a))) # NoNode
  <2>1. CASE g = f
    BY <1>3, <2>1
  <2>2. CASE t \notin Slots(f) /\ g = WithCell(f, t, NoCell)
    <3>1. \A k \in 0..Len(a) : Stop(c, k) \in Slots(f)
      BY <1>2, <1>3, ChainFacts
    <3>2. OffChain(c, Len(a) - 1, t) /\ Len(a) \in 0..Len(a)
      <4>1. \A k \in 0..(Len(a) - 1) : k \in 0..Len(a)
        OBVIOUS
      <4> QED BY <2>2, <3>1, <4>1 DEF OffChain
    <3>3. Named(f, t)
      BY <1>1, <1>2, <1>4, HeapFacts DEF Named
    <3>4. NoCell \in CellType(f) /\ NoCell.rec = NoNode
      BY DEF NoCell, CellType
    <3>5. Chain(g, a, c)
      BY <1>2, <1>3, <2>2, <3>2, <3>3, <3>4, ChainWrites
    <3>6. \A u \in Slots(f) : u # t => At(g, u) = At(f, u)
      BY <1>2, <2>2, <3>3, <3>4, WithCellFacts
    <3>7. NodeIn(g, Stop(c, Len(a))) = NodeIn(f, Stop(c, Len(a)))
      BY <2>2, <3>1, <3>2, <3>6 DEF NodeIn
    <3> QED BY <3>5, <3>7
  <2> QED BY <1>1, <2>1, <2>2
<1>7. ASSUME OffChain(c, Len(a) - 1, s)
      PROVE  OffChain(c, Len(a), t)
  BY <1>5, <1>7 DEF OffChain
<1>8. ASSUME NEW k \in 0..(Len(a) - 1), s = Stop(c, k), b = a[k + 1]
      PROVE  g = h /\ t = Stop(c, k + 1)
  <2>1. f = h
    BY <1>3, <1>8
  <2>2. t = Stop(c, k + 1)
    BY <1>1, <1>8, <2>1 DEF Chain
  <2>3. t \in Slots(f)
    <3>1. k + 1 \in 0..Len(a)
      OBVIOUS
    <3> QED BY <2>1, <2>2, <3>1 DEF Chain
  <2> QED BY <1>1, <2>1, <2>2, <2>3
<1>9. ASSUME NEW k \in 0..(Len(a) - 1), s = Stop(c, k), b # a[k + 1]
      PROVE  OffChain(c, Len(a), t)
  <2>1. ASSUME NEW j \in 0..Len(a), t = Stop(c, j)
        PROVE  FALSE
    <3>1. j \in 1..Len(a) /\ Stop(c, k) = Stop(c, j - 1) /\ b = a[j] /\ j - 1 \in 0..Len(a) /\ k \in 0..Len(a)
      BY <1>5, <1>9, <2>1
    <3>2. k = j - 1
      BY <3>1, ChainFacts
    <3>3. k + 1 = j
      BY <3>1, <3>2
    <3> QED BY <1>9, <3>1, <3>3
  <2> QED BY <2>1 DEF OffChain
<1>10. \A k \in 0..(Len(a) - 1) : s = Stop(c, k) =>
          IF b = a[k + 1] THEN g = h /\ t = Stop(c, k + 1) ELSE OffChain(c, Len(a), t)
  BY <1>8, <1>9
<1> QED BY <1>3, <1>6, <1>7, <1>10 DEF f, g, t

\* The chain of the path walked grows with it.
LEMMA DescendOwn ==
    ASSUME NEW h, HeapOK(h), NEW s \in Slots(h), NEW b \in Byte,
           NEW p \in Seq(Byte), NEW c, Chain(h, p, c), s = Stop(c, Len(p))
    PROVE  LET g == HeapOf(Descend(h, s, b))
               t == SlotOf(Descend(h, s, b))
           IN \E d : /\ Chain(g, Append(p, b), d)
                     /\ \A k \in 0..Len(p) : Stop(d, k) = Stop(c, k)
                     /\ Stop(d, Len(p) + 1) = t
<1> DEFINE g == HeapOf(Descend(h, s, b))
           t == SlotOf(Descend(h, s, b))
           q == Append(p, b)
           d == [k \in 0..(Len(p) + 1) |-> IF k = Len(p) + 1 THEN t ELSE Stop(c, k)]
<1>1. t \in Slots(g) /\ t = <<NodeIn(g, s), b>> /\ NodeIn(g, s) # NoNode /\ Sole(g, s)
  BY DescendFacts
<1>2. Chain(g, p, c)
  BY DescendChain
<1> HIDE DEF g, t
<1>3. /\ Len(q) = Len(p) + 1 /\ q[Len(p) + 1] = b
      /\ \A k \in 0..(Len(p) - 1) : q[k + 1] = p[k + 1]
  OBVIOUS
<1>4. \A k \in 0..Len(p) : Stop(d, k) = Stop(c, k)
  BY DEF Stop
<1>5. Stop(d, Len(p) + 1) = t
  BY DEF Stop
<1> HIDE DEF d, q
<1>6. \A k \in 0..Len(q) : Stop(d, k) \in Slots(g)
  <2>1. \A k \in 0..Len(q) : k \in 0..Len(p) \/ k = Len(p) + 1
    BY <1>3
  <2> QED BY <1>1, <1>2, <1>4, <1>5, <2>1 DEF Chain
<1>7. ASSUME NEW k \in 0..(Len(q) - 1)
      PROVE  /\ NodeIn(g, Stop(d, k)) # NoNode
             /\ Stop(d, k + 1) = <<NodeIn(g, Stop(d, k)), q[k + 1]>>
             /\ Sole(g, Stop(d, k))
  <2>1. CASE k = Len(p)
    BY <1>1, <1>3, <1>4, <1>5, <2>1
  <2>2. CASE k \in 0..(Len(p) - 1)
    <3>1. Stop(d, k) = Stop(c, k) /\ Stop(d, k + 1) = Stop(c, k + 1)
      BY <1>4, <2>2
    <3> QED BY <1>2, <1>3, <2>2, <3>1 DEF Chain
  <2> QED BY <1>3, <2>1, <2>2
<1>8. Stop(d, 0) = HeadSlot
  BY <1>2, <1>4 DEF Chain
<1>9. Chain(g, q, d)
  BY <1>6, <1>7, <1>8 DEF Chain
<1> QED BY <1>4, <1>5, <1>9 DEF g, t, q

\* Path p begins a; where slot s, at the end of path p, is with respect to the chain of a.
Begins(p, a) == Len(p) <= Len(a) /\ \A k \in 1..Len(p) : p[k] = a[k]
Placed(c, a, p, s) == IF Begins(p, a) THEN s = Stop(c, Len(p)) ELSE OffChain(c, Len(a), s)

\* Begins is IsPrefix, byte by byte.
LEMMA BeginsFacts ==
    ASSUME NEW p \in Seq(Byte), NEW a \in Seq(Byte)
    PROVE  /\ Begins(p, a) <=> IsPrefix(p, a)
           /\ Begins(<<>>, a)
           /\ \A b \in Byte : Begins(Append(p, b), a) <=> Begins(p, a) /\ Len(p) < Len(a) /\ b = a[Len(p) + 1]
           /\ Begins(p, a) /\ Len(p) = Len(a) => p = a
<1>1. Begins(p, a) <=> IsPrefix(p, a)
  <2>1. Byte \subseteq Nat
    BY HeadAssumption
  <2>2. p \in Seq(Nat) /\ a \in Seq(Nat)
    BY <2>1, SeqMonotonic
  <2> QED BY <2>2, PrefixPointwise DEF Begins
<1>2. Begins(<<>>, a)
  BY DEF Begins
<1>3. ASSUME NEW b \in Byte
      PROVE  Begins(Append(p, b), a) <=> Begins(p, a) /\ Len(p) < Len(a) /\ b = a[Len(p) + 1]
  <2> DEFINE q == Append(p, b)
  <2>1. Len(q) = Len(p) + 1 /\ q[Len(p) + 1] = b /\ \A k \in 1..Len(p) : q[k] = p[k]
    OBVIOUS
  <2> HIDE DEF q
  <2>2. \A k \in 1..Len(q) : k \in 1..Len(p) \/ k = Len(p) + 1
    BY <2>1
  <2>3. \A k \in 1..Len(p) : k \in 1..Len(q)
    BY <2>1
  <2>4. Len(p) + 1 \in 1..Len(q)
    BY <2>1
  <2>5. ASSUME Begins(q, a)
        PROVE  Begins(p, a) /\ Len(p) < Len(a) /\ b = a[Len(p) + 1]
    BY <2>1, <2>3, <2>4, <2>5 DEF Begins
  <2>6. ASSUME Begins(p, a), Len(p) < Len(a), b = a[Len(p) + 1]
        PROVE  Begins(q, a)
    BY <2>1, <2>2, <2>6 DEF Begins
  <2> QED BY <2>5, <2>6 DEF q
<1>4. Begins(p, a) /\ Len(p) = Len(a) => p = a
  BY DEF Begins
<1> QED BY <1>1, <1>2, <1>3, <1>4

\* One path after another.
LEMMA ConcatFacts ==
    ASSUME NEW p \in Seq(Byte), NEW r \in Seq(Byte)
    PROVE  /\ p \o r \in Seq(Byte)
           /\ Len(p \o r) = Len(p) + Len(r)
           /\ p \o <<>> = p
           /\ <<>> \o r = r
           /\ \A b \in Byte : p \o Append(r, b) = Append(p \o r, b)
           /\ Begins(p, p \o r)
<1>1. \A b \in Byte : p \o Append(r, b) = Append(p \o r, b)
  OBVIOUS
<1>2. Begins(p, p \o r)
  BY DEF Begins
<1> QED BY <1>1, <1>2

\* One byte down from a slot whose place with respect to a chain is known.
LEMMA DescendPlaced ==
    ASSUME NEW h, HeapOK(h), NEW s \in Slots(h), NEW b \in Byte,
           NEW a \in Seq(Byte), NEW c, Chain(h, a, c), NEW p \in Seq(Byte), Placed(c, a, p, s)
    PROVE  /\ Placed(c, a, Append(p, b), SlotOf(Descend(h, s, b)))
           /\ Begins(Append(p, b), a) => HeapOf(Descend(h, s, b)) = h
<1> DEFINE g == HeapOf(Descend(h, s, b))
           t == SlotOf(Descend(h, s, b))
           q == Append(p, b)
<1>1. /\ OffChain(c, Len(a) - 1, s) => OffChain(c, Len(a), t)
      /\ \A k \in 0..(Len(a) - 1) : s = Stop(c, k) =>
            IF b = a[k + 1] THEN g = h /\ t = Stop(c, k + 1) ELSE OffChain(c, Len(a), t)
  BY DescendChain
<1> HIDE DEF g, t
<1>2. Begins(q, a) <=> Begins(p, a) /\ Len(p) < Len(a) /\ b = a[Len(p) + 1]
  BY BeginsFacts
<1>3. Len(q) = Len(p) + 1
  OBVIOUS
<1> HIDE DEF q
<1>4. CASE ~Begins(p, a)
  <2>1. OffChain(c, Len(a) - 1, s)
    BY <1>4 DEF Placed, OffChain
  <2> QED BY <1>1, <1>2, <1>4, <2>1 DEF Placed, g, t, q
<1>5. CASE Begins(p, a) /\ Len(p) = Len(a)
  <2>1. OffChain(c, Len(a) - 1, s)
    <3>1. s = Stop(c, Len(a)) /\ Len(a) \in 0..Len(a)
      BY <1>5 DEF Placed
    <3>2. \A k \in 0..(Len(a) - 1) : k \in 0..Len(a) /\ k # Len(a)
      OBVIOUS
    <3> QED BY <3>1, <3>2, ChainFacts DEF OffChain
  <2> QED BY <1>1, <1>2, <1>5, <2>1 DEF Placed, g, t, q
<1>6. CASE Begins(p, a) /\ Len(p) # Len(a)
  <2>1. Len(p) \in 0..(Len(a) - 1) /\ Len(p) < Len(a) /\ s = Stop(c, Len(p))
    BY <1>6 DEF Placed, Begins
  <2>2. IF b = a[Len(p) + 1] THEN g = h /\ t = Stop(c, Len(p) + 1) ELSE OffChain(c, Len(a), t)
    BY <1>1, <2>1
  <2> QED BY <1>2, <1>3, <1>6, <2>1, <2>2 DEF Placed, g, t, q
<1> QED BY <1>4, <1>5, <1>6

\* A walk: it adds to the heap, and ends in a slot of it.
LEMMA WalkFacts ==
    ASSUME NEW h, HeapOK(h), NEW s \in Slots(h), NEW r \in Seq(Byte)
    PROVE  LET w == Walk(h, s, r)
           IN HeapOK(HeapOf(w)) /\ Slots(h) \subseteq Slots(HeapOf(w)) /\ SlotOf(w) \in Slots(HeapOf(w))
<1> DEFINE W(q) == Walk(h, s, q)
           S == {q \in Seq(Byte) : /\ HeapOK(HeapOf(W(q)))
                                   /\ Slots(h) \subseteq Slots(HeapOf(W(q)))
                                   /\ SlotOf(W(q)) \in Slots(HeapOf(W(q)))}
<1>1. HeapOf(W(<<>>)) = h /\ SlotOf(W(<<>>)) = s
  BY WalkEmpty
<1>2. <<>> \in S
  BY <1>1
<1>3. ASSUME NEW q \in Seq(Byte), q \in S, NEW b \in Byte
      PROVE  Append(q, b) \in S
  <2>1. W(Append(q, b)) = Descend(HeapOf(W(q)), SlotOf(W(q)), b)
    BY WalkAppend
  <2>9. Append(q, b) \in Seq(Byte)
    OBVIOUS
  <2> QED BY <1>3, <2>1, <2>9, DescendFacts
<1> HIDE DEF S
<1>4. r \in S
  BY <1>2, <1>3, PathInduction
<1> QED BY <1>4 DEF S

\* A walk and the chain of another path, which may begin with the path walked.
LEMMA WalkChain ==
    ASSUME NEW h, HeapOK(h), NEW s \in Slots(h), NEW r \in Seq(Byte),
           NEW a \in Seq(Byte), NEW c, Chain(h, a, c), NEW p \in Seq(Byte), Placed(c, a, p, s)
    PROVE  LET w == Walk(h, s, r)
           IN /\ Chain(HeapOf(w), a, c)
              /\ NodeIn(h, Stop(c, Len(a))) # NoNode => NodeIn(HeapOf(w), Stop(c, Len(a))) # NoNode
              /\ Placed(c, a, p \o r, SlotOf(w))
              /\ Begins(p \o r, a) => HeapOf(w) = h
<1> DEFINE W(q) == Walk(h, s, q)
           Good(q) == /\ Chain(HeapOf(W(q)), a, c)
                      /\ NodeIn(h, Stop(c, Len(a))) # NoNode
                            => NodeIn(HeapOf(W(q)), Stop(c, Len(a))) # NoNode
                      /\ Placed(c, a, p \o q, SlotOf(W(q)))
                      /\ Begins(p \o q, a) => HeapOf(W(q)) = h
           S == {q \in Seq(Byte) : Good(q)}
<1>1. HeapOf(W(<<>>)) = h /\ SlotOf(W(<<>>)) = s
  BY WalkEmpty
<1>2. <<>> \in S
  <2>1. p \o <<>> = p /\ <<>> \in Seq(Byte)
    OBVIOUS
  <2> QED BY <1>1, <2>1
<1>3. ASSUME NEW q \in Seq(Byte), q \in S, NEW b \in Byte
      PROVE  Append(q, b) \in S
  <2> DEFINE g == HeapOf(W(q))
             t == SlotOf(W(q))
             pq == p \o q
  <2>1. W(Append(q, b)) = Descend(g, t, b)
    BY WalkAppend
  <2>9. Append(q, b) \in Seq(Byte)
    OBVIOUS
  <2>2. HeapOK(g) /\ t \in Slots(g)
    BY WalkFacts
  <2>3. pq \in Seq(Byte) /\ p \o Append(q, b) = Append(pq, b)
    BY ConcatFacts
  <2>4. /\ Chain(g, a, c)
        /\ NodeIn(h, Stop(c, Len(a))) # NoNode => NodeIn(g, Stop(c, Len(a))) # NoNode
        /\ Placed(c, a, pq, t)
        /\ Begins(pq, a) => g = h
    BY <1>3
  <2> HIDE DEF g, t, pq
  <2>5. /\ Chain(HeapOf(Descend(g, t, b)), a, c)
        /\ NodeIn(g, Stop(c, Len(a))) # NoNode => NodeIn(HeapOf(Descend(g, t, b)), Stop(c, Len(a))) # NoNode
    BY <2>2, <2>4, DescendChain
  <2>6. /\ Placed(c, a, Append(pq, b), SlotOf(Descend(g, t, b)))
        /\ Begins(Append(pq, b), a) => HeapOf(Descend(g, t, b)) = g
    BY <2>2, <2>3, <2>4, DescendPlaced
  <2>7. Begins(Append(pq, b), a) => Begins(pq, a)
    BY <2>3, BeginsFacts
  <2>8. Good(Append(q, b))
    BY <2>1, <2>3, <2>4, <2>5, <2>6, <2>7
  <2> QED BY <2>8, <2>9
<1> HIDE DEF S
<1>4. r \in S
  BY <1>2, <1>3, PathInduction
<1> QED BY <1>4 DEF S

\* A walk and the chain of its own path.
LEMMA WalkOwn ==
    ASSUME NEW h, HeapOK(h), NEW s \in Slots(h), NEW r \in Seq(Byte),
           NEW p \in Seq(Byte), NEW c, Chain(h, p, c), Stop(c, Len(p)) = s
    PROVE  LET w == Walk(h, s, r)
           IN \E d : /\ Chain(HeapOf(w), p \o r, d)
                     /\ \A k \in 0..Len(p) : Stop(d, k) = Stop(c, k)
                     /\ Stop(d, Len(p \o r)) = SlotOf(w)
<1> DEFINE W(q) == Walk(h, s, q)
           Good(q, d) == /\ Chain(HeapOf(W(q)), p \o q, d)
                         /\ \A k \in 0..Len(p) : Stop(d, k) = Stop(c, k)
                         /\ Stop(d, Len(p \o q)) = SlotOf(W(q))
           S == {q \in Seq(Byte) : \E d : Good(q, d)}
<1>0. ASSUME NEW q \in Seq(Byte), NEW b \in Byte
      PROVE  W(Append(q, b)) = Descend(HeapOf(W(q)), SlotOf(W(q)), b)
  <2>1. ASSUME NEW u
        PROVE  Walk(h, u, Append(q, b)) = Descend(HeapOf(Walk(h, u, q)), SlotOf(Walk(h, u, q)), b)
    BY WalkAppend
  <2> QED BY <2>1
<1>1. HeapOf(W(<<>>)) = h /\ SlotOf(W(<<>>)) = s
  BY WalkEmpty
<1>2. <<>> \in S
  <2>1. p \o <<>> = p /\ <<>> \in Seq(Byte)
    OBVIOUS
  <2>2. Good(<<>>, c)
    BY <1>1, <2>1
  <2> QED BY <2>1, <2>2
<1>3. ASSUME NEW q \in Seq(Byte), q \in S, NEW b \in Byte
      PROVE  Append(q, b) \in S
  <2> DEFINE g == HeapOf(W(q))
             t == SlotOf(W(q))
             pq == p \o q
  <2>1. W(Append(q, b)) = Descend(g, t, b)
    BY <1>0
  <2>9. Append(q, b) \in Seq(Byte)
    OBVIOUS
  <2>2. HeapOK(g) /\ t \in Slots(g)
    BY WalkFacts
  <2>3. pq \in Seq(Byte) /\ p \o Append(q, b) = Append(pq, b) /\ Len(pq) = Len(p) + Len(q)
    BY ConcatFacts
  <2>4. PICK d : /\ Chain(g, pq, d)
                 /\ \A k \in 0..Len(p) : Stop(d, k) = Stop(c, k)
                 /\ Stop(d, Len(pq)) = t
    BY <1>3
  <2> HIDE DEF g, t, pq
  <2>5. PICK e : /\ Chain(HeapOf(Descend(g, t, b)), Append(pq, b), e)
                 /\ \A k \in 0..Len(pq) : Stop(e, k) = Stop(d, k)
                 /\ Stop(e, Len(pq) + 1) = SlotOf(Descend(g, t, b))
    <3>1. ASSUME NEW u \in Seq(Byte), NEW f, Chain(g, u, f), t = Stop(f, Len(u))
          PROVE  \E e : /\ Chain(HeapOf(Descend(g, t, b)), Append(u, b), e)
                        /\ \A k \in 0..Len(u) : Stop(e, k) = Stop(f, k)
                        /\ Stop(e, Len(u) + 1) = SlotOf(Descend(g, t, b))
      BY <2>2, <3>1, DescendOwn
    <3> QED BY <2>3, <2>4, <3>1
  <2>6. \A k \in 0..Len(p) : k \in 0..Len(pq)
    BY <2>3
  <2>7. Len(Append(pq, b)) = Len(pq) + 1
    BY <2>3
  <2>8. Good(Append(q, b), e)
    BY <2>1, <2>3, <2>4, <2>5, <2>6, <2>7
  <2> QED BY <2>8, <2>9
<1> HIDE DEF S
<1>4. r \in S
  BY <1>2, <1>3, PathInduction
<1> QED BY <1>4 DEF S

-----------------------------------------------------------------------------
(* Looking up a path.                                                      *)

\* One byte down from the cell of a slot.
LEMMA BelowSlot ==
    ASSUME NEW h, HeapOK(h), NEW b
    PROVE  /\ Below(h, NoCell, b) = NoCell
           /\ \A s \in Slots(h) :
                 Below(h, At(h, s), b) = IF <<NodeIn(h, s), b>> \in Slots(h)
                                         THEN At(h, <<NodeIn(h, s), b>>) ELSE NoCell
<1>1. Below(h, NoCell, b) = NoCell
  BY DEF Below, NoCell
<1>2. ASSUME NEW s \in Slots(h)
      PROVE  Below(h, At(h, s), b) = IF <<NodeIn(h, s), b>> \in Slots(h)
                                     THEN At(h, <<NodeIn(h, s), b>>) ELSE NoCell
  <2> DEFINE n == NodeIn(h, s)
  <2>1. n \in DOMAIN h \/ n = NoNode
    BY HeapFacts DEF Nodes
  <2>2. NoNode \notin DOMAIN h
    BY HeapFacts
  <2>3. <<n, b>> \in Slots(h) <=> n \in DOMAIN h /\ b \in DOMAIN h[n]
    BY SlotsDef
  <2>4. Below(h, At(h, s), b) = IF n # NoNode /\ b \in DOMAIN h[n] THEN h[n][b] ELSE NoCell
    BY DEF Below, NodeIn
  <2>5. At(h, <<n, b>>) = h[n][b]
    BY DEF At
  <2> HIDE DEF n
  <2> QED BY <2>1, <2>2, <2>3, <2>4, <2>5 DEF n
<1> QED BY <1>1, <1>2

\* What is at the end of a path is the cell of a slot, or nothing.
LEMMA CellBelowSlot ==
    ASSUME NEW h, HeapOK(h), NEW r \in Slots(h), NEW p \in Seq(Byte)
    PROVE  \/ CellBelow(h, At(h, r), p) = NoCell
           \/ \E t \in Slots(h) : CellBelow(h, At(h, r), p) = At(h, t)
<1> DEFINE X(q) == CellBelow(h, At(h, r), q)
           S == {q \in Seq(Byte) : X(q) = NoCell \/ \E t \in Slots(h) : X(q) = At(h, t)}
<1>1. <<>> \in S
  BY CellBelowEmpty
<1>2. ASSUME NEW q \in Seq(Byte), q \in S, NEW b \in Byte
      PROVE  Append(q, b) \in S
  <2>1. X(Append(q, b)) = Below(h, X(q), b)
    BY CellBelowAppend
  <2>2. Append(q, b) \in Seq(Byte)
    OBVIOUS
  <2> HIDE DEF X
  <2>3. CASE X(q) = NoCell
    BY <2>1, <2>2, <2>3, BelowSlot
  <2>4. CASE X(q) # NoCell
    <3>1. PICK t \in Slots(h) : X(q) = At(h, t)
      BY <1>2, <2>4
    <3>2. X(Append(q, b)) = NoCell \/ \E u \in Slots(h) : X(Append(q, b)) = At(h, u)
      BY <2>1, <3>1, BelowSlot
    <3> QED BY <2>2, <3>2
  <2> QED BY <2>3, <2>4
<1> HIDE DEF S
<1>3. p \in S
  BY <1>1, <1>2, PathInduction
<1> QED BY <1>3 DEF S

\* From a slot off the chain, or at its end, a step leads past the chain; so does a step
\* from another stop, with a byte that is not the next one.
LEMMA StepOff ==
    ASSUME NEW h, HeapOK(h), NEW a \in Seq(Byte), NEW c, Chain(h, a, c),
           NEW s \in Slots(h), NEW b, NEW t, t = <<NodeIn(h, s), b>>,
           \A k \in 0..(Len(a) - 1) : s = Stop(c, k) => b # a[k + 1]
    PROVE  OffChain(c, Len(a), t)
<1>1. ASSUME NEW k \in 0..Len(a), t = Stop(c, k)
      PROVE  FALSE
  <2>1. t[1] = NodeIn(h, s) /\ t[1] # Roots
    BY HeapFacts
  <2>2. k \in 1..Len(a)
    BY <1>1, <2>1, ChainFacts
  <2>3. /\ k - 1 \in 0..(Len(a) - 1) /\ (k - 1) + 1 = k
        /\ t = <<NodeIn(h, Stop(c, k - 1)), a[k]>>
    BY <1>1, <2>2, ChainFacts
  <2>4. NodeIn(h, s) = NodeIn(h, Stop(c, k - 1)) /\ b = a[k]
    BY <2>3
  <2>5. Sole(h, Stop(c, k - 1))
    BY <2>3 DEF Chain
  <2>6. s = Stop(c, k - 1)
    BY <2>4, <2>5 DEF Sole
  <2> QED BY <2>3, <2>4, <2>6
<1> QED BY <1>1 DEF OffChain

\* Looking up a path that a chain begins with leads to a stop of it, any other path
\* leads past the chain.
LEMMA CellBelowChain ==
    ASSUME NEW h, HeapOK(h), NEW a \in Seq(Byte), NEW c, Chain(h, a, c), NEW p \in Seq(Byte)
    PROVE  LET x == CellBelow(h, At(h, HeadSlot), p)
           IN \/ Begins(p, a) /\ x = At(h, Stop(c, Len(p)))
              \/ ~Begins(p, a) /\ x = NoCell
              \/ ~Begins(p, a) /\ \E t \in Slots(h) : OffChain(c, Len(a), t) /\ x = At(h, t)
<1> DEFINE X(q) == CellBelow(h, At(h, HeadSlot), q)
           Off(q) == \E t \in Slots(h) : OffChain(c, Len(a), t) /\ X(q) = At(h, t)
           S == {q \in Seq(Byte) : \/ Begins(q, a) /\ X(q) = At(h, Stop(c, Len(q)))
                                   \/ ~Begins(q, a) /\ X(q) = NoCell
                                   \/ ~Begins(q, a) /\ Off(q)}
<1>1. <<>> \in S
  <2>1. X(<<>>) = At(h, HeadSlot) /\ HeadSlot = Stop(c, 0)
    BY CellBelowEmpty DEF Chain
  <2>2. <<>> \in Seq(Byte) /\ Len(<<>>) = 0
    OBVIOUS
  <2>3. Begins(<<>>, a)
    BY <2>2, BeginsFacts
  <2> QED BY <2>1, <2>2, <2>3
<1>2. ASSUME NEW q \in Seq(Byte), q \in S, NEW b \in Byte
      PROVE  Append(q, b) \in S
  <2> DEFINE qb == Append(q, b)
  <2>1. X(qb) = Below(h, X(q), b)
    BY CellBelowAppend
  <2>2. qb \in Seq(Byte) /\ Len(qb) = Len(q) + 1
    OBVIOUS
  <2>3. Begins(qb, a) <=> Begins(q, a) /\ Len(q) < Len(a) /\ b = a[Len(q) + 1]
    BY BeginsFacts
  <2> SUFFICES \/ Begins(qb, a) /\ X(qb) = At(h, Stop(c, Len(qb)))
               \/ ~Begins(qb, a) /\ X(qb) = NoCell
               \/ ~Begins(qb, a) /\ Off(qb)
    BY <2>2
  <2>4. CASE Begins(q, a) /\ X(q) = At(h, Stop(c, Len(q)))
    <3> DEFINE s == Stop(c, Len(q))
               t == <<NodeIn(h, s), b>>
    <3>1. Len(q) \in 0..Len(a) /\ s \in Slots(h)
      BY <2>4, ChainFacts DEF Begins
    <3>2. X(qb) = IF t \in Slots(h) THEN At(h, t) ELSE NoCell
      BY <2>1, <2>4, <3>1, BelowSlot
    <3>3. CASE Begins(qb, a)
      <4>1. Len(q) \in 0..(Len(a) - 1) /\ Len(qb) \in 0..Len(a) /\ b = a[Len(q) + 1]
        BY <2>2, <2>3, <3>1, <3>3
      <4>2. Stop(c, Len(qb)) = t
        BY <2>2, <4>1 DEF Chain
      <4>3. t \in Slots(h)
        <5>1. Stop(c, Len(qb)) \in Slots(h)
          BY <4>1, ChainFacts
        <5> QED BY <4>2, <5>1
      <4> QED BY <3>2, <3>3, <4>2, <4>3
    <3>4. CASE ~Begins(qb, a)
      <4>1. ASSUME t \in Slots(h)
            PROVE  OffChain(c, Len(a), t)
        <5>1. \A k \in 0..(Len(a) - 1) : s = Stop(c, k) => b # a[k + 1]
          <6>1. \A k \in 0..(Len(a) - 1) : k \in 0..Len(a)
            OBVIOUS
          <6>2. ASSUME NEW k \in 0..(Len(a) - 1), s = Stop(c, k)
                PROVE  k = Len(q)
            BY <3>1, <6>1, <6>2, ChainFacts
          <6> QED BY <2>3, <2>4, <3>1, <3>4, <6>2
        <5> QED BY <3>1, <5>1, StepOff
      <4> HIDE DEF t, X
      <4>2. X(qb) = NoCell \/ Off(qb)
        BY <3>2, <4>1
      <4> QED BY <3>4, <4>2
    <3> QED BY <3>3, <3>4
  <2>5. CASE ~Begins(q, a) /\ X(q) = NoCell
    BY <2>1, <2>3, <2>5, BelowSlot
  <2>6. CASE ~Begins(q, a) /\ Off(q)
    <3>1. PICK s \in Slots(h) : OffChain(c, Len(a), s) /\ X(q) = At(h, s)
      BY <2>6
    <3> DEFINE t == <<NodeIn(h, s), b>>
    <3>2. X(qb) = IF t \in Slots(h) THEN At(h, t) ELSE NoCell
      BY <2>1, <3>1, BelowSlot
    <3>3. OffChain(c, Len(a), t)
      <4>1. \A k \in 0..(Len(a) - 1) : s # Stop(c, k)
        BY <3>1 DEF OffChain
      <4> QED BY <4>1, StepOff
    <3> HIDE DEF t, X
    <3>4. X(qb) = NoCell \/ Off(qb)
      BY <3>2, <3>3
    <3> QED BY <2>3, <2>6, <3>4
  <2> QED BY <1>2, <2>4, <2>5, <2>6
<1> HIDE DEF S
<1>3. p \in S
  BY <1>1, <1>2, PathInduction
<1> QED BY <1>3 DEF S

\* Locate, by the last byte.
LEMMA LocateAppend ==
    ASSUME NEW h, NEW p \in Seq(Byte), NEW b \in Byte
    PROVE  LET n == CellBelow(h, At(h, HeadSlot), p).rec
           IN Locate(h, Append(p, b)) = IF n # NoNode /\ b \in DOMAIN h[n] THEN <<n, b>> ELSE NoSlot
<1> DEFINE q == Append(p, b)
<1>1. q # <<>> /\ Front(q) = p /\ Last(q) = b
  BY DEF Front, Last
<1> HIDE DEF q
<1>2. Locate(h, q) = LET n == CellBelow(h, At(h, HeadSlot), p).rec
                     IN IF n # NoNode /\ b \in DOMAIN h[n] THEN <<n, b>> ELSE NoSlot
  BY <1>1 DEF Locate
<1> QED BY <1>2 DEF q

\* Locate and CellBelow agree.
LEMMA LocateSlot ==
    ASSUME NEW h, HeapOK(h), NEW p \in Seq(Byte)
    PROVE  LET s == Locate(h, p)
               x == CellBelow(h, At(h, HeadSlot), p)
           IN (s = NoSlot /\ x = NoCell) \/ (s \in Slots(h) /\ At(h, s) = x)
<1>1. CASE p = <<>>
  <2>1. Locate(h, <<>>) = HeadSlot
    BY DEF Locate
  <2> QED BY <1>1, <2>1, HeapFacts, CellBelowEmpty
<1>2. CASE p # <<>>
  <2>1. PICK q \in Seq(Byte), b \in Byte : p = Append(q, b)
    <3>1. SubSeq(p, 1, Len(p) - 1) \in Seq(Byte) /\ p[Len(p)] \in Byte
          /\ p = Append(SubSeq(p, 1, Len(p) - 1), p[Len(p)])
      BY <1>2
    <3> QED BY <3>1
  <2> DEFINE y == CellBelow(h, At(h, HeadSlot), q)
             n == y.rec
  <2>2. Locate(h, p) = IF n # NoNode /\ b \in DOMAIN h[n] THEN <<n, b>> ELSE NoSlot
    BY <2>1, LocateAppend
  <2>3. CellBelow(h, At(h, HeadSlot), p) = IF n # NoNode /\ b \in DOMAIN h[n] THEN h[n][b] ELSE NoCell
    BY <2>1, CellBelowAppend DEF Below
  <2>4. y = NoCell \/ \E t \in Slots(h) : y = At(h, t)
    BY CellBelowSlot, HeapFacts
  <2>5. n = NoNode \/ n \in DOMAIN h
    BY <2>4, HeapFacts DEF NoCell, CellType, Nodes
  <2> HIDE DEF n
  <2>6. CASE n # NoNode /\ b \in DOMAIN h[n]
    <3>1. <<n, b>> \in Slots(h) /\ At(h, <<n, b>>) = h[n][b]
      BY <2>5, <2>6, SlotsDef DEF At
    <3> QED BY <2>2, <2>3, <2>6, <3>1
  <2>7. CASE ~(n # NoNode /\ b \in DOMAIN h[n])
    BY <2>2, <2>3, <2>7
  <2> QED BY <2>6, <2>7
<1> QED BY <1>1, <1>2

\* Locating a path that a chain begins with leads to a stop of it, any other path past it.
LEMMA LocateChain ==
    ASSUME NEW h, HeapOK(h), NEW a \in Seq(Byte), NEW c, Chain(h, a, c), NEW p \in Seq(Byte)
    PROVE  /\ Begins(p, a) => Locate(h, p) = Stop(c, Len(p))
           /\ ~Begins(p, a) => Locate(h, p) = NoSlot \/ OffChain(c, Len(a), Locate(h, p))
<1>1. CASE p = <<>>
  <2>1. Locate(h, <<>>) = HeadSlot /\ Len(<<>>) = 0
    BY DEF Locate
  <2>2. Begins(p, a)
    BY <1>1, BeginsFacts
  <2> QED BY <1>1, <2>1, <2>2 DEF Chain
<1>2. CASE p # <<>>
  <2>1. PICK q \in Seq(Byte), b \in Byte : p = Append(q, b)
    <3>1. SubSeq(p, 1, Len(p) - 1) \in Seq(Byte) /\ p[Len(p)] \in Byte
          /\ p = Append(SubSeq(p, 1, Len(p) - 1), p[Len(p)])
      BY <1>2
    <3> QED BY <3>1
  <2> DEFINE y == CellBelow(h, At(h, HeadSlot), q)
             n == y.rec
  <2>2. Locate(h, p) = IF n # NoNode /\ b \in DOMAIN h[n] THEN <<n, b>> ELSE NoSlot
    BY <2>1, LocateAppend
  <2>3. \/ Begins(q, a) /\ y = At(h, Stop(c, Len(q)))
        \/ ~Begins(q, a) /\ y = NoCell
        \/ ~Begins(q, a) /\ \E t \in Slots(h) : OffChain(c, Len(a), t) /\ y = At(h, t)
    BY CellBelowChain
  <2>4. Begins(p, a) <=> Begins(q, a) /\ Len(q) < Len(a) /\ b = a[Len(q) + 1]
    BY <2>1, BeginsFacts
  <2>5. Len(p) = Len(q) + 1
    BY <2>1
  <2> HIDE DEF y
  <2>6. CASE Begins(q, a) /\ y = At(h, Stop(c, Len(q)))
    <3> DEFINE s == Stop(c, Len(q))
    <3>1. Len(q) \in 0..Len(a) /\ s \in Slots(h)
      BY <2>6, ChainFacts DEF Begins
    <3>2. n = NodeIn(h, s)
      BY <2>6 DEF NodeIn
    <3> HIDE DEF n
    <3>3. CASE Begins(p, a)
      <4>1. Len(q) \in 0..(Len(a) - 1) /\ Len(p) \in 0..Len(a)
        BY <2>4, <2>5, <3>1, <3>3
      <4>2. Stop(c, Len(p)) = <<n, b>> /\ n # NoNode
        BY <2>4, <2>5, <3>2, <3>3, <4>1 DEF Chain
      <4>3. Stop(c, Len(p)) \in Slots(h)
        BY <4>1, ChainFacts
      <4>4. b \in DOMAIN h[n]
        BY <4>2, <4>3, SlotsDef
      <4> QED BY <2>2, <3>3, <4>2, <4>4
    <3>4. CASE ~Begins(p, a)
      <4>1. \A k \in 0..(Len(a) - 1) : s = Stop(c, k) => b # a[k + 1]
        <5>1. \A k \in 0..(Len(a) - 1) : k \in 0..Len(a)
          OBVIOUS
        <5>2. ASSUME NEW k \in 0..(Len(a) - 1), s = Stop(c, k)
              PROVE  k = Len(q)
          BY <3>1, <5>1, <5>2, ChainFacts
        <5> QED BY <2>4, <2>6, <3>1, <3>4, <5>2
      <4>2. OffChain(c, Len(a), <<NodeIn(h, s), b>>)
        BY <3>1, <4>1, StepOff
      <4> QED BY <2>2, <3>2, <3>4, <4>2
    <3> QED BY <3>3, <3>4
  <2>7. CASE ~Begins(q, a) /\ y = NoCell
    <3>1. n = NoNode
      BY <2>7 DEF NoCell
    <3> HIDE DEF n
    <3> QED BY <2>2, <2>4, <2>7, <3>1
  <2>8. CASE ~Begins(q, a) /\ \E t \in Slots(h) : OffChain(c, Len(a), t) /\ y = At(h, t)
    <3>1. PICK s \in Slots(h) : OffChain(c, Len(a), s) /\ y = At(h, s)
      BY <2>8
    <3>2. n = NodeIn(h, s)
      BY <3>1 DEF NodeIn
    <3> HIDE DEF n
    <3>3. \A k \in 0..(Len(a) - 1) : s # Stop(c, k)
      BY <3>1 DEF OffChain
    <3>4. OffChain(c, Len(a), <<NodeIn(h, s), b>>)
      BY <3>3, StepOff
    <3> QED BY <2>2, <2>4, <2>8, <3>2, <3>4
  <2> QED BY <2>3, <2>6, <2>7, <2>8
<1> QED BY <1>1, <1>2

-----------------------------------------------------------------------------
(* Settling: nodes get the ways to them for names, the others are freed.   *)

\* The paths of the trie.
LEMMA TriePathFacts ==
    /\ TriePath \subseteq Seq(Byte)
    /\ <<>> \in TriePath
    /\ \A a \in TriePath : \A p \in Seq(Byte) : Begins(p, a) => p \in TriePath
<1>1. TriePath \subseteq Seq(Byte) /\ <<>> \in TriePath
  BY HeadAssumption, PathAssumption
<1>2. ASSUME NEW a \in TriePath, NEW p \in Seq(Byte), Begins(p, a)
      PROVE  p \in TriePath
  <2>1. Byte \subseteq Nat
    BY HeadAssumption
  <2>2. a \in Seq(Byte)
    BY <1>1
  <2>3. p \in Seq(Nat) /\ a \in Seq(Nat)
    BY <2>1, <2>2, SeqMonotonic
  <2>4. IsPrefix(p, a)
    BY <1>2, <2>2, BeginsFacts
  <2>5. p \in Prefixes(a)
    BY <2>3, <2>4, PrefixesMember
  <2> QED BY <2>5, HeadAssumption
<1> QED BY <1>1, <1>2

\* The name a node has afterwards; NoNode if nothing leads to it.
NewName(h, n) == IF n = NoNode THEN NoNode ELSE Ways(h, n)
Moved(h, s) == <<NewName(h, s[1]), s[2]>>
Renamed(h, x) == [x EXCEPT !.rec = NewName(h, @)]

\* Heap g is heap h after it has settled.
Settled(h, g) ==
    /\ DOMAIN g = {NewName(h, n) : n \in DOMAIN h} \ {NoNode}
    /\ \A n \in DOMAIN h : NewName(h, n) # NoNode =>
          /\ DOMAIN g[NewName(h, n)] = DOMAIN h[n]
          /\ \A b \in DOMAIN h[n] : g[NewName(h, n)][b] = Renamed(h, h[n][b])

\* Ways are names: different nodes that something leads to have different ones.
LEMMA NewNameFacts ==
    ASSUME NEW h, HeapOK(h)
    PROVE  /\ NewName(h, Roots) = Roots
           /\ NewName(h, NoNode) = NoNode
           /\ \A n \in Nodes(h) : NewName(h, n) \in NodeType /\ NewName(h, n) # Roots
           /\ \A n, m \in DOMAIN h : NewName(h, n) = NewName(h, m) /\ NewName(h, n) # NoNode => n = m
<1>1. NewName(h, Roots) = Roots /\ NewName(h, NoNode) = NoNode
  BY DEF NewName, Ways, Roots, NoNode
<1>2. DOMAIN h[Roots] \subseteq Owner
  <2>1. ASSUME NEW o \in DOMAIN h[Roots]
        PROVE  o \in Owner
    <3>1. <<Roots, o>> \in Slots(h)
      BY SlotsDef, HeapFacts
    <3>2. Named(h, <<Roots, o>>)
      BY <3>1, HeapFacts
    <3> QED BY <3>2 DEF Named
  <2> QED BY <2>1
<1>3. ASSUME NEW n \in Nodes(h)
      PROVE  /\ NewName(h, n) = {w \in (DOMAIN h[Roots]) \X TriePath :
                                     CellBelow(h, h[Roots][w[1]], w[2]).rec = n}
             /\ NewName(h, n) \in NodeType
             /\ NewName(h, n) # Roots
  <2>1. n # Roots /\ n # NoNode
    BY HeapFacts DEF Nodes
  <2>2. NewName(h, n) = {w \in (DOMAIN h[Roots]) \X TriePath :
                             CellBelow(h, h[Roots][w[1]], w[2]).rec = n}
    BY <2>1 DEF NewName, Ways
  <2>3. ASSUME NEW w \in NewName(h, n)
        PROVE  w \in Owner \X TriePath
    <3>1. w \in (DOMAIN h[Roots]) \X TriePath
      BY <2>2
    <3> QED BY <1>2, <3>1
  <2>4. "roots" \notin Owner
    BY HeadAssumption DEF Owner
  <2>5. NewName(h, n) # Roots
    <3>1. <<"roots", <<>>>> \in Roots /\ <<"roots", <<>>>> \notin Owner \X TriePath
      BY <2>4 DEF Roots
    <3> QED BY <2>3, <3>1
  <2>6. TriePath \subseteq Seq(Nat)
    <3>1. Byte \subseteq Nat
      BY HeadAssumption
    <3>2. Seq(Byte) \subseteq Seq(Nat)
      BY <3>1, SeqMonotonic
    <3> QED BY <3>2, TriePathFacts
  <2>7. ASSUME NEW w \in NewName(h, n)
        PROVE  w \in (Owner \cup {"new"}) \X Seq(Nat)
    BY <2>3, <2>6
  <2> QED BY <2>2, <2>5, <2>7 DEF NodeType
<1>4. ASSUME NEW n \in Nodes(h), NEW m \in Nodes(h), NewName(h, n) = NewName(h, m), NewName(h, n) # NoNode
      PROVE  n = m
  <2>1. PICK w : w \in NewName(h, n)
    BY <1>4 DEF NoNode
  <2>2. CellBelow(h, h[Roots][w[1]], w[2]).rec = n
    BY <1>3, <2>1
  <2>3. CellBelow(h, h[Roots][w[1]], w[2]).rec = m
    BY <1>3, <1>4, <2>1
  <2> QED BY <2>2, <2>3
<1>5. \A n \in DOMAIN h : n = Roots \/ n \in Nodes(h)
  BY DEF Nodes
<1>6. \A n, m \in DOMAIN h : NewName(h, n) = NewName(h, m) /\ NewName(h, n) # NoNode => n = m
  BY <1>1, <1>3, <1>4, <1>5
<1> QED BY <1>1, <1>3, <1>6

\* What Settle does to the heap, and to the zippers.
LEMMA SettleFacts ==
    ASSUME NEW h, HeapOK(h), NEW z, Settle(h, z)
    PROVE  /\ Settled(h, heap')
           /\ zip' = [i \in Zipper |-> zip'[i]]
           /\ \A i \in Zipper :
                 zip'[i] = IF z[i] = NoZipper \/ z[i].slot = NoSlot \/ z[i].slot[1] \notin DOMAIN h
                           THEN z[i] ELSE [z[i] EXCEPT !.slot[1] = NewName(h, @)]
<1> DEFINE ways == [n \in DOMAIN h \cup {NoNode} |-> IF n = NoNode THEN NoNode ELSE Ways(h, n)]
           node(x) == h[CHOOSE n \in DOMAIN h : ways[n] = x]
           renamed(n) == [b \in DOMAIN n |-> [n[b] EXCEPT !.rec = ways[@]]]
<1>1. \A n \in DOMAIN h \cup {NoNode} : ways[n] = NewName(h, n)
  BY DEF NewName
<1>2. heap' = [x \in {ways[n] : n \in DOMAIN h} \ {NoNode} |-> renamed(node(x))]
  BY DEF Settle
<1>3. zip' = [i \in Zipper |->
                  IF z[i] = NoZipper \/ z[i].slot = NoSlot \/ z[i].slot[1] \notin DOMAIN h
                  THEN z[i] ELSE [z[i] EXCEPT !.slot[1] = ways[@]]]
  BY DEF Settle
<1> HIDE DEF ways
<1>4. {ways[n] : n \in DOMAIN h} = {NewName(h, n) : n \in DOMAIN h}
  BY <1>1
<1>5. DOMAIN heap' = {NewName(h, n) : n \in DOMAIN h} \ {NoNode}
  BY <1>2, <1>4
<1>6. ASSUME NEW n \in DOMAIN h, NewName(h, n) # NoNode
      PROVE  /\ DOMAIN heap'[NewName(h, n)] = DOMAIN h[n]
             /\ \A b \in DOMAIN h[n] : heap'[NewName(h, n)][b] = Renamed(h, h[n][b])
  <2> DEFINE x == NewName(h, n)
             m == CHOOSE m \in DOMAIN h : ways[m] = x
  <2>1. m \in DOMAIN h /\ ways[m] = x
    BY <1>1
  <2>2. m = n
    BY <1>1, <1>6, <2>1, NewNameFacts
  <2>3. x \in {ways[k] : k \in DOMAIN h} \ {NoNode}
    BY <1>1, <1>6
  <2>4. heap'[x] = renamed(node(x))
    BY <1>2, <2>3
  <2>5. node(x) = h[n]
    BY <2>2
  <2> HIDE DEF x, m, node
  <2>6. heap'[x] = [b \in DOMAIN h[n] |-> [h[n][b] EXCEPT !.rec = ways[@]]]
    BY <2>4, <2>5
  <2>7. ASSUME NEW b \in DOMAIN h[n]
        PROVE  [h[n][b] EXCEPT !.rec = ways[@]] = Renamed(h, h[n][b])
    <3>1. <<n, b>> \in Slots(h) /\ At(h, <<n, b>>) = h[n][b]
      BY SlotsDef DEF At
    <3>2. h[n][b] \in CellType(h)
      BY <3>1, HeapFacts
    <3>3. h[n][b].rec \in DOMAIN h \cup {NoNode}
      BY <3>2 DEF CellType, Nodes
    <3>4. ways[h[n][b].rec] = NewName(h, h[n][b].rec)
      BY <1>1, <3>3
    <3> QED BY <3>2, <3>4 DEF Renamed, CellType
  <2> QED BY <2>6, <2>7 DEF x
<1>7. ASSUME NEW i \in Zipper
      PROVE  zip'[i] = IF z[i] = NoZipper \/ z[i].slot = NoSlot \/ z[i].slot[1] \notin DOMAIN h
                       THEN z[i] ELSE [z[i] EXCEPT !.slot[1] = NewName(h, @)]
  <2>1. z[i].slot[1] \in DOMAIN h => ways[z[i].slot[1]] = NewName(h, z[i].slot[1])
    BY <1>1
  <2> QED BY <1>3, <2>1
<1>8. zip' = [i \in Zipper |-> zip'[i]]
  BY <1>3
<1> QED BY <1>5, <1>6, <1>7, <1>8 DEF Settled

\* A slot of a node that something leads to.
Live(h, s) == s \in Slots(h) /\ NewName(h, s[1]) # NoNode

\* Something leads to a node at the end of a path of the trie.
LEMMA LiveNode ==
    ASSUME NEW h, HeapOK(h), NEW o, <<Roots, o>> \in Slots(h), NEW p \in TriePath,
           NEW x, x = CellBelow(h, At(h, <<Roots, o>>), p)
    PROVE  /\ x.rec # NoNode => NewName(h, x.rec) # NoNode
           /\ x = NoCell \/ \E t \in Slots(h) : x = At(h, t)
<1>1. p \in Seq(Byte)
  BY TriePathFacts
<1>2. x = NoCell \/ \E t \in Slots(h) : x = At(h, t)
  BY <1>1, CellBelowSlot
<1>3. ASSUME x.rec # NoNode
      PROVE  NewName(h, x.rec) # NoNode
  <2>1. PICK t \in Slots(h) : x = At(h, t)
    BY <1>2, <1>3 DEF NoCell
  <2>2. x.rec # Roots
    <3>1. x.rec = NodeIn(h, t)
      BY <2>1 DEF NodeIn
    <3> QED BY <3>1, HeapFacts
  <2>3. At(h, <<Roots, o>>) = h[Roots][o]
    BY DEF At
  <2>4. o \in DOMAIN h[Roots]
    BY SlotsDef
  <2>5. CellBelow(h, h[Roots][o], p).rec = x.rec
    BY <2>3
  <2> DEFINE n == x.rec
  <2> HIDE DEF n
  <2>6. Ways(h, n) = {w \in (DOMAIN h[Roots]) \X TriePath : CellBelow(h, h[Roots][w[1]], w[2]).rec = n}
    BY <2>2 DEF Ways, n
  <2>7. <<o, p>> \in Ways(h, n)
    <3> DEFINE w == <<o, p>>
    <3>1. w \in (DOMAIN h[Roots]) \X TriePath /\ w[1] = o /\ w[2] = p
      BY <2>4
    <3> HIDE DEF w
    <3>2. CellBelow(h, h[Roots][w[1]], w[2]).rec = n
      BY <2>5, <3>1 DEF n
    <3>3. w \in Ways(h, n)
      BY <2>6, <3>1, <3>2
    <3> QED BY <3>3 DEF w
  <2>8. n # NoNode
    BY <1>3 DEF n
  <2>9. NewName(h, n) = Ways(h, n)
    BY <2>8 DEF NewName
  <2> QED BY <2>7, <2>9 DEF n, NoNode
<1> QED BY <1>2, <1>3

\* The slots of the settled heap are the live slots of the heap before, renamed.
LEMMA SettledSlots ==
    ASSUME NEW h, HeapOK(h), NEW g, Settled(h, g)
    PROVE  /\ \A s : Live(h, s) => Moved(h, s) \in Slots(g) /\ At(g, Moved(h, s)) = Renamed(h, At(h, s))
           /\ \A t \in Slots(g) : \E s : Live(h, s) /\ t = Moved(h, s)
           /\ \A s, t : Live(h, s) /\ Live(h, t) /\ Moved(h, s) = Moved(h, t) => s = t
           /\ \A s : s[1] = Roots /\ s \in Slots(h) => Live(h, s) /\ Moved(h, s) = s
<1>1. ASSUME NEW s, Live(h, s)
      PROVE  Moved(h, s) \in Slots(g) /\ At(g, Moved(h, s)) = Renamed(h, At(h, s))
  <2>1. s[1] \in DOMAIN h /\ s[2] \in DOMAIN h[s[1]] /\ NewName(h, s[1]) # NoNode
    BY <1>1, SlotsDef DEF Live
  <2> DEFINE x == NewName(h, s[1])
  <2>2. x \in DOMAIN g
    BY <2>1 DEF Settled
  <2>3. DOMAIN g[x] = DOMAIN h[s[1]] /\ g[x][s[2]] = Renamed(h, h[s[1]][s[2]])
    BY <2>1 DEF Settled
  <2>4. <<x, s[2]>> \in Slots(g)
    BY <2>1, <2>2, <2>3, SlotsDef
  <2> QED BY <2>3, <2>4 DEF Moved, At
<1>2. ASSUME NEW t \in Slots(g)
      PROVE  \E s : Live(h, s) /\ t = Moved(h, s)
  <2>1. t = <<t[1], t[2]>> /\ t[1] \in DOMAIN g /\ t[2] \in DOMAIN g[t[1]]
    BY SlotsDef
  <2>2. PICK n \in DOMAIN h : t[1] = NewName(h, n) /\ NewName(h, n) # NoNode
    BY <2>1 DEF Settled
  <2>3. t[2] \in DOMAIN h[n]
    BY <2>1, <2>2 DEF Settled
  <2> DEFINE s == <<n, t[2]>>
  <2>4. s \in Slots(h) /\ s[1] = n /\ s[2] = t[2]
    BY <2>3, SlotsDef
  <2> HIDE DEF s
  <2>5. Live(h, s) /\ t = Moved(h, s)
    BY <2>1, <2>2, <2>4 DEF Live, Moved
  <2> QED BY <2>5
<1>3. ASSUME NEW s, NEW t, Live(h, s), Live(h, t), Moved(h, s) = Moved(h, t)
      PROVE  s = t
  <2>1. /\ s = <<s[1], s[2]>> /\ s[1] \in DOMAIN h /\ NewName(h, s[1]) # NoNode
        /\ t = <<t[1], t[2]>> /\ t[1] \in DOMAIN h
    BY <1>3, SlotsDef DEF Live
  <2>2. NewName(h, s[1]) = NewName(h, t[1]) /\ s[2] = t[2]
    BY <1>3 DEF Moved
  <2>3. s[1] = t[1]
    BY <2>1, <2>2, NewNameFacts
  <2> QED BY <2>1, <2>2, <2>3
<1>4. ASSUME NEW s, s[1] = Roots, s \in Slots(h)
      PROVE  Live(h, s) /\ Moved(h, s) = s
  <2>1. s = <<Roots, s[2]>>
    BY <1>4, SlotsDef
  <2> QED BY <1>4, <2>1, NewNameFacts, HeapFacts DEF Live, Moved
<1> QED BY <1>1, <1>2, <1>3, <1>4

\* A renamed cell is the cell of a slot as before, with the new name of its node.
LEMMA RenamedFacts ==
    ASSUME NEW h, HeapOK(h), NEW g, Settled(h, g), NEW x \in CellType(h)
    PROVE  /\ Renamed(h, x).rec = NewName(h, x.rec)
           /\ Renamed(h, x).val = x.val
           /\ Renamed(h, x) \in CellType(g)
           /\ Renamed(h, x) = [rec |-> NewName(h, x.rec), val |-> x.val]
<1>1. x = [rec |-> x.rec, val |-> x.val] /\ x.rec \in Nodes(h) \cup {NoNode} /\ x.val \in Val \cup {NoVal}
  BY DEF CellType
<1>2. Renamed(h, x) = [rec |-> NewName(h, x.rec), val |-> x.val]
  BY <1>1 DEF Renamed
<1>3. NewName(h, x.rec) \in Nodes(g) \cup {NoNode}
  <2>1. CASE x.rec = NoNode
    BY <2>1, NewNameFacts
  <2>2. CASE x.rec # NoNode
    <3>1. x.rec \in Nodes(h) /\ x.rec \in DOMAIN h
      BY <1>1, <2>2 DEF Nodes
    <3>2. NewName(h, x.rec) # Roots
      BY <3>1, NewNameFacts
    <3>3. NewName(h, x.rec) # NoNode => NewName(h, x.rec) \in DOMAIN g
      BY <3>1 DEF Settled
    <3> QED BY <3>2, <3>3 DEF Nodes
  <2> QED BY <2>1, <2>2
<1>4. [rec |-> NewName(h, x.rec), val |-> x.val] \in CellType(g)
  BY <1>1, <1>3 DEF CellType
<1> QED BY <1>2, <1>4

\* A settled heap is a heap.
LEMMA SettledOK ==
    ASSUME NEW h, HeapOK(h), NEW g, Settled(h, g)
    PROVE  HeapOK(g)
<1>1. IsFiniteSet(DOMAIN g)
  <2>1. IsFiniteSet(DOMAIN h)
    BY DEF HeapOK
  <2> DEFINE D == DOMAIN h
             T == {NewName(h, n) : n \in D}
             f == [n \in D |-> NewName(h, n)]
  <2>2. f \in Surjection(D, T)
    BY DEF Surjection
  <2>3. IsFiniteSet(T)
    BY <2>1, <2>2, FS_Surjection
  <2>4. DOMAIN g \subseteq T
    BY DEF Settled
  <2> QED BY <2>3, <2>4, FS_Subset
<1>2. Roots \in DOMAIN g /\ NoNode \notin DOMAIN g
  <2>1. Roots \in DOMAIN h /\ NewName(h, Roots) = Roots /\ Roots # NoNode
    BY NewNameFacts, HeapFacts
  <2> QED BY <2>1 DEF Settled
<1>3. HeadSlot \in Slots(g)
  <2>1. HeadSlot \in Slots(h) /\ HeadSlot[1] = Roots
    BY HeapFacts
  <2>2. Moved(h, HeadSlot) = HeadSlot /\ Live(h, HeadSlot)
    BY <2>1, SettledSlots
  <2> QED BY <2>2, SettledSlots
<1>4. ASSUME NEW t \in Slots(g)
      PROVE  Named(g, t) /\ At(g, t) \in CellType(g)
  <2>1. PICK s : Live(h, s) /\ t = Moved(h, s)
    BY SettledSlots
  <2>2. s \in Slots(h) /\ s[1] \in DOMAIN h
    BY <2>1, SlotsDef DEF Live
  <2>3. At(h, s) \in CellType(h) /\ Named(h, s)
    BY <2>2, HeapFacts
  <2>4. At(g, t) = Renamed(h, At(h, s))
    BY <2>1, SettledSlots
  <2>5. At(g, t) \in CellType(g)
    BY <2>3, <2>4, RenamedFacts
  <2>6. t = <<t[1], t[2]>> /\ t[1] \in DOMAIN g
    BY SlotsDef
  <2>7. t[1] = NewName(h, s[1]) /\ t[2] = s[2]
    BY <2>1 DEF Moved
  <2>8. t[1] = Roots <=> s[1] = Roots
    BY <2>2, <2>7, NewNameFacts DEF Nodes
  <2> QED BY <2>3, <2>5, <2>6, <2>7, <2>8 DEF Named
<1>5. Nodes(g) \subseteq NodeType
  <2>1. ASSUME NEW m \in Nodes(g)
        PROVE  m \in NodeType
    <3>1. m \in DOMAIN g /\ m # Roots
      BY DEF Nodes
    <3>2. PICK n \in DOMAIN h : m = NewName(h, n)
      BY <3>1 DEF Settled
    <3>3. n \in Nodes(h)
      BY <3>1, <3>2, NewNameFacts DEF Nodes
    <3> QED BY <3>2, <3>3, NewNameFacts
  <2> QED BY <2>1
<1> QED BY <1>1, <1>2, <1>3, <1>4, <1>5 DEF HeapOK

\* What the slots of a settled heap lead to.
LEMMA SettledNode ==
    ASSUME NEW h, HeapOK(h), NEW g, Settled(h, g)
    PROVE  /\ \A s : Live(h, s) => /\ NodeIn(g, Moved(h, s)) = NewName(h, NodeIn(h, s))
                                   /\ At(g, Moved(h, s)).val = At(h, s).val
           /\ \A s, t : /\ Live(h, s) /\ Live(h, t) /\ NodeIn(g, Moved(h, s)) # NoNode
                        /\ NodeIn(g, Moved(h, s)) = NodeIn(g, Moved(h, t))
                        => NodeIn(h, s) = NodeIn(h, t)
<1>1. ASSUME NEW s, Live(h, s)
      PROVE  /\ NodeIn(g, Moved(h, s)) = NewName(h, NodeIn(h, s))
             /\ At(g, Moved(h, s)).val = At(h, s).val
  <2>1. At(g, Moved(h, s)) = Renamed(h, At(h, s))
    BY <1>1, SettledSlots
  <2>2. At(h, s) \in CellType(h)
    BY <1>1, HeapFacts DEF Live
  <2> QED BY <2>1, <2>2, RenamedFacts DEF NodeIn
<1>2. ASSUME NEW s, NEW t, Live(h, s), Live(h, t), NodeIn(g, Moved(h, s)) # NoNode,
             NodeIn(g, Moved(h, s)) = NodeIn(g, Moved(h, t))
      PROVE  NodeIn(h, s) = NodeIn(h, t)
  <2>1. /\ NewName(h, NodeIn(h, s)) = NewName(h, NodeIn(h, t))
        /\ NewName(h, NodeIn(h, s)) # NoNode
    BY <1>1, <1>2
  <2>2. NodeIn(h, s) # NoNode /\ NodeIn(h, t) # NoNode
    BY <2>1, NewNameFacts
  <2>3. NodeIn(h, s) \in DOMAIN h /\ NodeIn(h, t) \in DOMAIN h
    BY <1>2, <2>2, HeapFacts DEF Live
  <2> QED BY <2>1, <2>3, NewNameFacts
<1> QED BY <1>1, <1>2

\* The chain of a path of the trie is renamed.
LEMMA ChainSettles ==
    ASSUME NEW h, HeapOK(h), NEW g, Settled(h, g), NEW a \in TriePath, NEW c, Chain(h, a, c)
    PROVE  \E d : /\ Chain(g, a, d)
                  /\ \A k \in 0..Len(a) : Live(h, Stop(c, k)) /\ Stop(d, k) = Moved(h, Stop(c, k))
                  /\ NodeIn(h, Stop(c, Len(a))) # NoNode => NodeIn(g, Stop(d, Len(a))) # NoNode
<1>0. a \in Seq(Byte) /\ Len(a) \in Nat
  BY TriePathFacts
<1>1. ASSUME NEW k \in 0..Len(a), NodeIn(h, Stop(c, k)) # NoNode
      PROVE  NewName(h, NodeIn(h, Stop(c, k))) # NoNode
  <2> DEFINE p == SubSeq(a, 1, k)
             x == CellBelow(h, At(h, HeadSlot), p)
  <2>1. p \in Seq(Byte) /\ Len(p) = k /\ \A j \in 1..Len(p) : p[j] = a[j]
    BY <1>0
  <2>2. Begins(p, a)
    BY <1>0, <2>1 DEF Begins
  <2> HIDE DEF p
  <2>3. p \in TriePath
    BY <2>1, <2>2, TriePathFacts
  <2>4. x = At(h, Stop(c, k))
    BY <1>0, <2>1, <2>2, CellBelowChain
  <2>5. HeadSlot = <<Roots, "map">> /\ HeadSlot \in Slots(h)
    BY HeapFacts DEF HeadSlot
  <2>6. x.rec # NoNode => NewName(h, x.rec) # NoNode
    BY <2>3, <2>5, LiveNode
  <2> QED BY <1>1, <2>4, <2>6 DEF NodeIn
<1>2. ASSUME NEW k \in 0..Len(a)
      PROVE  Live(h, Stop(c, k))
  <2>1. Stop(c, k) \in Slots(h)
    BY DEF Chain
  <2>2. CASE k = 0
    <3>1. Stop(c, k) = HeadSlot
      BY <2>2 DEF Chain
    <3> QED BY <2>1, <3>1, HeapFacts, SettledSlots
  <2>3. CASE k # 0
    <3>1. k \in 1..Len(a)
      BY <1>0, <2>3
    <3>2. k - 1 \in 0..(Len(a) - 1) /\ Stop(c, k)[1] = NodeIn(h, Stop(c, k - 1))
      BY <1>0, <3>1, ChainFacts
    <3>3. NodeIn(h, Stop(c, k - 1)) # NoNode /\ k - 1 \in 0..Len(a)
      BY <1>0, <3>2 DEF Chain
    <3>4. NewName(h, NodeIn(h, Stop(c, k - 1))) # NoNode
      BY <1>1, <3>3
    <3> QED BY <2>1, <3>2, <3>4 DEF Live
  <2> QED BY <2>2, <2>3
<1> DEFINE d == [k \in 0..Len(a) |-> Moved(h, Stop(c, k))]
<1>3. \A k \in 0..Len(a) : Stop(d, k) = Moved(h, Stop(c, k))
  BY DEF Stop
<1> HIDE DEF d
<1>4. \A k \in 0..Len(a) : Stop(d, k) \in Slots(g) /\ NodeIn(g, Stop(d, k)) = NewName(h, NodeIn(h, Stop(c, k)))
  BY <1>2, <1>3, SettledSlots, SettledNode
<1>5. Stop(d, 0) = HeadSlot
  <2>1. 0 \in 0..Len(a) /\ Stop(c, 0) = HeadSlot
    BY <1>0 DEF Chain
  <2>2. Stop(d, 0) = Moved(h, HeadSlot)
    BY <1>3, <2>1
  <2> QED BY <2>2, HeapFacts, SettledSlots
<1>6. ASSUME NEW k \in 0..(Len(a) - 1)
      PROVE  /\ NodeIn(g, Stop(d, k)) # NoNode
             /\ Stop(d, k + 1) = <<NodeIn(g, Stop(d, k)), a[k + 1]>>
             /\ Sole(g, Stop(d, k))
  <2>1. k \in 0..Len(a) /\ k + 1 \in 0..Len(a)
    BY <1>0
  <2>2. /\ NodeIn(h, Stop(c, k)) # NoNode
        /\ Stop(c, k + 1) = <<NodeIn(h, Stop(c, k)), a[k + 1]>>
        /\ Sole(h, Stop(c, k))
    BY DEF Chain
  <2>3. NodeIn(g, Stop(d, k)) # NoNode
    BY <1>1, <1>4, <2>1, <2>2
  <2>4. Stop(d, k + 1) = <<NodeIn(g, Stop(d, k)), a[k + 1]>>
    <3>1. Stop(d, k + 1) = Moved(h, Stop(c, k + 1))
      BY <1>3, <2>1
    <3>2. Moved(h, Stop(c, k + 1)) = <<NewName(h, NodeIn(h, Stop(c, k))), a[k + 1]>>
      BY <2>2 DEF Moved
    <3> QED BY <1>4, <2>1, <3>1, <3>2
  <2>5. ASSUME NEW t \in Slots(g), NodeIn(g, t) = NodeIn(g, Stop(d, k))
        PROVE  t = Stop(d, k)
    <3>1. PICK s : Live(h, s) /\ t = Moved(h, s)
      BY SettledSlots
    <3>2. Stop(d, k) = Moved(h, Stop(c, k)) /\ Live(h, Stop(c, k))
      BY <1>2, <1>3, <2>1
    <3>3. NodeIn(h, s) = NodeIn(h, Stop(c, k))
      BY <2>3, <2>5, <3>1, <3>2, SettledNode
    <3>4. s = Stop(c, k)
      BY <2>2, <3>1, <3>3 DEF Sole, Live
    <3> QED BY <3>1, <3>2, <3>4
  <2> QED BY <2>3, <2>4, <2>5 DEF Sole
<1>7. NodeIn(h, Stop(c, Len(a))) # NoNode => NodeIn(g, Stop(d, Len(a))) # NoNode
  <2>1. Len(a) \in 0..Len(a)
    BY <1>0
  <2> QED BY <1>1, <1>4, <2>1
<1>8. Chain(g, a, d)
  BY <1>4, <1>5, <1>6 DEF Chain
<1> QED BY <1>2, <1>3, <1>7, <1>8

\* Looking up a path of the trie gives the cell as before, renamed.
LEMMA SettledLookup ==
    ASSUME NEW h, HeapOK(h), NEW g, Settled(h, g), NEW o, <<Roots, o>> \in Slots(h), NEW p \in TriePath
    PROVE  CellBelow(g, At(g, <<Roots, o>>), p) = Renamed(h, CellBelow(h, At(h, <<Roots, o>>), p))
<1> DEFINE r == <<Roots, o>>
           X(q) == CellBelow(h, At(h, r), q)
           Y(q) == CellBelow(g, At(g, r), q)
           S == {q \in Seq(Byte) : q \in TriePath => Y(q) = Renamed(h, X(q))}
<1>1. r[1] = Roots /\ r \in Slots(h)
  OBVIOUS
<1>2. Live(h, r) /\ Moved(h, r) = r
  BY <1>1, SettledSlots
<1>3. r \in Slots(g) /\ At(g, r) = Renamed(h, At(h, r))
  BY <1>2, SettledSlots
<1>4. HeapOK(g)
  BY SettledOK
<1>5. Renamed(h, NoCell) = NoCell /\ NoCell \in CellType(h)
  <2>1. NoCell \in CellType(h)
    BY DEF NoCell, CellType
  <2>2. Renamed(h, NoCell) = [rec |-> NewName(h, NoCell.rec), val |-> NoCell.val]
    BY <2>1, RenamedFacts
  <2> QED BY <2>1, <2>2, NewNameFacts DEF NoCell
<1>6. <<>> \in S
  <2>1. X(<<>>) = At(h, r) /\ Y(<<>>) = At(g, r)
    BY CellBelowEmpty
  <2>2. <<>> \in Seq(Byte)
    OBVIOUS
  <2> QED BY <1>3, <2>1, <2>2
<1>7. ASSUME NEW q \in Seq(Byte), q \in S, NEW b \in Byte
      PROVE  Append(q, b) \in S
  <2>1. Append(q, b) \in Seq(Byte)
    OBVIOUS
  <2>2. SUFFICES ASSUME Append(q, b) \in TriePath
                 PROVE  Y(Append(q, b)) = Renamed(h, X(Append(q, b)))
    BY <2>1
  <2>3. q \in TriePath
    <3>1. Begins(q, Append(q, b))
      BY DEF Begins
    <3> QED BY <2>2, <3>1, TriePathFacts
  <2>4. Y(q) = Renamed(h, X(q))
    BY <1>7, <2>3
  <2>5. X(Append(q, b)) = Below(h, X(q), b) /\ Y(Append(q, b)) = Below(g, Y(q), b)
    BY CellBelowAppend
  <2>6. /\ X(q).rec # NoNode => NewName(h, X(q).rec) # NoNode
        /\ X(q) = NoCell \/ \E t \in Slots(h) : X(q) = At(h, t)
    BY <1>1, <2>3, LiveNode
  <2> HIDE DEF X, Y
  <2>7. CASE X(q) = NoCell
    <3>1. Y(q) = NoCell
      BY <1>5, <2>4, <2>7
    <3>2. X(Append(q, b)) = NoCell /\ Y(Append(q, b)) = NoCell
      BY <1>4, <2>5, <2>7, <3>1, BelowSlot
    <3> QED BY <1>5, <3>2
  <2>8. CASE X(q) # NoCell
    <3>1. PICK t \in Slots(h) : X(q) = At(h, t)
      BY <2>6, <2>8
    <3>2. X(q) \in CellType(h)
      BY <3>1, HeapFacts
    <3> DEFINE n == X(q).rec
               m == Y(q).rec
    <3>3. m = NewName(h, n) /\ (n = NoNode <=> m = NoNode)
      BY <2>4, <2>6, <3>2, RenamedFacts, NewNameFacts
    <3>4. CASE n = NoNode
      <4>1. X(Append(q, b)) = NoCell /\ Y(Append(q, b)) = NoCell
        BY <2>5, <3>3, <3>4 DEF Below
      <4> QED BY <1>5, <4>1
    <3>5. CASE n # NoNode
      <4>1. n \in DOMAIN h
        BY <3>1, <3>5, HeapFacts DEF NodeIn
      <4>2. DOMAIN g[m] = DOMAIN h[n] /\ \A e \in DOMAIN h[n] : g[m][e] = Renamed(h, h[n][e])
        BY <3>3, <3>5, <4>1 DEF Settled
      <4>3. X(Append(q, b)) = IF b \in DOMAIN h[n] THEN h[n][b] ELSE NoCell
        BY <2>5, <3>5 DEF Below
      <4>4. Y(Append(q, b)) = IF b \in DOMAIN g[m] THEN g[m][b] ELSE NoCell
        BY <2>5, <3>3, <3>5 DEF Below
      <4> QED BY <1>5, <4>2, <4>3, <4>4
    <3> QED BY <3>4, <3>5
  <2> QED BY <2>7, <2>8
<1> HIDE DEF S
<1>8. p \in S
  BY <1>6, <1>7, TriePathFacts, PathInduction
<1> QED BY <1>8 DEF S

\* The names of the nodes are the ways that lead to them.
Tidy(h) == \A n \in DOMAIN h : n = Ways(h, n)

\* They are in a settled heap.
LEMMA SettledTidy ==
    ASSUME NEW h, HeapOK(h), NEW g, Settled(h, g)
    PROVE  Tidy(g)
<1>1. HeapOK(g)
  BY SettledOK
<1>2. Roots \in DOMAIN h /\ NewName(h, Roots) = Roots /\ Roots # NoNode
  BY HeapFacts, NewNameFacts
<1>3. DOMAIN g[Roots] = DOMAIN h[Roots]
  BY <1>2 DEF Settled
<1> SUFFICES ASSUME NEW x \in DOMAIN g
             PROVE  x = Ways(g, x)
  BY DEF Tidy
<1>4. PICK n \in DOMAIN h : x = NewName(h, n) /\ x # NoNode
  BY DEF Settled
<1>5. CASE n = Roots
  BY <1>2, <1>4, <1>5 DEF Ways
<1>6. CASE n # Roots
  <2>1. n # NoNode /\ x # Roots
    BY <1>2, <1>4, <1>6, NewNameFacts
  <2>2. x = Ways(h, n)
    BY <1>4, <2>1 DEF NewName
  <2> DEFINE W == (DOMAIN h[Roots]) \X TriePath
  <2>3. Ways(h, n) = {w \in W : CellBelow(h, h[Roots][w[1]], w[2]).rec = n}
    BY <1>6 DEF Ways
  <2>4. Ways(g, x) = {w \in W : CellBelow(g, g[Roots][w[1]], w[2]).rec = x}
    BY <1>3, <2>1 DEF Ways
  <2>5. ASSUME NEW w \in W
        PROVE  CellBelow(g, g[Roots][w[1]], w[2]).rec = x <=> CellBelow(h, h[Roots][w[1]], w[2]).rec = n
    <3> DEFINE o == w[1]
               p == w[2]
               r == <<Roots, o>>
               c == CellBelow(h, At(h, r), p)
               d == CellBelow(g, At(g, r), p)
    <3>1. o \in DOMAIN h[Roots] /\ p \in TriePath
      BY <2>5
    <3>2. h[Roots][o] = At(h, r) /\ g[Roots][o] = At(g, r)
      BY DEF At
    <3>3. r \in Slots(h)
      BY <1>2, <3>1, SlotsDef
    <3> HIDE DEF o, p
    <3>4. d = Renamed(h, c)
      BY <3>1, <3>3, SettledLookup
    <3>5. c = NoCell \/ \E t \in Slots(h) : c = At(h, t)
      BY <3>1, <3>3, LiveNode
    <3> HIDE DEF c, d, r
    <3>6. c \in CellType(h) /\ (c.rec = NoNode \/ c.rec \in DOMAIN h)
      <4>1. CASE c = NoCell
        BY <4>1 DEF NoCell, CellType
      <4>2. CASE c # NoCell
        <5>1. PICK t \in Slots(h) : c = At(h, t)
          BY <3>5, <4>2
        <5> QED BY <5>1, HeapFacts DEF NodeIn
      <4> QED BY <4>1, <4>2
    <3>7. d.rec = NewName(h, c.rec)
      BY <3>4, <3>6, RenamedFacts
    <3>8. d.rec = x <=> c.rec = n
      <4> DEFINE m == c.rec
      <4> HIDE DEF m
      <4>1. d.rec = NewName(h, m) /\ (m = NoNode \/ m \in DOMAIN h)
        BY <3>6, <3>7 DEF m
      <4>2. m = NoNode => NewName(h, m) # x /\ m # n
        BY <1>4, <2>1, NewNameFacts
      <4>3. m \in DOMAIN h => (NewName(h, m) = x <=> m = n)
        BY <1>4, NewNameFacts
      <4> QED BY <4>1, <4>2, <4>3 DEF m
    <3>9. CellBelow(g, g[Roots][o], p) = d /\ CellBelow(h, h[Roots][o], p) = c
      BY <3>2 DEF c, d
    <3> QED BY <3>8, <3>9 DEF o, p
  <2> HIDE DEF W
  <2>6. Ways(g, x) = Ways(h, n)
    BY <2>3, <2>4, <2>5
  <2> QED BY <2>2, <2>6
<1> QED BY <1>5, <1>6

-------------------------------------------------------------------------------
(* What is off a chain.                                                    *)

\* The cells that owners other than the head hold are on no chain.
LEMMA RootOff ==
    ASSUME NEW h, HeapOK(h), NEW a \in Seq(Byte), NEW c, Chain(h, a, c), NEW o, o # "map"
    PROVE  OffChain(c, Len(a), <<Roots, o>>)
<1>1. ASSUME NEW k \in 0..Len(a)
      PROVE  <<Roots, o>> # Stop(c, k)
  <2>1. CASE k = 0
    <3>1. Stop(c, k) = <<Roots, "map">>
      BY <2>1 DEF Chain, HeadSlot
    <3> QED BY <3>1
  <2>2. CASE k # 0
    <3>1. Stop(c, k)[1] # Roots
      BY <2>2, ChainFacts
    <3> QED BY <3>1
  <2> QED BY <2>1, <2>2
<1> QED BY <1>1 DEF OffChain

\* A slot off the chain does not lead to a node of it.
LEMMA NodeOff ==
    ASSUME NEW h, NEW a, NEW c, Chain(h, a, c), NEW s \in Slots(h), OffChain(c, Len(a) - 1, s)
    PROVE  \A k \in 0..(Len(a) - 1) : NodeIn(h, s) # NodeIn(h, Stop(c, k))
BY DEF Chain, Sole, OffChain

\* The less of a chain, the more is off it; its end is off what comes before.
LEMMA OffLess ==
    ASSUME NEW h, HeapOK(h), NEW a \in Seq(Byte), NEW c, Chain(h, a, c)
    PROVE  /\ \A s : OffChain(c, Len(a), s) => OffChain(c, Len(a) - 1, s)
           /\ OffChain(c, Len(a) - 1, Stop(c, Len(a)))
<1>1. Len(a) \in Nat
  OBVIOUS
<1>2. \A k \in 0..(Len(a) - 1) : k \in 0..Len(a) /\ k # Len(a)
  BY <1>1
<1>3. Len(a) \in 0..Len(a)
  BY <1>1
<1>4. \A k \in 0..(Len(a) - 1) : Stop(c, Len(a)) # Stop(c, k)
  BY <1>2, <1>3, ChainFacts
<1> QED BY <1>2, <1>4 DEF OffChain

-----------------------------------------------------------------------------
(* The values below a cell.                                                *)

\* The value at the end of a path below a cell.
Value(h, x, q) == CellBelow(h, x, q).val

\* The owners that have a cell are the same in both.
SameOwners(h, g) == \A o : <<Roots, o>> \in Slots(g) <=> <<Roots, o>> \in Slots(h)

\* Whatever h has below one of its cells, g has too, for the same owners.
SameValues(h, g) ==
    /\ SameOwners(h, g) /\ Slots(h) \subseteq Slots(g)
    /\ \A t \in Slots(h) : \A q \in Seq(Byte) : Value(g, At(g, t), q) = Value(h, At(h, t), q)

\* Looking up one path after another.
LEMMA CellBelowConcat ==
    ASSUME NEW h, NEW c, NEW p \in Seq(Byte), NEW r \in Seq(Byte)
    PROVE  CellBelow(h, c, p \o r) = CellBelow(h, CellBelow(h, c, p), r)
<1> DEFINE d == CellBelow(h, c, p)
           S == {q \in Seq(Byte) : CellBelow(h, c, p \o q) = CellBelow(h, d, q)}
<1>1. <<>> \in S
  <2>1. CellBelow(h, d, <<>>) = d
    BY CellBelowEmpty
  <2> QED BY <2>1, ConcatFacts
<1>2. ASSUME NEW q \in Seq(Byte), q \in S, NEW b \in Byte
      PROVE  Append(q, b) \in S
  <2>1. p \o Append(q, b) = Append(p \o q, b) /\ p \o q \in Seq(Byte) /\ Append(q, b) \in Seq(Byte)
    BY ConcatFacts
  <2>2. CellBelow(h, c, Append(p \o q, b)) = Below(h, CellBelow(h, c, p \o q), b)
    BY <2>1, CellBelowAppend
  <2>3. CellBelow(h, d, Append(q, b)) = Below(h, CellBelow(h, d, q), b)
    BY CellBelowAppend
  <2> HIDE DEF d
  <2> QED BY <1>2, <2>1, <2>2, <2>3
<1> HIDE DEF S
<1>3. r \in S
  BY <1>1, <1>2, PathInduction
<1> QED BY <1>3 DEF S

\* What is below a cell, at any path but the empty one, is what its node has.
LEMMA CellBelowNode ==
    ASSUME NEW h, NEW x, NEW y, x.rec = y.rec, NEW r \in Seq(Byte), r # <<>>
    PROVE  CellBelow(h, x, r) = CellBelow(h, y, r)
<1> DEFINE S == {q \in Seq(Byte) : q # <<>> => CellBelow(h, x, q) = CellBelow(h, y, q)}
<1>1. <<>> \in S
  OBVIOUS
<1>2. ASSUME NEW q \in Seq(Byte), q \in S, NEW b \in Byte
      PROVE  Append(q, b) \in S
  <2>1. /\ CellBelow(h, x, Append(q, b)) = Below(h, CellBelow(h, x, q), b)
        /\ CellBelow(h, y, Append(q, b)) = Below(h, CellBelow(h, y, q), b)
        /\ Append(q, b) \in Seq(Byte)
    BY CellBelowAppend
  <2>2. CASE q = <<>>
    <3>1. Below(h, x, b) = Below(h, y, b)
      BY DEF Below
    <3>2. CellBelow(h, x, q) = x /\ CellBelow(h, y, q) = y
      BY <2>2, CellBelowEmpty
    <3>3. CellBelow(h, x, Append(q, b)) = CellBelow(h, y, Append(q, b))
      BY <2>1, <3>1, <3>2
    <3> QED BY <2>1, <3>3
  <2>3. CASE q # <<>>
    BY <1>2, <2>1, <2>3
  <2> QED BY <2>2, <2>3
<1> HIDE DEF S
<1>3. r \in S
  BY <1>1, <1>2, PathInduction
<1> QED BY <1>3 DEF S

\* Two heaps agree on what is below the slots of U, if these lead to each other only.
LEMMA LookupAgrees ==
    ASSUME NEW h, HeapOK(h), NEW g, HeapOK(g), NEW U,
           \A t \in U : t \in Slots(h) /\ t \in Slots(g) /\ At(g, t) = At(h, t),
           \A t \in U : \A b \in Byte : /\ <<NodeIn(h, t), b>> \in Slots(h) => <<NodeIn(h, t), b>> \in U
                                        /\ <<NodeIn(h, t), b>> \in Slots(g) => <<NodeIn(h, t), b>> \in U,
           NEW s \in U, NEW r \in Seq(Byte)
    PROVE  /\ CellBelow(g, At(g, s), r) = CellBelow(h, At(h, s), r)
           /\ CellBelow(h, At(h, s), r) = NoCell \/ \E t \in U : CellBelow(h, At(h, s), r) = At(h, t)
<1> DEFINE X(q) == CellBelow(h, At(h, s), q)
           Y(q) == CellBelow(g, At(g, s), q)
           S == {q \in Seq(Byte) : Y(q) = X(q) /\ (X(q) = NoCell \/ \E t \in U : X(q) = At(h, t))}
<1>1. <<>> \in S
  <2>1. X(<<>>) = At(h, s) /\ Y(<<>>) = At(g, s)
    BY CellBelowEmpty
  <2>2. At(g, s) = At(h, s) /\ <<>> \in Seq(Byte)
    OBVIOUS
  <2> HIDE DEF X, Y
  <2> QED BY <2>1, <2>2
<1>2. ASSUME NEW q \in Seq(Byte), q \in S, NEW b \in Byte
      PROVE  Append(q, b) \in S
  <2>1. X(Append(q, b)) = Below(h, X(q), b) /\ Y(Append(q, b)) = Below(g, Y(q), b)
        /\ Append(q, b) \in Seq(Byte)
    BY CellBelowAppend
  <2> HIDE DEF X, Y
  <2>2. CASE X(q) = NoCell
    <3>1. X(Append(q, b)) = NoCell /\ Y(Append(q, b)) = NoCell
      BY <1>2, <2>1, <2>2, BelowSlot
    <3> QED BY <2>1, <3>1
  <2>3. CASE X(q) # NoCell
    <3>1. PICK t \in U : X(q) = At(h, t)
      BY <1>2, <2>3
    <3> DEFINE u == <<NodeIn(h, t), b>>
    <3>2. t \in Slots(h) /\ t \in Slots(g) /\ At(g, t) = At(h, t) /\ Y(q) = At(g, t)
      BY <1>2, <3>1
    <3>3. NodeIn(g, t) = NodeIn(h, t)
      BY <3>2 DEF NodeIn
    <3>4. X(Append(q, b)) = IF u \in Slots(h) THEN At(h, u) ELSE NoCell
      <4>1. Below(h, At(h, t), b) = IF u \in Slots(h) THEN At(h, u) ELSE NoCell
        BY <3>2, BelowSlot
      <4> QED BY <2>1, <3>1, <4>1
    <3>5. Y(Append(q, b)) = IF u \in Slots(g) THEN At(g, u) ELSE NoCell
      BY <2>1, <3>2, <3>3, BelowSlot
    <3>6. (u \in Slots(h) => u \in U) /\ (u \in Slots(g) => u \in U)
      OBVIOUS
    <3> HIDE DEF u
    <3>7. CASE u \in U
      <4>1. u \in Slots(h) /\ u \in Slots(g) /\ At(g, u) = At(h, u)
        BY <3>7
      <4>2. X(Append(q, b)) = At(h, u) /\ Y(Append(q, b)) = At(h, u)
        BY <3>4, <3>5, <4>1
      <4> QED BY <2>1, <3>7, <4>2
    <3>8. CASE u \notin U
      <4>1. X(Append(q, b)) = NoCell /\ Y(Append(q, b)) = NoCell
        BY <3>4, <3>5, <3>6, <3>8
      <4> QED BY <2>1, <4>1
    <3> QED BY <3>7, <3>8
  <2> QED BY <2>2, <2>3
<1> HIDE DEF S
<1>3. r \in S
  BY <1>1, <1>2, PathInduction
<1> QED BY <1>3 DEF S

\* A slot that holds an empty cell makes no difference to what is found.
LEMMA BlankSlot ==
    ASSUME NEW h, HeapOK(h), NEW g, HeapOK(g), NEW b0, b0 \notin Slots(h),
           Slots(g) = Slots(h) \cup {b0}, At(g, b0) = NoCell,
           \A t \in Slots(h) : At(g, t) = At(h, t),
           NEW s \in Slots(h), NEW r \in Seq(Byte)
    PROVE  CellBelow(g, At(g, s), r) = CellBelow(h, At(h, s), r)
<1> DEFINE X(q) == CellBelow(h, At(h, s), q)
           Y(q) == CellBelow(g, At(g, s), q)
           S == {q \in Seq(Byte) : Y(q) = X(q)}
<1>1. <<>> \in S
  <2>1. X(<<>>) = At(h, s) /\ Y(<<>>) = At(g, s)
    BY CellBelowEmpty
  <2>2. At(g, s) = At(h, s) /\ <<>> \in Seq(Byte)
    OBVIOUS
  <2> HIDE DEF X, Y
  <2> QED BY <2>1, <2>2
<1>2. ASSUME NEW q \in Seq(Byte), q \in S, NEW b \in Byte
      PROVE  Append(q, b) \in S
  <2>1. X(Append(q, b)) = Below(h, X(q), b) /\ Y(Append(q, b)) = Below(g, Y(q), b)
        /\ Append(q, b) \in Seq(Byte)
    BY CellBelowAppend
  <2>2. X(q) = NoCell \/ \E t \in Slots(h) : X(q) = At(h, t)
    BY CellBelowSlot
  <2> HIDE DEF X, Y
  <2>3. CASE X(q) = NoCell
    <3>1. X(Append(q, b)) = NoCell /\ Y(Append(q, b)) = NoCell
      BY <1>2, <2>1, <2>3, BelowSlot
    <3> QED BY <2>1, <3>1
  <2>4. CASE X(q) # NoCell
    <3>1. PICK t \in Slots(h) : X(q) = At(h, t)
      BY <2>2, <2>4
    <3> DEFINE u == <<NodeIn(h, t), b>>
    <3>2. t \in Slots(g) /\ At(g, t) = At(h, t) /\ Y(q) = At(g, t)
      BY <1>2, <3>1
    <3>3. NodeIn(g, t) = NodeIn(h, t)
      BY <3>2 DEF NodeIn
    <3>4. Below(h, At(h, t), b) = IF u \in Slots(h) THEN At(h, u) ELSE NoCell
      BY BelowSlot
    <3>5. Below(g, At(g, t), b) = IF u \in Slots(g) THEN At(g, u) ELSE NoCell
      BY <3>2, <3>3, BelowSlot
    <3> HIDE DEF u
    <3>6. Below(g, At(g, t), b) = Below(h, At(h, t), b)
      BY <3>4, <3>5
    <3> QED BY <1>2, <2>1, <3>1, <3>2, <3>6
  <2> QED BY <2>3, <2>4
<1> HIDE DEF S
<1>3. r \in S
  BY <1>1, <1>2, PathInduction
<1> QED BY <1>3 DEF S

\* Slot u of g stands for slot t of h: it has the same value, and leads to the same node, or to
\* the new one in slot s where t leads to the old one.
Mirrors(h, g, s, t, u) ==
    /\ t \in Slots(h) /\ u \in Slots(g)
    /\ ValIn(g, u) = ValIn(h, t)
    /\ \/ NodeIn(g, u) = NodeIn(h, t)
       \/ NodeIn(g, u) = NodeIn(g, s) /\ NodeIn(h, t) = NodeIn(h, s)

\* One byte down from both.
LEMMA MirrorsBelow ==
    ASSUME NEW h, HeapOK(h), NEW g, HeapOK(g), NEW s \in Slots(h), Grown(h, g, s),
           NEW t, NEW u, Mirrors(h, g, s, t, u), NEW b
    PROVE  \/ Below(h, At(h, t), b) = NoCell /\ Below(g, At(g, u), b) = NoCell
           \/ \E v, w : /\ Mirrors(h, g, s, v, w)
                        /\ Below(h, At(h, t), b) = At(h, v) /\ Below(g, At(g, u), b) = At(g, w)
<1> DEFINE n == NodeIn(h, s)
           m == NodeIn(g, s)
           v == <<NodeIn(h, t), b>>
           w == <<NodeIn(g, u), b>>
<1>1. t \in Slots(h) /\ u \in Slots(g)
  BY DEF Mirrors
<1>2. /\ m \notin DOMAIN h /\ m # NoNode /\ Slots(h) \subseteq Slots(g)
      /\ ValIn(g, s) = ValIn(h, s)
      /\ \A x \in Slots(h) : x # s => At(g, x) = At(h, x)
      /\ \A x \in Slots(g) : x \notin Slots(h) => x[1] = m
      /\ <<m, b>> \in Slots(g) <=> <<n, b>> \in Slots(h)
      /\ <<n, b>> \in Slots(h) => At(g, <<m, b>>) = At(h, <<n, b>>)
  BY DEF Grown, ValIn
<1>3. Below(h, At(h, t), b) = IF v \in Slots(h) THEN At(h, v) ELSE NoCell
  BY <1>1, BelowSlot
<1>4. Below(g, At(g, u), b) = IF w \in Slots(g) THEN At(g, w) ELSE NoCell
  BY <1>1, BelowSlot
<1>5. NodeIn(h, t) \in DOMAIN h \/ NodeIn(h, t) = NoNode
  BY <1>1, HeapFacts
<1>6. (v \in Slots(h) <=> w \in Slots(g)) /\ (v \in Slots(h) => Mirrors(h, g, s, v, w))
  <2>1. CASE NodeIn(g, u) = NodeIn(h, t)
    <3>1. v = w /\ v[1] # m
      BY <1>2, <1>5, <2>1
    <3> HIDE DEF v, w, m, n
    <3>2. v \in Slots(h) <=> w \in Slots(g)
      BY <1>2, <3>1
    <3>3. ASSUME v \in Slots(h)
          PROVE  Mirrors(h, g, s, v, w)
      <4>1. CASE v = s
        BY <1>2, <3>1, <3>3, <4>1 DEF Mirrors
      <4>2. CASE v # s
        <5>1. At(g, w) = At(h, v)
          BY <1>2, <3>1, <3>3, <4>2
        <5> QED BY <3>2, <3>3, <5>1 DEF Mirrors, NodeIn, ValIn
      <4> QED BY <4>1, <4>2
    <3> QED BY <3>2, <3>3
  <2>2. CASE NodeIn(g, u) = m /\ NodeIn(h, t) = n
    <3>1. v = <<n, b>> /\ w = <<m, b>>
      BY <2>2
    <3>2. v \in Slots(h) <=> w \in Slots(g)
      BY <1>2, <3>1
    <3>3. ASSUME v \in Slots(h)
          PROVE  Mirrors(h, g, s, v, w)
      <4>1. At(g, w) = At(h, v)
        BY <1>2, <3>1, <3>3
      <4> HIDE DEF v, w
      <4> QED BY <3>2, <3>3, <4>1 DEF Mirrors, NodeIn, ValIn
    <3> QED BY <3>2, <3>3
  <2> QED BY <2>1, <2>2 DEF Mirrors
<1> HIDE DEF v, w
<1> QED BY <1>3, <1>4, <1>6

\* A new node, empty or a copy, changes no value.
LEMMA GrownValues ==
    ASSUME NEW h, HeapOK(h), NEW g, HeapOK(g), NEW s \in Slots(h), Grown(h, g, s)
    PROVE  SameValues(h, g)
<1>0. SameOwners(h, g) /\ Slots(h) \subseteq Slots(g)
  <2>1. /\ Roots \in DOMAIN h /\ Slots(h) \subseteq Slots(g)
        /\ \A t \in Slots(g) : t \notin Slots(h) => t[1] \notin DOMAIN h
    BY HeapFacts DEF Grown
  <2>2. ASSUME NEW o
        PROVE  <<Roots, o>> \in Slots(g) <=> <<Roots, o>> \in Slots(h)
    <3> DEFINE t == <<Roots, o>>
    <3>1. t[1] = Roots
      OBVIOUS
    <3> HIDE DEF t
    <3>2. t \in Slots(g) <=> t \in Slots(h)
      BY <2>1, <3>1
    <3> QED BY <3>2 DEF t
  <2> QED BY <2>1, <2>2 DEF SameOwners
<1> SUFFICES ASSUME NEW t \in Slots(h), NEW r \in Seq(Byte)
             PROVE  Value(g, At(g, t), r) = Value(h, At(h, t), r)
  BY <1>0 DEF SameValues
<1> DEFINE X(q) == CellBelow(h, At(h, t), q)
           Y(q) == CellBelow(g, At(g, t), q)
           Both(q) == \/ X(q) = NoCell /\ Y(q) = NoCell
                      \/ \E v, w : Mirrors(h, g, s, v, w) /\ X(q) = At(h, v) /\ Y(q) = At(g, w)
           S == {q \in Seq(Byte) : Both(q)}
<1>1. <<>> \in S
  <2>1. X(<<>>) = At(h, t) /\ Y(<<>>) = At(g, t)
    BY CellBelowEmpty
  <2>2. t \in Slots(g)
    BY DEF Grown
  <2>3. Mirrors(h, g, s, t, t)
    <3>1. CASE t = s
      BY <2>2, <3>1 DEF Mirrors, Grown, ValIn
    <3>2. CASE t # s
      <4>1. At(g, t) = At(h, t)
        BY <3>2 DEF Grown
      <4> QED BY <2>2, <4>1 DEF Mirrors, NodeIn, ValIn
    <3> QED BY <3>1, <3>2
  <2> HIDE DEF X, Y
  <2>4. Both(<<>>)
    BY <2>1, <2>3
  <2> QED BY <2>4
<1>2. ASSUME NEW q \in Seq(Byte), q \in S, NEW b \in Byte
      PROVE  Append(q, b) \in S
  <2>1. X(Append(q, b)) = Below(h, X(q), b) /\ Y(Append(q, b)) = Below(g, Y(q), b)
        /\ Append(q, b) \in Seq(Byte)
    BY CellBelowAppend
  <2> HIDE DEF X, Y
  <2>2. CASE X(q) = NoCell /\ Y(q) = NoCell
    <3>1. X(Append(q, b)) = NoCell /\ Y(Append(q, b)) = NoCell
      BY <2>1, <2>2, BelowSlot
    <3> QED BY <2>1, <3>1
  <2>3. CASE ~(X(q) = NoCell /\ Y(q) = NoCell)
    <3>1. PICK v, w : Mirrors(h, g, s, v, w) /\ X(q) = At(h, v) /\ Y(q) = At(g, w)
      BY <1>2, <2>3
    <3>2. \/ Below(h, At(h, v), b) = NoCell /\ Below(g, At(g, w), b) = NoCell
          \/ \E x, y : /\ Mirrors(h, g, s, x, y)
                       /\ Below(h, At(h, v), b) = At(h, x) /\ Below(g, At(g, w), b) = At(g, y)
      BY <3>1, MirrorsBelow
    <3>3. Both(Append(q, b))
      BY <2>1, <3>1, <3>2
    <3> QED BY <2>1, <3>3
  <2> QED BY <2>2, <2>3
<1> HIDE DEF S, X, Y
<1>3. r \in S
  BY <1>1, <1>2, PathInduction
<1>4. CASE X(r) = NoCell /\ Y(r) = NoCell
  BY <1>4 DEF Value, X, Y
<1>5. CASE ~(X(r) = NoCell /\ Y(r) = NoCell)
  <2>1. PICK v, w : Mirrors(h, g, s, v, w) /\ X(r) = At(h, v) /\ Y(r) = At(g, w)
    BY <1>3, <1>5 DEF S
  <2>2. At(h, v).val = At(g, w).val
    BY <2>1 DEF Mirrors, ValIn
  <2>3. CellBelow(h, At(h, t), r) = At(h, v) /\ CellBelow(g, At(g, t), r) = At(g, w)
    BY <2>1 DEF X, Y
  <2> QED BY <2>2, <2>3 DEF Value
<1> QED BY <1>4, <1>5

\* One heap after another.
LEMMA SameValuesTrans ==
    ASSUME NEW h, NEW g, NEW k, SameValues(h, g), SameValues(g, k)
    PROVE  SameValues(h, k)
BY DEF SameValues, SameOwners

\* make_mut and prepare_cf change no value.
LEMMA MakeMutValues ==
    ASSUME NEW h, HeapOK(h), NEW s \in Slots(h)
    PROVE  SameValues(h, MakeMut(h, s)) /\ SameValues(h, EnsureNode(h, s))
<1>1. SameValues(h, h)
  BY DEF SameValues, SameOwners
<1>2. SameValues(h, MakeMut(h, s))
  <2>1. CASE MakeMut(h, s) = h
    BY <1>1, <2>1
  <2>2. CASE MakeMut(h, s) # h
    <3>1. HeapOK(MakeMut(h, s)) /\ Grown(h, MakeMut(h, s), s)
      BY <2>2, MakeMutFacts
    <3> QED BY <3>1, GrownValues
  <2> QED BY <2>1, <2>2
<1>3. EnsureNode(h, s) = h \/ EnsureNode(h, s) = MakeMut(h, s)
  BY EnsureNodeFacts
<1> QED BY <1>1, <1>2, <1>3

\* Nor does a step down.
LEMMA DescendValues ==
    ASSUME NEW h, HeapOK(h), NEW s \in Slots(h), NEW b \in Byte
    PROVE  SameValues(h, HeapOf(Descend(h, s, b)))
<1> DEFINE f == MakeMut(h, s)
           g == HeapOf(Descend(h, s, b))
           t == SlotOf(Descend(h, s, b))
<1>1. HeapOK(f) /\ Slots(h) \subseteq Slots(f) /\ SameValues(h, f)
  BY MakeMutFacts, MakeMutValues
<1>2. /\ HeapOK(g) /\ t = <<NodeIn(f, s), b>>
      /\ g = f \/ (t \notin Slots(f) /\ g = WithCell(f, t, NoCell))
      /\ NodeIn(f, s) # NoNode
  BY DescendFacts, MakeMutFacts
<1> HIDE DEF f, g, t
<1>3. CASE g = f
  BY <1>1, <1>3 DEF g
<1>4. CASE t \notin Slots(f) /\ g = WithCell(f, t, NoCell)
  <2>1. NoCell \in CellType(f)
    BY DEF NoCell, CellType
  <2>2. Named(f, t)
    BY <1>1, <1>2, HeapFacts DEF Named
  <2>3. /\ Slots(g) = Slots(f) \cup {t} /\ At(g, t) = NoCell
        /\ \A x \in Slots(f) : At(g, x) = At(f, x)
    BY <1>1, <1>4, <2>1, <2>2, WithCellFacts
  <2>4. ASSUME NEW x \in Slots(f), NEW q \in Seq(Byte)
        PROVE  Value(g, At(g, x), q) = Value(f, At(f, x), q)
    <3>1. CellBelow(g, At(g, x), q) = CellBelow(f, At(f, x), q)
      BY <1>1, <1>2, <1>4, <2>3, BlankSlot
    <3> QED BY <3>1 DEF Value
  <2>5. SameOwners(f, g)
    <3>1. NodeIn(f, s) # Roots
      BY <1>1, HeapFacts
    <3>2. \A o : <<Roots, o>> # t
      BY <1>2, <3>1
    <3> QED BY <2>3, <3>2 DEF SameOwners
  <2>6. SameValues(f, g)
    BY <2>3, <2>4, <2>5 DEF SameValues
  <2> QED BY <1>1, <2>6, SameValuesTrans DEF g
<1> QED BY <1>2, <1>3, <1>4

\* Nor does a walk.
LEMMA WalkValues ==
    ASSUME NEW h, HeapOK(h), NEW s \in Slots(h), NEW r \in Seq(Byte)
    PROVE  SameValues(h, HeapOf(Walk(h, s, r)))
<1> DEFINE W(q) == Walk(h, s, q)
           S == {q \in Seq(Byte) : SameValues(h, HeapOf(W(q)))}
<1>1. <<>> \in S
  <2>1. HeapOf(W(<<>>)) = h
    BY WalkEmpty
  <2>2. SameValues(h, h) /\ <<>> \in Seq(Byte)
    BY DEF SameValues, SameOwners
  <2> HIDE DEF W
  <2> QED BY <2>1, <2>2
<1>2. ASSUME NEW q \in Seq(Byte), q \in S, NEW b \in Byte
      PROVE  Append(q, b) \in S
  <2>1. /\ HeapOK(HeapOf(W(q))) /\ Slots(h) \subseteq Slots(HeapOf(W(q)))
        /\ SlotOf(W(q)) \in Slots(HeapOf(W(q)))
    BY WalkFacts
  <2>2. W(Append(q, b)) = Descend(HeapOf(W(q)), SlotOf(W(q)), b) /\ Append(q, b) \in Seq(Byte)
    BY WalkAppend
  <2> HIDE DEF W
  <2>3. SameValues(HeapOf(W(q)), HeapOf(W(Append(q, b))))
    BY <2>1, <2>2, DescendValues
  <2>4. SameValues(h, HeapOf(W(q)))
    BY <1>2
  <2>5. SameValues(h, HeapOf(W(Append(q, b))))
    BY <2>1, <2>3, <2>4, SameValuesTrans
  <2> QED BY <2>2, <2>5
<1> HIDE DEF S
<1>3. r \in S
  BY <1>1, <1>2, PathInduction
<1> QED BY <1>3 DEF S

\* The owners' values: what each of them sees at each path.
Sees(h, o, q) == Value(h, At(h, <<Roots, o>>), q)

\* The heap h becomes g by a write of cell d at the end of a chain, of path a: below a is now
\* what is below d, all else is as it was.
LEMMA WriteLookup ==
    ASSUME NEW h, HeapOK(h), NEW a \in Seq(Byte), NEW c, Chain(h, a, c), NEW d \in CellType(h),
           \A k \in 0..(Len(a) - 1) : d.rec # NodeIn(h, Stop(c, k)),
           NEW g, g = WithCell(h, Stop(c, Len(a)), d)
    PROVE  /\ HeapOK(g) /\ Slots(g) = Slots(h)
           /\ \A t \in Slots(h) : OffChain(c, Len(a), t) => \A r \in Seq(Byte) :
                 Value(g, At(g, t), r) = Value(h, At(h, t), r)
           /\ \A r \in Seq(Byte) : CellBelow(g, d, r) = CellBelow(h, d, r)
           /\ \A r \in Seq(Byte) : CellBelow(g, At(g, HeadSlot), a \o r) = CellBelow(h, d, r)
           /\ \A p \in Seq(Byte) : ~Begins(a, p) => Sees(g, "map", p) = Sees(h, "map", p)
<1> DEFINE s == Stop(c, Len(a))
           U == {t \in Slots(h) : OffChain(c, Len(a), t)}
<1>1. s \in Slots(h) /\ Named(h, s) /\ Len(a) \in Nat
  <2>1. Len(a) \in 0..Len(a)
    OBVIOUS
  <2> QED BY <2>1, HeapFacts DEF Chain
<1> HIDE DEF s
<1>2. HeapOK(g) /\ Slots(g) = Slots(h) \cup {s} /\ At(g, s) = d
      /\ \A t \in Slots(h) : t # s => At(g, t) = At(h, t)
  BY <1>1, WithCellFacts DEF s
<1>3. Slots(g) = Slots(h)
  BY <1>1, <1>2
<1>4. ASSUME NEW t \in U
      PROVE  t \in Slots(h) /\ t \in Slots(g) /\ At(g, t) = At(h, t)
  <2>1. t # s
    BY <1>1 DEF OffChain, s
  <2> QED BY <1>2, <1>3, <2>1
<1>5. ASSUME NEW t \in Slots(h), At(g, t) = At(h, t), NEW b \in Byte,
             \A k \in 0..(Len(a) - 1) : t = Stop(c, k) => b # a[k + 1]
      PROVE  /\ Below(g, At(g, t), b) = Below(h, At(h, t), b)
             /\ Below(h, At(h, t), b) = NoCell \/ \E u \in U : Below(h, At(h, t), b) = At(h, u)
  <2> DEFINE u == <<NodeIn(h, t), b>>
  <2>1. OffChain(c, Len(a), u)
    BY <1>5, StepOff
  <2>2. NodeIn(g, t) = NodeIn(h, t) /\ t \in Slots(g)
    BY <1>3, <1>5 DEF NodeIn
  <2>3. Below(h, At(h, t), b) = IF u \in Slots(h) THEN At(h, u) ELSE NoCell
    BY BelowSlot
  <2>4. Below(g, At(g, t), b) = IF u \in Slots(g) THEN At(g, u) ELSE NoCell
    BY <1>2, <2>2, BelowSlot
  <2> HIDE DEF u
  <2>5. u \in Slots(h) => u \in U /\ At(g, u) = At(h, u)
    BY <1>4, <2>1
  <2> QED BY <1>3, <2>3, <2>4, <2>5
<1>6. ASSUME NEW t \in U, NEW b \in Byte
      PROVE  /\ Below(g, At(g, t), b) = Below(h, At(h, t), b)
             /\ Below(h, At(h, t), b) = NoCell \/ \E u \in U : Below(h, At(h, t), b) = At(h, u)
  <2>1. \A k \in 0..(Len(a) - 1) : t # Stop(c, k)
    BY <1>1 DEF OffChain
  <2> HIDE DEF U
  <2> QED BY <1>4, <1>5, <2>1
\* From the cells of U, and from NoCell, nothing changes.
<1> DEFINE Out(x, y) == y = x /\ (x = NoCell \/ \E t \in U : x = At(h, t))
<1>7. ASSUME NEW x, NEW y, Out(x, y), NEW b \in Byte
      PROVE  Out(Below(h, x, b), Below(g, y, b))
  <2>1. CASE x = NoCell
    <3>1. Below(h, x, b) = NoCell /\ Below(g, y, b) = NoCell
      BY <1>2, <1>7, <2>1, BelowSlot
    <3> QED BY <3>1
  <2>2. CASE x # NoCell
    <3>1. PICK t \in U : x = At(h, t)
      BY <1>7, <2>2
    <3>2. y = At(g, t)
      BY <1>4, <1>7, <3>1
    <3> HIDE DEF U
    <3> QED BY <1>6, <3>1, <3>2
  <2> QED BY <2>1, <2>2
<1>8. ASSUME NEW t \in U
      PROVE  Out(At(h, t), At(g, t))
  BY <1>4, <1>8
<1>9. ASSUME NEW b \in Byte
      PROVE  Out(Below(h, d, b), Below(g, d, b))
  <2> DEFINE u == <<d.rec, b>>
  <2>1. d.rec = NoNode \/ (d.rec \in DOMAIN h /\ d.rec # Roots)
    BY DEF CellType, Nodes
  <2>2. NoNode \notin DOMAIN h /\ DOMAIN g = DOMAIN h
    BY <1>1, HeapFacts, WithCellFacts DEF s
  <2>3. (u \in Slots(h) <=> d.rec \in DOMAIN h /\ b \in DOMAIN h[d.rec])
        /\ (u \in Slots(g) <=> d.rec \in DOMAIN g /\ b \in DOMAIN g[d.rec])
    BY SlotsDef
  <2>4. Below(h, d, b) = IF u \in Slots(h) THEN At(h, u) ELSE NoCell
    BY <2>1, <2>2, <2>3 DEF Below, At
  <2>5. Below(g, d, b) = IF u \in Slots(g) THEN At(g, u) ELSE NoCell
    BY <2>1, <2>2, <2>3 DEF Below, At
  <2>6. ASSUME u \in Slots(h), NEW k \in 0..Len(a)
        PROVE  u # Stop(c, k)
    <3>1. u[1] # Roots
      BY <2>1, <2>2, <2>3, <2>6
    <3>2. CASE k = 0
      BY <3>1, <3>2, HeapFacts DEF Chain
    <3>3. CASE k # 0
      <4>1. k \in 1..Len(a)
        BY <1>1, <3>3
      <4>2. k - 1 \in 0..(Len(a) - 1) /\ Stop(c, k) = <<NodeIn(h, Stop(c, k - 1)), a[k]>>
        BY <4>1, ChainFacts
      <4>3. d.rec # NodeIn(h, Stop(c, k - 1))
        BY <4>2
      <4> QED BY <4>2, <4>3
    <3> QED BY <3>2, <3>3
  <2>7. u \in Slots(h) => u \in U
    BY <2>6 DEF OffChain
  <2> HIDE DEF u
  <2>8. u \in Slots(h) => At(g, u) = At(h, u)
    BY <1>4, <2>7
  <2> HIDE DEF U
  <2> QED BY <1>3, <2>4, <2>5, <2>7, <2>8
<1> HIDE DEF Out
<1>10. ASSUME NEW x, NEW y, NEW r \in Seq(Byte), r # <<>>,
              \A b \in Byte : Out(Below(h, x, b), Below(g, y, b))
       PROVE  Out(CellBelow(h, x, r), CellBelow(g, y, r))
  <2> DEFINE X(q) == CellBelow(h, x, q)
             Y(q) == CellBelow(g, y, q)
             S == {q \in Seq(Byte) : q # <<>> => Out(X(q), Y(q))}
  <2>1. <<>> \in S
    OBVIOUS
  <2>2. ASSUME NEW q \in Seq(Byte), q \in S, NEW b \in Byte
        PROVE  Append(q, b) \in S
    <3>1. X(Append(q, b)) = Below(h, X(q), b) /\ Y(Append(q, b)) = Below(g, Y(q), b)
          /\ Append(q, b) \in Seq(Byte)
      BY CellBelowAppend
    <3>2. q = <<>> => X(q) = x /\ Y(q) = y
      BY CellBelowEmpty
    <3> HIDE DEF X, Y
    <3>3. CASE q = <<>>
      BY <1>10, <3>1, <3>2, <3>3
    <3>4. CASE q # <<>>
      BY <1>7, <2>2, <3>1, <3>4
    <3> QED BY <3>3, <3>4
  <2>3. \A q \in S : q # <<>> => Out(X(q), Y(q))
    OBVIOUS
  <2> HIDE DEF S, X, Y
  <2>4. r \in S
    BY <2>1, <2>2, PathInduction
  <2>5. Out(X(r), Y(r))
    BY <1>10, <2>3, <2>4
  <2> QED BY <2>5 DEF X, Y
<1>11. ASSUME NEW t \in U, NEW r \in Seq(Byte)
       PROVE  Out(CellBelow(h, At(h, t), r), CellBelow(g, At(g, t), r))
  <2>1. CASE r = <<>>
    BY <1>8, <2>1, CellBelowEmpty
  <2>2. CASE r # <<>>
    <3>1. \A b \in Byte : Out(Below(h, At(h, t), b), Below(g, At(g, t), b))
      BY <1>7, <1>8
    <3> HIDE DEF U
    <3> QED BY <1>10, <2>2, <3>1
  <2> QED BY <2>1, <2>2
<1>12. ASSUME NEW t \in Slots(h), OffChain(c, Len(a), t), NEW r \in Seq(Byte)
       PROVE  Value(g, At(g, t), r) = Value(h, At(h, t), r)
  <2>1. t \in U
    BY <1>12
  <2> HIDE DEF U
  <2>2. Out(CellBelow(h, At(h, t), r), CellBelow(g, At(g, t), r))
    BY <1>11, <2>1
  <2> QED BY <2>2 DEF Out, Value
<1>13. ASSUME NEW r \in Seq(Byte)
       PROVE  CellBelow(g, d, r) = CellBelow(h, d, r)
  <2>1. CASE r = <<>>
    BY <2>1, CellBelowEmpty
  <2>2. CASE r # <<>>
    <3>1. Out(CellBelow(h, d, r), CellBelow(g, d, r))
      BY <1>9, <1>10, <2>2
    <3> QED BY <3>1 DEF Out
  <2> QED BY <2>1, <2>2
<1>14. Chain(g, a, c)
  BY <1>1, ChainWrites, OffLess DEF s
<1>15. ASSUME NEW r \in Seq(Byte)
       PROVE  CellBelow(g, At(g, HeadSlot), a \o r) = CellBelow(h, d, r)
  <2>1. Begins(a, a)
    BY <1>1 DEF Begins
  <2>2. CellBelow(g, At(g, HeadSlot), a) = At(g, s)
    BY <1>2, <1>14, <2>1, CellBelowChain DEF s
  <2>3. CellBelow(g, At(g, HeadSlot), a \o r) = CellBelow(g, CellBelow(g, At(g, HeadSlot), a), r)
    BY CellBelowConcat
  <2> QED BY <1>2, <1>13, <2>2, <2>3
<1>16. ASSUME NEW q \in Seq(Byte), Begins(q, a), ~Begins(a, q)
       PROVE  /\ CellBelow(h, At(h, HeadSlot), q) = At(h, Stop(c, Len(q)))
              /\ CellBelow(g, At(g, HeadSlot), q) = At(g, Stop(c, Len(q)))
              /\ Len(q) \in 0..(Len(a) - 1) /\ Stop(c, Len(q)) \in Slots(h)
              /\ At(g, Stop(c, Len(q))) = At(h, Stop(c, Len(q)))
  <2>1. Len(q) \in 0..(Len(a) - 1)
    <3>1. Len(q) <= Len(a) /\ Len(q) \in Nat
      BY <1>16 DEF Begins
    <3>2. Len(q) # Len(a)
      BY <1>16 DEF Begins
    <3> QED BY <1>1, <3>1, <3>2
  <2>2. Len(q) \in 0..Len(a) /\ Len(a) \in 0..Len(a) /\ Len(q) # Len(a)
    BY <1>1, <2>1
  <2>3. Stop(c, Len(q)) \in Slots(h) /\ Stop(c, Len(q)) # s
    BY <2>2, ChainFacts DEF s
  <2>4. At(g, Stop(c, Len(q))) = At(h, Stop(c, Len(q)))
    BY <1>2, <2>3
  <2>5. /\ CellBelow(h, At(h, HeadSlot), q) = At(h, Stop(c, Len(q)))
        /\ CellBelow(g, At(g, HeadSlot), q) = At(g, Stop(c, Len(q)))
    BY <1>2, <1>14, <1>16, CellBelowChain
  <2> QED BY <2>1, <2>3, <2>4, <2>5
<1>17. ASSUME NEW p \in Seq(Byte), ~Begins(a, p)
       PROVE  Value(g, At(g, HeadSlot), p) = Value(h, At(h, HeadSlot), p)
  <2> DEFINE X(q) == CellBelow(h, At(h, HeadSlot), q)
             Y(q) == CellBelow(g, At(g, HeadSlot), q)
             S == {q \in Seq(Byte) : ~Begins(a, q) /\ ~Begins(q, a) => Out(X(q), Y(q))}
  <2>1. <<>> \in S
    BY BeginsFacts
  <2>2. ASSUME NEW q \in Seq(Byte), q \in S, NEW b \in Byte
        PROVE  Append(q, b) \in S
    <3>1. X(Append(q, b)) = Below(h, X(q), b) /\ Y(Append(q, b)) = Below(g, Y(q), b)
          /\ Append(q, b) \in Seq(Byte)
      BY CellBelowAppend
    <3>2. SUFFICES ASSUME ~Begins(a, Append(q, b)), ~Begins(Append(q, b), a)
                   PROVE  Out(X(Append(q, b)), Y(Append(q, b)))
      BY <3>1
    <3>3. ~Begins(a, q)
      <4>1. Len(Append(q, b)) = Len(q) + 1 /\ Len(q) \in Nat /\ \A k \in 1..Len(q) : Append(q, b)[k] = q[k]
        OBVIOUS
      <4>2. SUFFICES ASSUME Begins(a, q) PROVE FALSE
        OBVIOUS
      <4>3. Len(a) <= Len(q) /\ \A k \in 1..Len(a) : k \in 1..Len(q)
        BY <1>1, <4>1, <4>2 DEF Begins
      <4> QED BY <1>1, <3>2, <4>1, <4>2, <4>3 DEF Begins
    <3>4. CASE ~Begins(q, a)
      <4>1. Out(X(q), Y(q))
        BY <2>2, <3>3, <3>4
      <4> HIDE DEF X, Y
      <4> QED BY <1>7, <3>1, <4>1
    <3>5. CASE Begins(q, a)
      <4> DEFINE t == Stop(c, Len(q))
      <4>1. X(q) = At(h, t) /\ Y(q) = At(g, t) /\ Len(q) \in 0..(Len(a) - 1) /\ t \in Slots(h)
            /\ At(g, t) = At(h, t)
        BY <1>16, <3>3, <3>5
      <4>2. b # a[Len(q) + 1]
        BY <3>2, <3>5, <4>1, BeginsFacts
      <4>3. ASSUME NEW k \in 0..(Len(a) - 1), t = Stop(c, k)
            PROVE  b # a[k + 1]
        <5>1. k \in 0..Len(a) /\ Len(q) \in 0..Len(a)
          BY <1>1, <4>1
        <5>2. k = Len(q)
          BY <4>3, <5>1, ChainFacts
        <5> QED BY <4>2, <5>2
      <4> HIDE DEF X, Y, t, U
      <4>4. /\ Below(g, At(g, t), b) = Below(h, At(h, t), b)
            /\ Below(h, At(h, t), b) = NoCell \/ \E u \in U : Below(h, At(h, t), b) = At(h, u)
        BY <1>5, <4>1, <4>3
      <4> QED BY <3>1, <4>1, <4>4 DEF Out
    <3> QED BY <3>4, <3>5
  <2>3. \A q \in S : ~Begins(a, q) /\ ~Begins(q, a) => Out(X(q), Y(q))
    OBVIOUS
  <2> HIDE DEF S
  <2>4. p \in S
    BY <2>1, <2>2, PathInduction
  <2>5. CASE Begins(p, a)
    BY <1>16, <1>17, <2>5 DEF Value
  <2>6. CASE ~Begins(p, a)
    <3>1. Out(X(p), Y(p))
      BY <1>17, <2>3, <2>4, <2>6
    <3> QED BY <3>1 DEF Out, Value
  <2> QED BY <2>5, <2>6
<1> QED BY <1>2, <1>3, <1>12, <1>13, <1>15, <1>17 DEF Sees, HeadSlot

-------------------------------------------------------------------------------
(* Settling changes no value that can be seen.                             *)

\* Every value that an owner sees is at a path of the trie.
Bounded(h) ==
    \A o : <<Roots, o>> \in Slots(h) =>
        \A q \in Seq(Byte) : Sees(h, o, q) # NoVal => q \in TriePath

\* What an owner finds in the settled heap is the cell found before, renamed, or nothing.
LEMMA SettledBelow ==
    ASSUME NEW h, HeapOK(h), NEW g, Settled(h, g), NEW o, <<Roots, o>> \in Slots(h), NEW p \in Seq(Byte)
    PROVE  LET x == CellBelow(h, At(h, <<Roots, o>>), p)
               y == CellBelow(g, At(g, <<Roots, o>>), p)
           IN y = NoCell \/ y = Renamed(h, x)
<1> DEFINE r == <<Roots, o>>
           X(q) == CellBelow(h, At(h, r), q)
           Y(q) == CellBelow(g, At(g, r), q)
           S == {q \in Seq(Byte) : Y(q) = NoCell \/ Y(q) = Renamed(h, X(q))}
<1>1. HeapOK(g)
  BY SettledOK
<1>2. r \in Slots(h) /\ r[1] = Roots
  OBVIOUS
<1> HIDE DEF r
<1>3. Live(h, r) /\ Moved(h, r) = r
  BY <1>2, SettledSlots
<1>4. r \in Slots(g) /\ At(g, r) = Renamed(h, At(h, r))
  BY <1>3, SettledSlots
<1>5. <<>> \in S
  <2>1. X(<<>>) = At(h, r) /\ Y(<<>>) = At(g, r)
    BY CellBelowEmpty
  <2>2. <<>> \in Seq(Byte)
    OBVIOUS
  <2> HIDE DEF X, Y
  <2> QED BY <1>4, <2>1, <2>2
<1>6. ASSUME NEW q \in Seq(Byte), q \in S, NEW b \in Byte
      PROVE  Append(q, b) \in S
  <2>1. X(Append(q, b)) = Below(h, X(q), b) /\ Y(Append(q, b)) = Below(g, Y(q), b)
        /\ Append(q, b) \in Seq(Byte)
    BY CellBelowAppend
  <2>2. X(q) = NoCell \/ \E t \in Slots(h) : X(q) = At(h, t)
    BY <1>2, CellBelowSlot
  <2> HIDE DEF X, Y
  <2>3. CASE Y(q) = NoCell
    <3>1. Y(Append(q, b)) = NoCell
      BY <1>1, <2>1, <2>3, BelowSlot
    <3> QED BY <2>1, <3>1
  <2>4. CASE Y(q) # NoCell /\ X(q) = NoCell
    <3>1. Renamed(h, NoCell) = NoCell
      BY NewNameFacts DEF Renamed, NoCell
    <3> QED BY <1>6, <2>4, <3>1
  <2>5. CASE Y(q) # NoCell /\ X(q) # NoCell
    <3>1. PICK t \in Slots(h) : X(q) = At(h, t)
      BY <2>2, <2>5
    <3> DEFINE n == NodeIn(h, t)
               u == <<n, b>>
    <3>2. Y(q) = Renamed(h, At(h, t)) /\ At(h, t) \in CellType(h)
      BY <1>6, <2>5, <3>1, HeapFacts
    <3>3. Y(q).rec = NewName(h, n)
      BY <3>2, RenamedFacts DEF NodeIn
    <3>4. X(Append(q, b)) = IF u \in Slots(h) THEN At(h, u) ELSE NoCell
      <4>1. Below(h, At(h, t), b) = IF u \in Slots(h) THEN At(h, u) ELSE NoCell
        BY BelowSlot
      <4> QED BY <2>1, <3>1, <4>1
    <3>5. CASE NewName(h, n) = NoNode
      <4>1. Y(Append(q, b)) = NoCell
        BY <2>1, <3>3, <3>5 DEF Below
      <4> QED BY <2>1, <4>1
    <3>6. CASE NewName(h, n) # NoNode
      <4> DEFINE m == NewName(h, n)
      <4>1. n \in DOMAIN h
        BY <3>6, HeapFacts, NewNameFacts
      <4>2. DOMAIN g[m] = DOMAIN h[n] /\ \A c \in DOMAIN h[n] : g[m][c] = Renamed(h, h[n][c])
        BY <3>6, <4>1 DEF Settled
      <4>3. CASE b \in DOMAIN h[n]
        <5>1. u \in Slots(h) /\ At(h, u) = h[n][b]
          BY <4>1, <4>3, SlotsDef DEF At
        <5>2. Y(Append(q, b)) = g[m][b]
          BY <2>1, <3>3, <3>6, <4>2, <4>3 DEF Below
        <5>3. X(Append(q, b)) = h[n][b]
          BY <3>4, <5>1
        <5> QED BY <2>1, <4>2, <4>3, <5>2, <5>3
      <4>4. CASE b \notin DOMAIN h[n]
        <5>1. Y(Append(q, b)) = NoCell
          BY <2>1, <3>3, <4>2, <4>4 DEF Below
        <5> QED BY <2>1, <5>1
      <4> QED BY <4>3, <4>4
    <3> QED BY <3>5, <3>6
  <2> QED BY <2>3, <2>4, <2>5
<1> HIDE DEF S
<1>7. p \in S
  BY <1>5, <1>6, PathInduction
<1> QED BY <1>7 DEF S, r

\* Settling changes nothing that an owner sees.
LEMMA SettledValues ==
    ASSUME NEW h, HeapOK(h), Bounded(h), NEW g, Settled(h, g)
    PROVE  /\ \A o : <<Roots, o>> \in Slots(g) <=> <<Roots, o>> \in Slots(h)
           /\ \A o : <<Roots, o>> \in Slots(h) => \A q \in Seq(Byte) : Sees(g, o, q) = Sees(h, o, q)
           /\ Bounded(g)
<1>1. ASSUME NEW o
      PROVE  <<Roots, o>> \in Slots(g) <=> <<Roots, o>> \in Slots(h)
  <2> DEFINE s == <<Roots, o>>
  <2>1. s[1] = Roots
    OBVIOUS
  <2> HIDE DEF s
  <2>2. s \in Slots(h) => s \in Slots(g)
    <3> SUFFICES ASSUME s \in Slots(h) PROVE s \in Slots(g)
      OBVIOUS
    <3>1. Live(h, s) /\ Moved(h, s) = s
      BY <2>1, SettledSlots
    <3> QED BY <3>1, SettledSlots
  <2>3. ASSUME s \in Slots(g)
        PROVE  s \in Slots(h)
    <3>1. PICK t : Live(h, t) /\ s = Moved(h, t)
      BY <2>3, SettledSlots
    <3>2. t \in Slots(h) /\ t = <<t[1], t[2]>> /\ t[1] \in DOMAIN h
      BY <3>1, SlotsDef DEF Live
    <3>3. s = <<NewName(h, t[1]), t[2]>>
      BY <3>1 DEF Moved
    <3>4. NewName(h, t[1]) = Roots
      BY <2>1, <3>3
    <3>5. t[1] = Roots
      BY <3>2, <3>4, NewNameFacts DEF Nodes
    <3>6. s = t
      BY <3>2, <3>3, <3>4, <3>5
    <3> QED BY <3>2, <3>6
  <2> QED BY <2>2, <2>3 DEF s
<1>2. ASSUME NEW o, <<Roots, o>> \in Slots(h), NEW q \in Seq(Byte)
      PROVE  Sees(g, o, q) = Sees(h, o, q)
  <2> DEFINE x == CellBelow(h, At(h, <<Roots, o>>), q)
             y == CellBelow(g, At(g, <<Roots, o>>), q)
  <2>1. x \in CellType(h)
    <3>1. x = NoCell \/ \E t \in Slots(h) : x = At(h, t)
      BY <1>2, CellBelowSlot
    <3>2. NoCell \in CellType(h)
      BY DEF NoCell, CellType
    <3> HIDE DEF x
    <3> QED BY <3>1, <3>2, HeapFacts
  <2>2. y = Renamed(h, x) => y.val = x.val
    BY <2>1, RenamedFacts
  <2>3. Sees(h, o, q) = x.val /\ Sees(g, o, q) = y.val
    BY DEF Sees, Value
  <2>4. CASE q \in TriePath
    <3>1. y = Renamed(h, x)
      BY <1>2, <2>4, SettledLookup
    <3> QED BY <2>2, <2>3, <3>1
  <2>5. CASE q \notin TriePath
    <3>1. x.val = NoVal
      BY <1>2, <2>3, <2>5 DEF Bounded
    <3>2. y = NoCell \/ y = Renamed(h, x)
      BY <1>2, SettledBelow
    <3> HIDE DEF x, y
    <3> QED BY <2>2, <2>3, <3>1, <3>2 DEF NoCell
  <2> QED BY <2>4, <2>5
<1>3. Bounded(g)
  BY <1>1, <1>2 DEF Bounded
<1> QED BY <1>1, <1>2, <1>3

-------------------------------------------------------------------------------
(* What the owners' cells lead to.                                         *)

\* Nothing is below an empty cell.
LEMMA NoCellBelow ==
    ASSUME NEW h, HeapOK(h), NEW r \in Seq(Byte)
    PROVE  CellBelow(h, NoCell, r) = NoCell
<1> DEFINE S == {q \in Seq(Byte) : CellBelow(h, NoCell, q) = NoCell}
<1>1. <<>> \in S
  BY CellBelowEmpty
<1>2. ASSUME NEW q \in Seq(Byte), q \in S, NEW b \in Byte
      PROVE  Append(q, b) \in S
  <2>1. CellBelow(h, NoCell, Append(q, b)) = Below(h, CellBelow(h, NoCell, q), b)
        /\ Append(q, b) \in Seq(Byte)
    BY CellBelowAppend
  <2>2. Below(h, NoCell, b) = NoCell
    BY BelowSlot
  <2>3. CellBelow(h, NoCell, q) = NoCell
    BY <1>2
  <2> QED BY <2>1, <2>2, <2>3
<1> HIDE DEF S
<1>3. r \in S
  BY <1>1, <1>2, PathInduction
<1> QED BY <1>3 DEF S

\* A slot that nothing leads to, such as an owner's cell, is put in, written or taken out.
LEMMA RootApart ==
    ASSUME NEW h, HeapOK(h), NEW g, HeapOK(g), NEW s, s[1] = Roots,
           Slots(g) \ {s} = Slots(h) \ {s}, \A t \in Slots(h) : t # s => At(g, t) = At(h, t),
           NEW t \in Slots(h), t # s, NEW r \in Seq(Byte)
    PROVE  /\ CellBelow(g, At(g, t), r) = CellBelow(h, At(h, t), r)
           /\ CellBelow(h, At(h, t), r) = NoCell
              \/ \E u \in Slots(h) : u # s /\ CellBelow(h, At(h, t), r) = At(h, u)
<1> DEFINE U == Slots(h) \ {s}
<1>1. ASSUME NEW u \in U
      PROVE  u \in Slots(h) /\ u \in Slots(g) /\ At(g, u) = At(h, u)
  OBVIOUS
<1>2. ASSUME NEW u \in U, NEW b \in Byte
      PROVE  /\ <<NodeIn(h, u), b>> \in Slots(h) => <<NodeIn(h, u), b>> \in U
             /\ <<NodeIn(h, u), b>> \in Slots(g) => <<NodeIn(h, u), b>> \in U
  <2> DEFINE v == <<NodeIn(h, u), b>>
  <2>1. v[1] = NodeIn(h, u) /\ NodeIn(h, u) # Roots
    BY <1>1, HeapFacts
  <2> HIDE DEF v
  <2>2. v # s
    BY <2>1
  <2> QED BY <2>2 DEF v
<1>3. t \in U
  OBVIOUS
<1>4. \A u \in U : u \in Slots(h) /\ u # s
  OBVIOUS
<1> HIDE DEF U
<1>5. /\ CellBelow(g, At(g, t), r) = CellBelow(h, At(h, t), r)
      /\ CellBelow(h, At(h, t), r) = NoCell \/ \E u \in U : CellBelow(h, At(h, t), r) = At(h, u)
  BY <1>1, <1>2, <1>3, LookupAgrees
<1> QED BY <1>4, <1>5

\* An owner other than the head is given a cell, which leads to where another leads.
LEMMA RootWrite ==
    ASSUME NEW h, HeapOK(h), NEW o \in Owner, o # "map", NEW d \in CellType(h),
           d.rec = NoNode \/ \E t \in Slots(h) : t # <<Roots, o>> /\ d.rec = NodeIn(h, t),
           NEW g, g = WithCell(h, <<Roots, o>>, d)
    PROVE  /\ HeapOK(g)
           /\ \A e : <<Roots, e>> \in Slots(g) <=> <<Roots, e>> \in Slots(h) \/ e = o
           /\ \A e : e # o /\ <<Roots, e>> \in Slots(h)
                 => \A q \in Seq(Byte) : Sees(g, e, q) = Sees(h, e, q)
           /\ \A q \in Seq(Byte) : Sees(g, o, q) = Value(h, d, q)
<1> DEFINE s == <<Roots, o>>
<1>1. s[1] = Roots /\ Named(h, s)
  BY HeapFacts DEF Named
<1>2. \A e : <<Roots, e>> = s <=> e = o
  OBVIOUS
<1> HIDE DEF s
<1>3. /\ HeapOK(g) /\ Slots(g) = Slots(h) \cup {s} /\ At(g, s) = d
      /\ \A t \in Slots(h) : t # s => At(g, t) = At(h, t)
  BY <1>1, WithCellFacts DEF s
<1>4. Slots(g) \ {s} = Slots(h) \ {s}
  BY <1>3
<1>5. ASSUME NEW t \in Slots(h), t # s, NEW r \in Seq(Byte)
      PROVE  CellBelow(g, At(g, t), r) = CellBelow(h, At(h, t), r)
  BY <1>1, <1>3, <1>4, <1>5, RootApart
<1>6. ASSUME NEW e, e # o, <<Roots, e>> \in Slots(h), NEW q \in Seq(Byte)
      PROVE  Sees(g, e, q) = Sees(h, e, q)
  <2> DEFINE t == <<Roots, e>>
  <2>1. t \in Slots(h) /\ t # s
    BY <1>2, <1>6
  <2> HIDE DEF t
  <2>2. CellBelow(g, At(g, t), q) = CellBelow(h, At(h, t), q)
    BY <1>5, <2>1
  <2> QED BY <2>2 DEF Sees, Value, t
<1>7. ASSUME NEW q \in Seq(Byte)
      PROVE  CellBelow(g, d, q) = CellBelow(h, d, q)
  <2>1. CASE q = <<>>
    BY <2>1, CellBelowEmpty
  <2>2. CASE q # <<>> /\ d.rec = NoNode
    <3>1. d.rec = NoCell.rec
      BY <2>2 DEF NoCell
    <3>2. CellBelow(g, d, q) = CellBelow(g, NoCell, q) /\ CellBelow(h, d, q) = CellBelow(h, NoCell, q)
      BY <2>2, <3>1, CellBelowNode
    <3> QED BY <1>3, <3>2, NoCellBelow
  <2>3. CASE q # <<>> /\ d.rec # NoNode
    <3>1. PICK t \in Slots(h) : t # s /\ d.rec = NodeIn(h, t)
      BY <2>3 DEF s
    <3>2. At(g, t) = At(h, t) /\ At(h, t).rec = d.rec
      BY <1>3, <3>1 DEF NodeIn
    <3> DEFINE x == At(h, t)
    <3>3. CellBelow(g, x, q) = CellBelow(h, x, q)
      BY <1>5, <3>1, <3>2
    <3>4. x.rec = d.rec
      BY <3>2
    <3> HIDE DEF x
    <3>5. CellBelow(g, d, q) = CellBelow(g, x, q) /\ CellBelow(h, d, q) = CellBelow(h, x, q)
      BY <2>3, <3>4, CellBelowNode
    <3> QED BY <3>3, <3>5
  <2> QED BY <2>1, <2>2, <2>3
<1>8. ASSUME NEW q \in Seq(Byte)
      PROVE  Sees(g, o, q) = Value(h, d, q)
  BY <1>3, <1>7 DEF Sees, Value, s
<1> QED BY <1>2, <1>3, <1>6, <1>8

\* The cell of such an owner is taken out.
LEMMA RootCut ==
    ASSUME NEW h, HeapOK(h), NEW o, <<Roots, o>> \in Slots(h), o # "map",
           NEW g, g = WithoutCell(h, <<Roots, o>>)
    PROVE  /\ HeapOK(g)
           /\ \A e : <<Roots, e>> \in Slots(g) <=> <<Roots, e>> \in Slots(h) /\ e # o
           /\ \A e : e # o /\ <<Roots, e>> \in Slots(h)
                 => \A q \in Seq(Byte) : Sees(g, e, q) = Sees(h, e, q)
<1> DEFINE s == <<Roots, o>>
<1>1. s[1] = Roots /\ s \in Slots(h) /\ s # HeadSlot
  BY DEF HeadSlot
<1>2. \A e : <<Roots, e>> = s <=> e = o
  OBVIOUS
<1> HIDE DEF s
<1>3. /\ HeapOK(g) /\ Slots(g) = Slots(h) \ {s}
      /\ \A t \in Slots(g) : At(g, t) = At(h, t)
  BY <1>1, WithoutCellFacts DEF s
<1>4. Slots(g) \ {s} = Slots(h) \ {s} /\ \A t \in Slots(h) : t # s => At(g, t) = At(h, t)
  BY <1>3
<1>6. ASSUME NEW e, e # o, <<Roots, e>> \in Slots(h), NEW q \in Seq(Byte)
      PROVE  Sees(g, e, q) = Sees(h, e, q)
  <2> DEFINE t == <<Roots, e>>
  <2>1. t \in Slots(h) /\ t # s
    BY <1>2, <1>6
  <2> HIDE DEF t
  <2>2. CellBelow(g, At(g, t), q) = CellBelow(h, At(h, t), q)
    BY <1>1, <1>3, <1>4, <2>1, RootApart
  <2> QED BY <2>2 DEF Sees, Value, t
<1> QED BY <1>2, <1>3, <1>6

\* The cell at the end of a chain, with what is below it, is taken out.
LEMMA CutLookup ==
    ASSUME NEW h, HeapOK(h), NEW a \in Seq(Byte), a # <<>>, NEW c, Chain(h, a, c),
           NEW g, g = WithoutCell(h, Stop(c, Len(a)))
    PROVE  /\ HeapOK(g)
           /\ \A o : <<Roots, o>> \in Slots(g) <=> <<Roots, o>> \in Slots(h)
           /\ \A o : o # "map" /\ <<Roots, o>> \in Slots(h)
                 => \A q \in Seq(Byte) : Sees(g, o, q) = Sees(h, o, q)
           /\ \A r \in Seq(Byte) : Sees(g, "map", a \o r) = NoVal
           /\ \A p \in Seq(Byte) : ~Begins(a, p) => Sees(g, "map", p) = Sees(h, "map", p)
<1> DEFINE s == Stop(c, Len(a))
           k == WithCell(h, s, NoCell)
<1>1. Len(a) \in 0..Len(a) /\ Len(a) # 0
  OBVIOUS
<1>2. s \in Slots(h) /\ s[1] # Roots
  BY <1>1, ChainFacts
<1>3. NoCell \in CellType(h) /\ NoCell.rec = NoNode /\ NoCell.val = NoVal
  BY DEF NoCell, CellType
<1>4. \A m \in 0..(Len(a) - 1) : NoCell.rec # NodeIn(h, Stop(c, m))
  BY <1>3 DEF Chain
<1>5. k = WithCell(h, Stop(c, Len(a)), NoCell)
  OBVIOUS
<1> HIDE DEF k
<1>6. /\ HeapOK(k) /\ Slots(k) = Slots(h)
      /\ \A t \in Slots(h) : OffChain(c, Len(a), t) => \A r \in Seq(Byte) :
            Value(k, At(k, t), r) = Value(h, At(h, t), r)
      /\ \A r \in Seq(Byte) : CellBelow(k, At(k, HeadSlot), a \o r) = CellBelow(h, NoCell, r)
      /\ \A p \in Seq(Byte) : ~Begins(a, p) => Sees(k, "map", p) = Sees(h, "map", p)
  BY <1>3, <1>4, <1>5, WriteLookup
<1>7. s # HeadSlot
  BY <1>2, HeapFacts
<1>8. g = WithoutCell(h, s)
  OBVIOUS
<1> HIDE DEF s
<1>9. /\ HeapOK(g) /\ Slots(g) = Slots(h) \ {s}
      /\ \A t \in Slots(g) : At(g, t) = At(h, t)
  BY <1>2, <1>7, <1>8, WithoutCellFacts
<1>10. Named(h, s) /\ At(k, s) = NoCell /\ \A t \in Slots(h) : t # s => At(k, t) = At(h, t)
  <2>1. Named(h, s)
    BY <1>2, HeapFacts
  <2> QED BY <1>3, <2>1, WithCellFacts DEF k
<1>11. ASSUME NEW t \in Slots(g), NEW r \in Seq(Byte)
       PROVE  CellBelow(k, At(k, t), r) = CellBelow(g, At(g, t), r)
  <2>1. s \notin Slots(g) /\ Slots(k) = Slots(g) \cup {s}
    BY <1>2, <1>6, <1>9
  <2>2. \A u \in Slots(g) : At(k, u) = At(g, u)
    BY <1>9, <1>10
  <2> QED BY <1>6, <1>9, <1>10, <2>1, <2>2, BlankSlot
<1>12. \A o : <<Roots, o>> \in Slots(g) <=> <<Roots, o>> \in Slots(h)
  BY <1>2, <1>9
<1>13. ASSUME NEW o, <<Roots, o>> \in Slots(h), NEW q \in Seq(Byte)
       PROVE  Sees(g, o, q) = Sees(k, o, q)
  BY <1>11, <1>12, <1>13 DEF Sees, Value
<1>14. ASSUME NEW o, o # "map", <<Roots, o>> \in Slots(h), NEW q \in Seq(Byte)
       PROVE  Sees(g, o, q) = Sees(h, o, q)
  <2> DEFINE t == <<Roots, o>>
  <2>1. OffChain(c, Len(a), t)
    BY <1>14, RootOff
  <2>2. Value(k, At(k, t), q) = Value(h, At(h, t), q)
    BY <1>6, <1>14, <2>1
  <2> QED BY <1>13, <1>14, <2>2 DEF Sees
<1>15. <<Roots, "map">> \in Slots(h)
  BY HeapFacts DEF HeadSlot
<1>16. ASSUME NEW r \in Seq(Byte)
       PROVE  Sees(g, "map", a \o r) = NoVal
  <2>1. a \o r \in Seq(Byte)
    BY ConcatFacts
  <2>2. Sees(g, "map", a \o r) = Sees(k, "map", a \o r)
    BY <1>13, <1>15, <2>1
  <2>3. CellBelow(k, At(k, HeadSlot), a \o r) = NoCell
    BY <1>6, NoCellBelow
  <2> QED BY <1>3, <2>2, <2>3 DEF Sees, Value, HeadSlot
<1>17. ASSUME NEW p \in Seq(Byte), ~Begins(a, p)
       PROVE  Sees(g, "map", p) = Sees(h, "map", p)
  BY <1>6, <1>13, <1>15, <1>17
<1> QED BY <1>9, <1>12, <1>14, <1>16, <1>17

===============================================================================
