---------------------------- MODULE PathTrieProofs ----------------------------
(***************************************************************************)
(* Facts about prefixes and about the trie operations of PathTrie that the *)
(* proofs about the zipper registry and the zipper heads rest on.          *)
(***************************************************************************)
EXTENDS PathTrie, FiniteSetTheorems, WellFoundedInduction, TLAPS

\* A prefix agrees with the sequence on every index it has.
LEMMA PrefixPointwise ==
    ASSUME NEW s \in Seq(Nat), NEW t \in Seq(Nat)
    PROVE  IsPrefix(s, t) <=> /\ Len(s) <= Len(t)
                              /\ \A k \in 1..Len(s) : s[k] = t[k]
<1>1. ASSUME IsPrefix(s, t)
      PROVE  Len(s) <= Len(t) /\ \A k \in 1..Len(s) : s[k] = t[k]
  <2>1. Len(s) <= Len(t) /\ SubSeq(s, 1, Len(s)) = SubSeq(t, 1, Len(s))
    BY <1>1 DEF IsPrefix
  <2>2. \A k \in 1..Len(s) : SubSeq(s, 1, Len(s))[k] = s[k]
    OBVIOUS
  <2>3. \A k \in 1..Len(s) : SubSeq(t, 1, Len(s))[k] = t[k]
    BY <2>1
  <2> QED BY <2>1, <2>2, <2>3
<1>2. ASSUME Len(s) <= Len(t), \A k \in 1..Len(s) : s[k] = t[k]
      PROVE  IsPrefix(s, t)
  <2>1. SubSeq(s, 1, Len(s)) = SubSeq(t, 1, Len(s))
    BY <1>2
  <2> QED BY <1>2, <2>1 DEF IsPrefix
<1> QED BY <1>1, <1>2

\* The prefixes of a sequence, as a set and as a relation.
LEMMA PrefixesMember ==
    ASSUME NEW s \in Seq(Nat), NEW t \in Seq(Nat)
    PROVE  s \in Prefixes(t) <=> IsPrefix(s, t)
<1>1. ASSUME s \in Prefixes(t)
      PROVE  IsPrefix(s, t)
  <2>1. PICK l \in 0..Len(t) : s = SubSeq(t, 1, l)
    BY <1>1 DEF Prefixes
  <2>2. Len(s) = l
    BY <2>1
  <2>3. \A k \in 1..l : s[k] = t[k]
    BY <2>1
  <2>4. Len(s) <= Len(t) /\ \A k \in 1..Len(s) : s[k] = t[k]
    BY <2>2, <2>3
  <2> QED BY <2>4, PrefixPointwise
<1>2. ASSUME IsPrefix(s, t)
      PROVE  s \in Prefixes(t)
  <2>1. Len(s) <= Len(t) /\ \A k \in 1..Len(s) : s[k] = t[k]
    BY <1>2, PrefixPointwise
  <2>2. s = SubSeq(t, 1, Len(s))
    BY <2>1
  <2>3. Len(s) \in 0..Len(t)
    BY <2>1
  <2> QED BY <2>2, <2>3 DEF Prefixes
<1> QED BY <1>1, <1>2

\* IsPrefix is a partial order, and the prefixes of a sequence are a chain.
LEMMA PrefixOrder ==
    ASSUME NEW p \in Seq(Nat), NEW q \in Seq(Nat), NEW r \in Seq(Nat)
    PROVE  /\ IsPrefix(p, p)
           /\ IsPrefix(<<>>, p)
           /\ IsPrefix(p, q) /\ IsPrefix(q, r) => IsPrefix(p, r)
           /\ IsPrefix(p, q) /\ IsPrefix(q, p) => p = q
           /\ IsPrefix(p, r) /\ IsPrefix(q, r) => Comparable(p, q)
<1>1. IsPrefix(p, p) /\ IsPrefix(<<>>, p)
  <2>1. IsPrefix(p, p)
    BY PrefixPointwise
  <2>2. <<>> \in Seq(Nat) /\ Len(<<>>) = 0
    OBVIOUS
  <2>3. Len(<<>>) <= Len(p) /\ \A k \in 1..Len(<<>>) : <<>>[k] = p[k]
    BY <2>2
  <2>4. IsPrefix(<<>>, p)
    BY <2>2, <2>3, PrefixPointwise
  <2> QED BY <2>1, <2>4
<1>2. IsPrefix(p, q) /\ IsPrefix(q, r) => IsPrefix(p, r)
  BY PrefixPointwise
<1>3. ASSUME IsPrefix(p, q), IsPrefix(q, p)
      PROVE  p = q
  <2>1. Len(p) = Len(q) /\ \A k \in 1..Len(p) : p[k] = q[k]
    BY <1>3, PrefixPointwise
  <2> QED BY <2>1
<1>4. ASSUME IsPrefix(p, r), IsPrefix(q, r)
      PROVE  Comparable(p, q)
  <2>1. \A k \in 1..Len(p) : p[k] = r[k]
    BY <1>4, PrefixPointwise
  <2>2. \A k \in 1..Len(q) : q[k] = r[k]
    BY <1>4, PrefixPointwise
  <2>3. CASE Len(p) <= Len(q)
    <3>1. \A k \in 1..Len(p) : p[k] = q[k]
      BY <2>1, <2>2, <2>3
    <3> QED BY <2>3, <3>1, PrefixPointwise DEF Comparable
  <2>4. CASE Len(q) <= Len(p)
    <3>1. \A k \in 1..Len(q) : q[k] = p[k]
      BY <2>1, <2>2, <2>4
    <3> QED BY <2>4, <3>1, PrefixPointwise DEF Comparable
  <2> QED BY <2>3, <2>4
<1> QED BY <1>1, <1>2, <1>3, <1>4

\* Clients' paths are sequences, and the prefixes of a path are paths.
LEMMA PathFacts ==
    /\ \A p \in Path : p \in Seq(Nat)
    /\ <<>> \in Path
    /\ \A p \in Path : <<>> \in Prefixes(p)
    /\ \A p \in Path : \A q \in Prefixes(p) : q \in Path
    /\ \A p, q \in Path : q \in Prefixes(p) <=> IsPrefix(q, p)
<1>1. \A p \in Path : p \in Seq(Nat)
  BY PathAssumption
<1>2. \A p, q \in Path : q \in Prefixes(p) <=> IsPrefix(q, p)
  BY <1>1, PrefixesMember
<1>3. \A p \in Path : <<>> \in Prefixes(p)
  BY <1>1, <1>2, PathAssumption, PrefixOrder
<1> QED BY <1>1, <1>2, <1>3, PathAssumption

\* A path is needed exactly by the values at and below it.
LEMMA ClosureMember ==
    ASSUME NEW V \in SUBSET Path
    PROVE  /\ Closure(V) \subseteq Path
           /\ V \subseteq Closure(V)
           /\ <<>> \in Closure(V)
           /\ \A p \in Path : p \in Closure(V) <=> p = <<>> \/ \E v \in V : IsPrefix(p, v)
<1>1. Closure(V) \subseteq Path
  BY PathFacts DEF Closure
<1>2. \A p \in Path : p \in Closure(V) <=> p = <<>> \/ \E v \in V : IsPrefix(p, v)
  BY PathFacts DEF Closure
<1>3. V \subseteq Closure(V)
  BY <1>2, PathFacts, PrefixOrder
<1> QED BY <1>1, <1>2, <1>3 DEF Closure

\* A well-formed trie: its paths and valued paths are clients' paths.
IsTrie(t) == /\ t = [paths |-> t.paths, val |-> t.val]
             /\ t.paths \subseteq Path
             /\ DOMAIN t.val \subseteq Path
             /\ t.val = [p \in DOMAIN t.val |-> t.val[p]]

\* Membership in TrieOf, taken apart.
LEMMA TrieOfFacts ==
    ASSUME NEW t, NEW T
    PROVE  t \in TrieOf(T) <=> IsTrie(t) /\ \A p \in DOMAIN t.val : t.val[p] \in T
<1>1. ASSUME t \in TrieOf(T)
      PROVE  IsTrie(t) /\ \A p \in DOMAIN t.val : t.val[p] \in T
  <2>1. PICK S \in SUBSET Path : t.val \in [S -> T]
    BY <1>1 DEF TrieOf
  <2>2. t = [paths |-> t.paths, val |-> t.val] /\ t.paths \subseteq Path
    BY <1>1 DEF TrieOf
  <2> QED BY <2>1, <2>2 DEF IsTrie
<1>2. ASSUME IsTrie(t), \A p \in DOMAIN t.val : t.val[p] \in T
      PROVE  t \in TrieOf(T)
  <2>1. t.val \in [DOMAIN t.val -> T] /\ DOMAIN t.val \in SUBSET Path
    BY <1>2 DEF IsTrie
  <2>2. t.val \in UNION {[S -> T] : S \in SUBSET Path}
    BY <2>1
  <2> QED BY <1>2, <2>2 DEF IsTrie, TrieOf
<1> QED BY <1>1, <1>2

\* The trie of a fresh zipper head.
LEMMA EmptyTrieFacts ==
    /\ IsTrie(EmptyTrie)
    /\ Pruned(EmptyTrie)
    /\ DOMAIN EmptyTrie.val = {}
<1>1. DOMAIN EmptyTrie.val = {}
  BY DEF EmptyTrie
<1>2. EmptyTrie.paths = {<<>>}
  BY DEF EmptyTrie
<1>3. Closure({}) = {<<>>}
  BY DEF Closure
<1>4. EmptyTrie.val = [p \in DOMAIN EmptyTrie.val |-> EmptyTrie.val[p]]
  BY DEF EmptyTrie
<1> QED BY <1>1, <1>2, <1>3, <1>4, PathFacts DEF IsTrie, Pruned, EmptyTrie

\* set_val changes one value and leaves no path without a purpose.
LEMMA SetValFacts ==
    ASSUME NEW t, IsTrie(t), NEW p \in Path, NEW v
    PROVE  LET u == SetVal(t, p, v)
           IN /\ IsTrie(u)
              /\ DOMAIN u.val = DOMAIN t.val \cup {p}
              /\ u.val[p] = v
              /\ \A q \in DOMAIN t.val : q # p => u.val[q] = t.val[q]
              /\ Pruned(t) => Pruned(u)
<1> DEFINE u == SetVal(t, p, v)
<1>1. u.paths = t.paths \cup Prefixes(p)
  BY DEF SetVal
<1>2. /\ DOMAIN u.val = DOMAIN t.val \cup {p}
      /\ u.val[p] = v
      /\ \A q \in DOMAIN t.val : q # p => u.val[q] = t.val[q]
      /\ u.val = [q \in DOMAIN u.val |-> u.val[q]]
  BY DEF SetVal
<1>3. IsTrie(u)
  BY <1>1, <1>2, PathFacts DEF IsTrie, SetVal
<1>4. ASSUME Pruned(t)
      PROVE  Pruned(u)
  <2>1. Closure(DOMAIN t.val \cup {p}) = Closure(DOMAIN t.val) \cup Prefixes(p)
    BY DEF Closure
  <2> QED BY <1>1, <1>2, <1>4, <2>1 DEF Pruned
<1> QED BY <1>2, <1>3, <1>4

\* remove_val(true) from the trie's root takes one value and exactly the paths
\* that only this value needed.
LEMMA RemoveValFacts ==
    ASSUME NEW t, IsTrie(t), NEW p \in Path
    PROVE  LET u == RemoveVal(t, p, TRUE, 0)
           IN /\ IsTrie(u)
              /\ DOMAIN u.val = DOMAIN t.val \ {p}
              /\ \A q \in DOMAIN u.val : u.val[q] = t.val[q]
              /\ Pruned(t) => Pruned(u)
<1> DEFINE w == [t EXCEPT !.val = Restrict(@, DOMAIN @ \ {p})]
           onlyP(q) == \A r \in w.paths : IsPrefix(q, r) => IsPrefix(r, p) /\ ~IsVal(w, r)
           u == RemoveVal(t, p, TRUE, 0)
<1>1. /\ w.paths = t.paths
      /\ w.val = [q \in DOMAIN t.val \ {p} |-> t.val[q]]
      /\ w = [paths |-> w.paths, val |-> w.val]
  BY DEF IsTrie, Restrict
<1>2. u = [w EXCEPT !.paths = {q \in @ : ~(Len(q) > 0 /\ IsPrefix(q, p) /\ onlyP(q))}]
  BY DEF RemoveVal, PrunePath
<1>3. /\ u.paths = {q \in t.paths : ~(Len(q) > 0 /\ IsPrefix(q, p) /\ onlyP(q))}
      /\ u.val = w.val
      /\ u = [paths |-> u.paths, val |-> u.val]
  BY <1>1, <1>2
<1>4. /\ DOMAIN u.val = DOMAIN t.val \ {p}
      /\ \A q \in DOMAIN u.val : u.val[q] = t.val[q]
      /\ u.val = [q \in DOMAIN u.val |-> u.val[q]]
  BY <1>1, <1>3
<1>5. IsTrie(u)
  BY <1>3, <1>4 DEF IsTrie
<1> HIDE DEF u, w
<1>6. ASSUME Pruned(t)
      PROVE  Pruned(u)
  <2>1. t.paths = Closure(DOMAIN t.val) /\ DOMAIN t.val \subseteq Path
    BY <1>6 DEF Pruned, IsTrie
  <2>2. ASSUME NEW q \in u.paths
        PROVE  q \in Closure(DOMAIN u.val)
    <3>1. q \in t.paths /\ q \in Path /\ q \in Seq(Nat)
      BY <1>3, <2>2, PathFacts DEF IsTrie
    <3>2. CASE q = <<>>
      BY <3>2 DEF Closure
    <3>3. CASE q # <<>>
      <4>1. PICK v \in DOMAIN t.val : IsPrefix(q, v)
        BY <2>1, <3>1, <3>3, ClosureMember
      <4>2. CASE v # p
        BY <1>4, <1>5, <3>1, <4>1, <4>2, ClosureMember DEF IsTrie
      <4>3. CASE v = p
        <5>1. Len(q) > 0
          BY <3>1, <3>3
        <5>2. PICK r \in t.paths : IsPrefix(q, r) /\ (~IsPrefix(r, p) \/ IsVal(w, r))
          BY <1>1, <1>3, <2>2, <4>1, <4>3, <5>1
        <5>3. r \in Path /\ r \in Seq(Nat)
          BY <5>2, PathFacts DEF IsTrie
        <5>4. CASE IsVal(w, r)
          BY <1>3, <1>5, <3>1, <5>2, <5>4, ClosureMember DEF IsVal, IsTrie
        <5>5. CASE ~IsPrefix(r, p)
          <6>1. r # <<>>
            BY <5>5, PathFacts, PrefixOrder
          <6>2. PICK x \in DOMAIN t.val : IsPrefix(r, x)
            BY <2>1, <5>3, <6>1, ClosureMember
          <6>3. x # p /\ x \in Path /\ x \in Seq(Nat)
            BY <2>1, <5>5, <6>2, PathFacts
          <6>4. IsPrefix(q, x)
            BY <3>1, <5>2, <5>3, <6>2, <6>3, PrefixOrder
          <6> QED BY <1>4, <1>5, <3>1, <6>2, <6>3, <6>4, ClosureMember DEF IsTrie
        <5> QED BY <5>2, <5>4, <5>5
      <4> QED BY <4>2, <4>3
    <3> QED BY <3>2, <3>3
  <2>3. ASSUME NEW q \in Closure(DOMAIN u.val)
        PROVE  q \in u.paths
    <3>1. q \in Path /\ (q = <<>> \/ \E v \in DOMAIN u.val : IsPrefix(q, v))
      BY <1>5, <2>3, ClosureMember DEF IsTrie
    <3>2. q \in t.paths
      <4>1. \A v \in DOMAIN u.val : v \in DOMAIN t.val
        BY <1>4
      <4>2. q = <<>> \/ \E v \in DOMAIN t.val : IsPrefix(q, v)
        BY <3>1, <4>1
      <4>3. q \in Closure(DOMAIN t.val)
        BY <2>1, <3>1, <4>2, ClosureMember
      <4> QED BY <2>1, <4>3
    <3>3. CASE q = <<>>
      <4>1. ~(Len(q) > 0)
        BY <3>3
      <4> QED BY <1>3, <3>2, <4>1
    <3>4. CASE q # <<>>
      <4>1. PICK v \in DOMAIN u.val : IsPrefix(q, v)
        BY <3>1, <3>4
      <4>2. v \in w.paths /\ IsVal(w, v)
        <5>1. v \in DOMAIN t.val /\ v \in DOMAIN w.val
          BY <1>3, <1>4, <4>1
        <5>2. v \in t.paths
          BY <2>1, <5>1, ClosureMember
        <5> QED BY <1>1, <5>1, <5>2 DEF IsVal
      <4>3. ~onlyP(q)
        BY <4>1, <4>2
      <4> QED BY <1>3, <3>2, <4>3
    <3> QED BY <3>3, <3>4
  <2> QED BY <2>2, <2>3 DEF Pruned
<1> QED BY <1>4, <1>5, <1>6 DEF u

\* A set of numbers has a least member.
LEMMA LeastNumber ==
    ASSUME NEW D \in SUBSET Nat, D # {}
    PROVE  \E m \in D : \A k \in D : m <= k
<1> DEFINE R == StrictSubsetOrdering(Nat)
           S == FiniteSubsetsOf(Nat)
           T == {0..k : k \in D}
<1>1. T \subseteq S /\ T # {}
  <2>1. \A k \in D : IsFiniteSet(0..k)
    BY FS_Interval
  <2>2. \A k \in D : 0..k \in S
    BY <2>1 DEF FiniteSubsetsOf
  <2> QED BY <2>2
<1>2. IsWellFoundedOn(R, S)
  BY FS_StrictSubsetOrderingWellFounded
<1> HIDE DEF R, S, T
<1>3. PICK x \in T : \A y \in T : ~(<<y, x>> \in R)
  BY <1>1, <1>2, WFMin
<1>4. PICK m \in D : x = 0..m
  BY <1>3 DEF T
<1>5. ASSUME NEW k \in D, ~(m <= k)
      PROVE  FALSE
  <2>1. 0..k \in T
    BY DEF T
  <2>2. 0..k \subseteq 0..m /\ 0..k # 0..m
    <3>1. m \in 0..m /\ m \notin 0..k
      BY <1>5
    <3> QED BY <1>5, <3>1
  <2>3. <<0..k, 0..m>> \in R
    BY <2>2 DEF R, StrictSubsetOrdering
  <2> QED BY <1>3, <1>4, <2>1, <2>3
<1> QED BY <1>5

\* The order of a depth-first traversal is a strict total order.
LEMMA DfsOrder ==
    ASSUME NEW p \in Seq(Nat), NEW q \in Seq(Nat), NEW r \in Seq(Nat)
    PROVE  /\ ~DfsBefore(p, p)
           /\ DfsBefore(p, q) /\ DfsBefore(q, r) => DfsBefore(p, r)
           /\ p # q => DfsBefore(p, q) \/ DfsBefore(q, p)
<1>1. ~DfsBefore(p, p)
  BY DEF DfsBefore
<1>2. ASSUME DfsBefore(p, q), DfsBefore(q, r)
      PROVE  DfsBefore(p, r)
  <2>1. PICK i \in 1..Len(q) : /\ \A k \in 1..(i - 1) : k <= Len(p) /\ p[k] = q[k]
                               /\ i <= Len(p) => p[i] < q[i]
    BY <1>2 DEF DfsBefore
  <2>2. PICK j \in 1..Len(r) : /\ \A k \in 1..(j - 1) : k <= Len(q) /\ q[k] = r[k]
                               /\ j <= Len(q) => q[j] < r[j]
    BY <1>2 DEF DfsBefore
  <2>3. CASE i < j
    <3>1. i \in 1..Len(r) /\ q[i] = r[i]
      BY <2>2, <2>3
    <3>2. \A k \in 1..(i - 1) : k <= Len(p) /\ p[k] = r[k]
      BY <2>1, <2>2, <2>3
    <3> QED BY <2>1, <3>1, <3>2 DEF DfsBefore
  <2>4. CASE i >= j
    <3>1. \A k \in 1..(j - 1) : k <= Len(p) /\ p[k] = r[k]
      BY <2>1, <2>2, <2>4
    <3>2. ASSUME j <= Len(p)
          PROVE  p[j] < r[j]
      <4>1. j <= Len(q) /\ q[j] < r[j]
        BY <2>1, <2>2, <2>4
      <4>2. p[j] <= q[j]
        BY <2>1, <2>4, <3>2
      <4>3. p[j] \in Nat /\ q[j] \in Nat /\ r[j] \in Nat
        <5>1. j \in 1..Len(p) /\ j \in 1..Len(q) /\ j \in 1..Len(r)
          BY <2>2, <3>2, <4>1
        <5>2. \A s \in Seq(Nat) : \A k \in 1..Len(s) : s[k] \in Nat
          OBVIOUS
        <5> QED BY <5>1, <5>2
      <4> QED BY <4>1, <4>2, <4>3
    <3> QED BY <2>2, <3>1, <3>2 DEF DfsBefore
  <2> QED BY <2>3, <2>4
<1>3. ASSUME p # q
      PROVE  DfsBefore(p, q) \/ DfsBefore(q, p)
  <2> DEFINE differs(i) == i <= Len(p) /\ i <= Len(q) => p[i] # q[i]
             D == {i \in 1..(Len(p) + Len(q) + 1) : differs(i)}
  <2>1. PICK i \in D : \A k \in D : i <= k
    <3>0. Len(p) \in Nat /\ Len(q) \in Nat
      OBVIOUS
    <3>1. Len(p) + Len(q) + 1 \in D
      BY <3>0
    <3>2. D \in SUBSET Nat /\ D # {}
      <4>1. D \in SUBSET Nat
        BY <3>0
      <4> HIDE DEF D
      <4> QED BY <3>1, <4>1
    <3> HIDE DEF D
    <3> QED BY <3>2, LeastNumber
  <2>2. \A k \in 1..(i - 1) : k <= Len(p) /\ k <= Len(q) /\ p[k] = q[k]
    BY <2>1
  <2>3. CASE i <= Len(p) /\ i <= Len(q)
    <3>1. p[i] \in Nat /\ q[i] \in Nat /\ p[i] # q[i]
      BY <2>1, <2>3
    <3>2. p[i] < q[i] \/ q[i] < p[i]
      BY <3>1
    <3>3. i \in 1..Len(p) /\ i \in 1..Len(q)
      BY <2>1, <2>3
    <3> HIDE DEF D
    <3> QED BY <2>2, <3>2, <3>3 DEF DfsBefore
  <2>4. CASE i > Len(p) /\ i <= Len(q)
    <3>1. i \in 1..Len(q) /\ ~(i <= Len(p))
      BY <2>1, <2>4
    <3> HIDE DEF D
    <3> QED BY <2>2, <3>1 DEF DfsBefore
  <2>5. CASE i <= Len(p) /\ i > Len(q)
    <3>1. i \in 1..Len(p) /\ ~(i <= Len(q))
      BY <2>1, <2>5
    <3> HIDE DEF D
    <3> QED BY <2>2, <3>1 DEF DfsBefore
  <2>6. CASE i > Len(p) /\ i > Len(q)
    <3>1. Len(p) = Len(q)
      BY <2>1, <2>2, <2>6
    <3>2. \A k \in 1..Len(p) : p[k] = q[k]
      BY <2>1, <2>2, <2>6
    <3>3. p = q
      <4>1. IsPrefix(p, q) /\ IsPrefix(q, p)
        BY <3>1, <3>2, PrefixPointwise
      <4> QED BY <4>1, PrefixOrder
    <3> QED BY <1>3, <3>3
  <2>7. i \in Nat /\ Len(p) \in Nat /\ Len(q) \in Nat
    BY <2>1
  <2> QED BY <2>3, <2>4, <2>5, <2>6, <2>7
<1> QED BY <1>1, <1>2, <1>3

\* A finite set of paths has a first one, and FirstOf finds it.
LEMMA FirstOfFacts ==
    ASSUME NEW V \in SUBSET Path, IsFiniteSet(V), V # {}
    PROVE  /\ FirstOf(V) \in V
           /\ \A w \in V : w = FirstOf(V) \/ DfsBefore(FirstOf(V), w)
<1> DEFINE R == StrictSubsetOrdering(Path)
           S == FiniteSubsetsOf(Path)
           earlier(v) == {w \in V : DfsBefore(w, v)}
           T == {earlier(v) : v \in V}
<1>1. T \subseteq S /\ T # {}
  <2>1. \A v \in V : earlier(v) \subseteq V /\ IsFiniteSet(earlier(v))
    BY FS_Subset
  <2>2. \A v \in V : earlier(v) \in S
    BY <2>1 DEF FiniteSubsetsOf
  <2> QED BY <2>2
<1>2. IsWellFoundedOn(R, S)
  BY FS_StrictSubsetOrderingWellFounded
<1> HIDE DEF R, S, T
<1>3. PICK x \in T : \A y \in T : ~(<<y, x>> \in R)
  BY <1>1, <1>2, WFMin
<1>4. PICK v \in V : x = earlier(v)
  BY <1>3 DEF T
<1>5. ASSUME NEW w \in V, w # v
      PROVE  DfsBefore(v, w)
  <2>1. v \in Seq(Nat) /\ w \in Seq(Nat)
    BY PathFacts
  <2>2. SUFFICES ASSUME DfsBefore(w, v) PROVE FALSE
    BY <1>5, <2>1, DfsOrder
  <2>3. earlier(w) \subseteq earlier(v)
    BY <2>1, <2>2, PathFacts, DfsOrder
  <2>4. w \in earlier(v) /\ w \notin earlier(w)
    BY <2>1, <2>2, DfsOrder
  <2>5. <<earlier(w), earlier(v)>> \in R
    BY <2>3, <2>4 DEF R, StrictSubsetOrdering
  <2>6. earlier(w) \in T
    BY DEF T
  <2> QED BY <1>3, <1>4, <2>5, <2>6
<1>6. \E u \in V : \A w \in V : w = u \/ DfsBefore(u, w)
  BY <1>5
<1> QED BY <1>6 DEF FirstOf

\* A traversal visits a path before those below it, and visits everything
\* below it before it goes on.
LEMMA DfsPrefix ==
    ASSUME NEW p \in Seq(Nat), NEW q \in Seq(Nat), NEW r \in Seq(Nat), IsPrefix(p, r)
    PROVE  /\ p # r => DfsBefore(p, r)
           /\ DfsBefore(p, q) /\ ~DfsBefore(r, q) => IsPrefix(p, q)
<1>1. Len(p) <= Len(r) /\ \A k \in 1..Len(p) : p[k] = r[k]
  BY PrefixPointwise
<1>2. ASSUME p # r
      PROVE  DfsBefore(p, r)
  <2>1. Len(p) # Len(r)
    BY <1>1, <1>2, PrefixPointwise, PrefixOrder
  <2>2. PICK i \in 1..Len(r) : i = Len(p) + 1
    BY <1>1, <2>1
  <2>3. ~(i <= Len(p)) /\ \A k \in 1..(i - 1) : k <= Len(p) /\ p[k] = r[k]
    BY <1>1, <2>2
  <2> QED BY <2>2, <2>3 DEF DfsBefore
<1>3. ASSUME DfsBefore(p, q), ~DfsBefore(r, q)
      PROVE  IsPrefix(p, q)
  <2>1. PICK i \in 1..Len(q) : /\ \A k \in 1..(i - 1) : k <= Len(p) /\ p[k] = q[k]
                               /\ i <= Len(p) => p[i] < q[i]
    BY <1>3 DEF DfsBefore
  <2>2. CASE i <= Len(p)
    <3>1. \A k \in 1..(i - 1) : k <= Len(r) /\ r[k] = q[k]
      BY <1>1, <2>1, <2>2
    <3>2. r[i] < q[i]
      BY <1>1, <2>1, <2>2
    <3> QED BY <1>3, <2>1, <3>1, <3>2 DEF DfsBefore
  <2>3. CASE i > Len(p)
    <3>1. Len(p) <= Len(q) /\ \A k \in 1..Len(p) : p[k] = q[k]
      BY <2>1, <2>3
    <3> QED BY <3>1, PrefixPointwise
  <2> QED BY <2>1, <2>2, <2>3
<1> QED BY <1>2, <1>3
===============================================================================
