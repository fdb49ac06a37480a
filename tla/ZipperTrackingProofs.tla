------------------------- MODULE ZipperTrackingProofs -------------------------
(***************************************************************************)
(* For any set of paths and any finite set of trackers, the registry keeps *)
(* writers exclusive, its two tries in step with the trackers alive and    *)
(* free of dangling paths, and it implements the lock manager PathLocks.   *)
(***************************************************************************)
EXTENDS ZipperTracking, PathTrieProofs, FiniteSetTheorems

IInv == TypeOK /\ Exclusive /\ RegistryExact /\ NoDangling

\* The walk along the path followed by to_next_val finds a lock exactly when
\* some lock is comparable with the path, provided no path dangles.
LEMMA ConflictFacts ==
    ASSUME NEW t, IsTrie(t), Pruned(t), NEW p \in Path
    PROVE  ConflictAt(p, t) = {} <=> ~ \E v \in DOMAIN t.val : Comparable(p, v)
<1> DEFINE along == {v \in DOMAIN t.val : IsPrefix(v, p)}
           after == ValsAfter(t, p)
<1>0. DOMAIN t.val \in SUBSET Path /\ t.paths = Closure(DOMAIN t.val)
  BY DEF IsTrie, Pruned
<1>1. ConflictAt(p, t) = {} <=> along = {} /\ (p \notin t.paths \/ after = {})
  BY DEF ConflictAt
<1>2. ASSUME NEW v \in DOMAIN t.val, Comparable(p, v), along = {}
      PROVE  p \in t.paths /\ v \in after
  <2>1. v \in Path /\ v \in Seq(Nat) /\ p \in Seq(Nat)
    BY <1>0, PathFacts
  <2>2. IsPrefix(p, v) /\ ~IsPrefix(v, p)
    BY <1>2 DEF Comparable
  <2>3. p # v
    BY <2>1, <2>2, PrefixOrder
  <2>4. v \in after
    BY <2>1, <2>2, <2>3, DfsPrefix DEF ValsAfter
  <2> QED BY <1>0, <2>2, <2>4, ClosureMember
<1>3. ASSUME along = {}, p \in t.paths, after # {}
      PROVE  \E v \in DOMAIN t.val : Comparable(p, v)
  <2>1. CASE p = <<>>
    <3>1. PICK v \in DOMAIN t.val : v \in after
      BY <1>3 DEF ValsAfter
    <3>2. v \in Seq(Nat)
      BY <1>0, PathFacts
    <3> QED BY <2>1, <3>2, PrefixOrder DEF Comparable
  <2>2. CASE p # <<>>
    BY <1>0, <1>3, <2>2, ClosureMember DEF Comparable
  <2> QED BY <2>1, <2>2
<1>4. ASSUME along # {}
      PROVE  \E v \in DOMAIN t.val : Comparable(p, v)
  BY <1>4 DEF Comparable
<1> QED BY <1>1, <1>2, <1>3, <1>4

\* The lock that is reported is one of the trie and comparable with the path.
LEMMA ConflictReport ==
    ASSUME NEW t, IsTrie(t), Pruned(t), IsFiniteSet(DOMAIN t.val), NEW p \in Path,
           NEW at \in ConflictAt(p, t)
    PROVE  at \in DOMAIN t.val /\ Comparable(p, at)
<1> DEFINE along == {v \in DOMAIN t.val : IsPrefix(v, p)}
           after == ValsAfter(t, p)
<1>0. DOMAIN t.val \in SUBSET Path /\ t.paths = Closure(DOMAIN t.val)
  BY DEF IsTrie, Pruned
<1>1. along \subseteq DOMAIN t.val /\ after \subseteq DOMAIN t.val
  BY DEF ValsAfter
<1>2. along \in SUBSET Path /\ IsFiniteSet(along) /\ after \in SUBSET Path /\ IsFiniteSet(after)
  BY <1>0, <1>1, FS_Subset
<1>3. CASE along # {}
  <2>1. at = FirstOf(along)
    BY <1>3 DEF ConflictAt
  <2>2. at \in along
    <3> HIDE DEF along
    <3> QED BY <1>2, <1>3, <2>1, FirstOfFacts
  <2> QED BY <2>2 DEF Comparable
<1>4. CASE along = {}
  <2>1. p \in t.paths /\ after # {} /\ at = FirstOf(after)
    BY <1>4 DEF ConflictAt
  <2>2. at \in after /\ \A w \in after : w = at \/ DfsBefore(at, w)
    <3> HIDE DEF after
    <3> QED BY <1>2, <2>1, FirstOfFacts
  <2>3. at \in DOMAIN t.val /\ at \in Seq(Nat) /\ p \in Seq(Nat) /\ DfsBefore(p, at)
    BY <1>0, <1>1, <2>2, PathFacts DEF ValsAfter
  <2>4. CASE p = <<>>
    BY <2>3, <2>4, PrefixOrder DEF Comparable
  <2>5. CASE p # <<>>
    <3>1. PICK v \in DOMAIN t.val : IsPrefix(p, v)
      BY <1>0, <2>1, <2>5, ClosureMember
    <3>2. v \in Seq(Nat) /\ p # v
      <4>1. v \in Seq(Nat)
        BY <1>0, PathFacts
      <4>2. ASSUME p = v
            PROVE  FALSE
        BY <1>4, <2>3, <4>1, <4>2, PrefixOrder
      <4> QED BY <4>1, <4>2
    <3>3. v \in after
      BY <2>3, <3>1, <3>2, DfsPrefix DEF ValsAfter
    <3>4. v = at \/ ~DfsBefore(v, at)
      BY <2>2, <2>3, <3>2, <3>3, DfsOrder
    <3>5. IsPrefix(p, at)
      BY <2>3, <3>1, <3>2, <3>4, DfsPrefix
    <3> QED BY <2>3, <3>5 DEF Comparable
  <2> QED BY <2>4, <2>5
<1> QED BY <1>3, <1>4

\* The type invariant and NoDangling make both tries fit for the trie lemmas.
LEMMA TriesFit ==
    ASSUME IInv
    PROVE  /\ IsTrie(written) /\ Pruned(written)
           /\ IsTrie(reads) /\ Pruned(reads)
           /\ \A p \in DOMAIN written.val : written.val[p] = Unit
           /\ \A p \in DOMAIN reads.val : reads.val[p] \in Count
BY TrieOfFacts DEF IInv, TypeOK, NoDangling

\* A live tracker has a path and one of the three modes.
LEMMA TrackerFacts ==
    ASSUME IInv, NEW i \in Live
    PROVE  /\ i \in Tracker
           /\ tracker[i] = [path |-> tracker[i].path, mode |-> tracker[i].mode]
           /\ tracker[i].path \in Path
           /\ tracker[i].mode \in TrackedMode
BY DEF IInv, TypeOK, Live

\* Readers can be counted.
LEMMA ReadersFinite ==
    ASSUME NEW p
    PROVE  /\ ReadersAt(p) \subseteq Tracker
           /\ IsFiniteSet(ReadersAt(p))
           /\ Cardinality(ReadersAt(p)) \in Nat
           /\ Cardinality(ReadersAt(p)) = 0 <=> ReadersAt(p) = {}
<1>1. ReadersAt(p) \subseteq Tracker
  BY DEF ReadersAt, Reading, Live
<1>2. IsFiniteSet(ReadersAt(p))
  BY <1>1, FS_Subset, TrackerAssumption
<1> QED BY <1>1, <1>2, FS_CardinalityType, FS_EmptySet

\* A writer is alone at its path, so that there is room for the reader it becomes.
LEMMA CountHasRoom ==
    ASSUME IInv, NEW i \in Live, tracker[i].mode = "write"
    PROVE  Room(tracker[i].path)
<1> DEFINE p == tracker[i].path
<1>1. ReadersAt(p) = {}
  <2> SUFFICES ASSUME NEW k \in ReadersAt(p) PROVE FALSE
    OBVIOUS
  <2>1. k \in Live /\ tracker[k].path = p /\ k # i
    BY DEF ReadersAt, Reading
  <2>2. p \in Seq(Nat)
    BY TrackerFacts, PathFacts
  <2>3. Comparable(tracker[i].path, tracker[k].path)
    BY <2>1, <2>2, PrefixOrder DEF Comparable
  <2> QED BY <2>1, <2>3 DEF IInv, Exclusive
<1>2. Cardinality(ReadersAt(p)) = 0
  BY <1>1, FS_EmptySet
<1> QED BY <1>2, TrackerAssumption DEF Room

\* The entry of a path counts its readers, and there is none without a reader.
LEMMA CountFacts ==
    ASSUME IInv, NEW p \in Path
    PROVE  /\ p \in DOMAIN reads.val <=> ReadersAt(p) # {}
           /\ p \in DOMAIN reads.val => reads.val[p] = Cardinality(ReadersAt(p))
           /\ (IF IsVal(reads, p) THEN reads.val[p] ELSE 0) = Cardinality(ReadersAt(p))
<1>1. p \in DOMAIN reads.val <=> ReadersAt(p) # {}
  BY DEF IInv, RegistryExact, PathsOf, ReadersAt
<1>2. p \in DOMAIN reads.val => reads.val[p] = Cardinality(ReadersAt(p))
  BY DEF IInv, RegistryExact
<1> QED BY <1>1, <1>2, ReadersFinite DEF IsVal

\* What RegistryExact and NoDangling say of `reads`, and of `written`.
ReadsExact ==
    /\ reads \in TrieOf(Count)
    /\ Pruned(reads)
    /\ DOMAIN reads.val = PathsOf(Reading)
    /\ \A p \in DOMAIN reads.val : reads.val[p] = Cardinality(ReadersAt(p))
WrittenExact ==
    /\ written \in TrieOf({Unit})
    /\ Pruned(written)
    /\ DOMAIN written.val = PathsOf(Writing)

\* Counting one more reader keeps `reads` exact.
LEMMA ReaderAdded ==
    ASSUME IInv, NEW j \in Tracker, j \notin Reading, NEW p \in Path,
           reads' = SetVal(reads, p, Cardinality(ReadersAt(p)) + 1),
           Cardinality(ReadersAt(p)) < MaxCount,
           Reading' = Reading \cup {j},
           tracker'[j].path = p,
           \A k \in Reading : tracker'[k].path = tracker[k].path
    PROVE  ReadsExact'
<1>1. /\ ReadersAt(p)' = ReadersAt(p) \cup {j}
      /\ j \notin ReadersAt(p)
      /\ \A q : q # p => ReadersAt(q)' = ReadersAt(q)
  BY DEF ReadersAt
<1>2. PathsOf(Reading)' = PathsOf(Reading) \cup {p}
  BY DEF PathsOf
<1>3. Cardinality(ReadersAt(p)') = Cardinality(ReadersAt(p)) + 1
  BY <1>1, ReadersFinite, FS_AddElement
<1>4. /\ IsTrie(reads') /\ Pruned(reads')
      /\ DOMAIN reads'.val = DOMAIN reads.val \cup {p}
      /\ reads'.val[p] = Cardinality(ReadersAt(p)) + 1
      /\ \A q \in DOMAIN reads.val : q # p => reads'.val[q] = reads.val[q]
  BY TriesFit, SetValFacts
<1>5. \A q \in DOMAIN reads'.val : reads'.val[q] \in Count
  BY <1>4, TriesFit, ReadersFinite, TrackerAssumption DEF Count
<1>6. DOMAIN reads'.val = PathsOf(Reading)'
  BY <1>2, <1>4 DEF IInv, RegistryExact
<1>7. ASSUME NEW q \in DOMAIN reads'.val
      PROVE  reads'.val[q] = Cardinality(ReadersAt(q)')
  BY <1>1, <1>3, <1>4 DEF IInv, RegistryExact
<1> QED BY <1>4, <1>5, <1>6, <1>7, TrieOfFacts DEF ReadsExact

\* Taking one reader out keeps `reads` exact.
LEMMA ReaderRemoved ==
    ASSUME IInv, NEW j \in Reading, NEW p \in Path, tracker[j].path = p,
           reads' = WithoutReader(p),
           Reading' = Reading \ {j},
           \A k \in Reading \ {j} : tracker'[k].path = tracker[k].path
    PROVE  IsVal(reads, p) /\ ReadsExact'
<1>1. /\ ReadersAt(p)' = ReadersAt(p) \ {j}
      /\ j \in ReadersAt(p)
      /\ \A q : q # p => ReadersAt(q)' = ReadersAt(q)
  BY DEF ReadersAt
<1>2. p \in Path /\ IsVal(reads, p) /\ reads.val[p] = Cardinality(ReadersAt(p))
  BY <1>1, CountFacts, TrackerFacts DEF Reading, IsVal
<1>3. /\ Cardinality(ReadersAt(p)') = Cardinality(ReadersAt(p)) - 1
      /\ Cardinality(ReadersAt(p)) \in Nat \ {0}
      /\ Cardinality(ReadersAt(p)') = 0 <=> ReadersAt(p)' = {}
  <2>1. /\ IsFiniteSet(ReadersAt(p))
        /\ Cardinality(ReadersAt(p)) \in Nat
        /\ Cardinality(ReadersAt(p)) # 0
    BY <1>1, ReadersFinite
  <2>2. /\ IsFiniteSet(ReadersAt(p) \ {j})
        /\ Cardinality(ReadersAt(p) \ {j}) = Cardinality(ReadersAt(p)) - 1
    BY <1>1, <2>1, FS_RemoveElement
  <2>3. Cardinality(ReadersAt(p) \ {j}) = 0 <=> ReadersAt(p) \ {j} = {}
    BY <2>2, FS_EmptySet
  <2> QED BY <1>1, <2>1, <2>2, <2>3
<1>4. \A q \in DOMAIN reads.val : q # p => reads.val[q] = Cardinality(ReadersAt(q)')
  BY <1>1 DEF IInv, RegistryExact
<1>5. CASE reads.val[p] = 1
  <2>1. reads' = RemoveVal(reads, p, TRUE, 0)
    BY <1>5 DEF WithoutReader
  <2>2. /\ IsTrie(reads') /\ Pruned(reads')
        /\ DOMAIN reads'.val = DOMAIN reads.val \ {p}
        /\ \A q \in DOMAIN reads'.val : reads'.val[q] = reads.val[q]
    <3>1. IsTrie(reads) /\ Pruned(reads) /\ p \in Path
      BY <1>2, TriesFit
    <3> DEFINE u == RemoveVal(reads, p, TRUE, 0)
    <3>2. /\ IsTrie(u) /\ Pruned(u)
          /\ DOMAIN u.val = DOMAIN reads.val \ {p}
          /\ \A q \in DOMAIN u.val : u.val[q] = reads.val[q]
      BY <3>1, RemoveValFacts
    <3>3. reads' = u
      BY <2>1
    <3> HIDE DEF u
    <3> QED BY <3>2, <3>3
  <2>3. ReadersAt(p)' = {}
    BY <1>2, <1>3, <1>5
  <2>4. PathsOf(Reading)' = PathsOf(Reading) \ {p}
    <3>1. \A k \in Reading' : tracker'[k].path = tracker[k].path /\ k \in Reading
      OBVIOUS
    <3>2. \A k \in Reading' : tracker[k].path # p
      BY <2>3, <3>1 DEF ReadersAt
    <3>3. \A k \in Reading : tracker[k].path # p => k \in Reading'
      OBVIOUS
    <3> QED BY <3>1, <3>2, <3>3 DEF PathsOf
  <2>5. DOMAIN reads'.val = PathsOf(Reading)'
    BY <2>2, <2>4 DEF IInv, RegistryExact
  <2>6. \A q \in DOMAIN reads'.val : reads'.val[q] \in Count /\ reads'.val[q] = Cardinality(ReadersAt(q)')
    BY <1>4, <2>2, TriesFit
  <2> QED BY <1>2, <2>2, <2>5, <2>6, TrieOfFacts DEF ReadsExact
<1>6. CASE reads.val[p] # 1
  <2>1. reads' = SetVal(reads, p, reads.val[p] - 1)
    BY <1>6 DEF WithoutReader
  <2>2. /\ IsTrie(reads') /\ Pruned(reads')
        /\ DOMAIN reads'.val = DOMAIN reads.val
        /\ reads'.val[p] = reads.val[p] - 1
        /\ \A q \in DOMAIN reads.val : q # p => reads'.val[q] = reads.val[q]
    <3>1. IsTrie(reads) /\ Pruned(reads) /\ p \in Path /\ p \in DOMAIN reads.val
      BY <1>2, TriesFit DEF IsVal
    <3> DEFINE c == reads.val[p] - 1
               u == SetVal(reads, p, c)
    <3> HIDE DEF c
    <3>2. /\ IsTrie(u) /\ Pruned(u)
          /\ DOMAIN u.val = DOMAIN reads.val \cup {p}
          /\ u.val[p] = c
          /\ \A q \in DOMAIN reads.val : q # p => u.val[q] = reads.val[q]
      BY <3>1, SetValFacts
    <3>3. reads' = u
      BY <2>1 DEF c
    <3> HIDE DEF u
    <3> QED BY <3>1, <3>2, <3>3 DEF c
  <2>3. ReadersAt(p)' # {}
    BY <1>2, <1>3, <1>6
  <2>4. PathsOf(Reading)' = PathsOf(Reading)
    <3>1. PICK m \in Reading' : tracker'[m].path = p
      BY <2>3 DEF ReadersAt
    <3> QED BY <3>1 DEF PathsOf
  <2>5. DOMAIN reads'.val = PathsOf(Reading)'
    BY <2>2, <2>4 DEF IInv, RegistryExact
  <2>6. ASSUME NEW q \in DOMAIN reads'.val
        PROVE  reads'.val[q] \in Count /\ reads'.val[q] = Cardinality(ReadersAt(q)')
    <3>1. CASE q = p
      <4>1. reads.val[p] \in Count
        BY <1>2, TriesFit DEF IsVal
      <4> QED BY <1>2, <1>3, <1>6, <2>2, <3>1, <4>1, TrackerAssumption DEF Count
    <3>2. CASE q # p
      BY <1>4, <2>2, <3>2, TriesFit
    <3> QED BY <3>1, <3>2
  <2> QED BY <1>2, <2>2, <2>5, <2>6, TrieOfFacts DEF ReadsExact
<1> QED BY <1>2, <1>5, <1>6

\* IInv says that both tries are exact, and some more.
LEMMA IInvSplit ==
    IInv <=> /\ ReadsExact
             /\ WrittenExact
             /\ Exclusive
             /\ tracker \in [Tracker -> [path : Path, mode : TrackedMode] \cup {NoTracker}]
             /\ conflict \in [Tracker -> Conflict \cup {NoTracker}]
             /\ panicked = FALSE
BY DEF IInv, TypeOK, RegistryExact, NoDangling, ReadsExact, WrittenExact

\* The same of the next state.
LEMMA IInvSplitNext ==
    IInv' <=> /\ ReadsExact'
              /\ WrittenExact'
              /\ Exclusive'
              /\ tracker' \in [Tracker -> [path : Path, mode : TrackedMode] \cup {NoTracker}]
              /\ conflict' \in [Tracker -> Conflict \cup {NoTracker}]
              /\ panicked' = FALSE
BY DEF IInv, TypeOK, RegistryExact, NoDangling, ReadsExact, WrittenExact

\* A new write lock at a path without writer.
LEMMA WriterAdded ==
    ASSUME IInv, NEW i \in Tracker, NEW p \in Path,
           written' = SetVal(written, p, Unit),
           Writing' = Writing \cup {i},
           tracker'[i].path = p,
           \A k \in Writing : tracker'[k].path = tracker[k].path
    PROVE  WrittenExact'
<1>1. PathsOf(Writing)' = PathsOf(Writing) \cup {p}
  BY DEF PathsOf
<1>2. /\ IsTrie(written') /\ Pruned(written')
      /\ DOMAIN written'.val = DOMAIN written.val \cup {p}
      /\ written'.val[p] = Unit
      /\ \A q \in DOMAIN written.val : q # p => written'.val[q] = written.val[q]
  <2> DEFINE u == SetVal(written, p, Unit)
  <2>1. /\ IsTrie(u) /\ Pruned(u)
        /\ DOMAIN u.val = DOMAIN written.val \cup {p}
        /\ u.val[p] = Unit
        /\ \A q \in DOMAIN written.val : q # p => u.val[q] = written.val[q]
    BY TriesFit, SetValFacts
  <2> HIDE DEF u
  <2>2. written' = u
    BY DEF u
  <2> QED BY <2>1, <2>2
<1>3. \A q \in DOMAIN written'.val : written'.val[q] \in {Unit}
  BY <1>2, TriesFit
<1>4. DOMAIN written'.val = PathsOf(Writing)'
  BY <1>1, <1>2 DEF IInv, RegistryExact
<1> QED BY <1>2, <1>3, <1>4, TrieOfFacts DEF WrittenExact

\* The only write lock at a path is taken away.
LEMMA WriterRemoved ==
    ASSUME IInv, NEW i \in Writing, NEW p \in Path, tracker[i].path = p,
           written' = WithoutWriter(p),
           Writing' = Writing \ {i},
           \A k \in Writing \ {i} : tracker'[k].path = tracker[k].path
    PROVE  WrittenExact'
<1>1. \A k \in Writing \ {i} : tracker[k].path # p
  <2>1. SUFFICES ASSUME NEW k \in Writing \ {i}, tracker[k].path = p
                 PROVE  FALSE
    OBVIOUS
  <2>2. Comparable(tracker[i].path, tracker[k].path)
    BY <2>1, PathFacts, PrefixOrder DEF Comparable
  <2>3. tracker[i].mode = "read"
    BY <2>2 DEF IInv, Exclusive, Writing
  <2> QED BY <2>3 DEF Writing
<1>2. PathsOf(Writing)' = PathsOf(Writing) \ {p}
  BY <1>1 DEF PathsOf
<1>3. /\ IsTrie(written') /\ Pruned(written')
      /\ DOMAIN written'.val = DOMAIN written.val \ {p}
      /\ \A q \in DOMAIN written'.val : written'.val[q] = written.val[q]
  <2> DEFINE u == RemoveVal(written, p, TRUE, 0)
  <2>1. /\ IsTrie(u) /\ Pruned(u)
        /\ DOMAIN u.val = DOMAIN written.val \ {p}
        /\ \A q \in DOMAIN u.val : u.val[q] = written.val[q]
    BY TriesFit, RemoveValFacts
  <2> HIDE DEF u
  <2>2. written' = u
    BY DEF u, WithoutWriter
  <2> QED BY <2>1, <2>2
<1>4. \A q \in DOMAIN written'.val : written'.val[q] \in {Unit}
  BY <1>3, TriesFit
<1>5. DOMAIN written'.val = PathsOf(Writing)'
  BY <1>2, <1>3 DEF IInv, RegistryExact
<1> QED BY <1>3, <1>4, <1>5, TrieOfFacts DEF WrittenExact

\* Each part stays exact when its trie and its trackers stay.
LEMMA ReadsUnchanged ==
    ASSUME IInv, reads' = reads, Reading' = Reading,
           \A k \in Reading : tracker'[k].path = tracker[k].path
    PROVE  ReadsExact'
<1>1. \A p : ReadersAt(p)' = ReadersAt(p)
  BY DEF ReadersAt
<1>2. PathsOf(Reading)' = PathsOf(Reading)
  BY DEF PathsOf
<1> QED BY <1>1, <1>2, IInvSplit DEF ReadsExact

\* The same for the other trie: writers and their paths stay as they were.
LEMMA WrittenUnchanged ==
    ASSUME IInv, written' = written, Writing' = Writing,
           \A k \in Writing : tracker'[k].path = tracker[k].path
    PROVE  WrittenExact'
<1>1. PathsOf(Writing)' = PathsOf(Writing)
  BY DEF PathsOf
<1> QED BY <1>1, IInvSplit DEF WrittenExact

\* At the start both tries are empty, as no tracker is live.
LEMMA InitInv == Init => IInv
<1>1. SUFFICES ASSUME Init PROVE IInv
  OBVIOUS
<1>2. Live = {} /\ Reading = {} /\ Writing = {}
  BY <1>1 DEF Init, Live, Reading, Writing
<1>3. PathsOf(Reading) = {} /\ PathsOf(Writing) = {}
  BY <1>2 DEF PathsOf
<1>4. /\ IsTrie(reads) /\ Pruned(reads) /\ DOMAIN reads.val = {}
      /\ IsTrie(written) /\ Pruned(written) /\ DOMAIN written.val = {}
  BY <1>1, EmptyTrieFacts DEF Init
<1>5. ReadsExact /\ WrittenExact
  BY <1>3, <1>4, TrieOfFacts DEF ReadsExact, WrittenExact
<1>6. Exclusive
  BY <1>2 DEF Exclusive
<1> QED BY <1>1, <1>5, <1>6, IInvSplit DEF Init

\* What granting a lock to a free tracker does to the sets of trackers.
LEMMA GrantSets ==
    ASSUME IInv, NEW i \in Tracker, i \notin Live, NEW p \in Path,
           NEW mode \in {"read", "write"}, Grant(i, p, mode)
    PROVE  /\ Live' = Live \cup {i}
           /\ tracker'[i] = [path |-> p, mode |-> mode]
           /\ \A k \in Live : tracker'[k] = tracker[k]
           /\ Reading' = IF mode = "read" THEN Reading \cup {i} ELSE Reading
           /\ Writing' = IF mode = "write" THEN Writing \cup {i} ELSE Writing
           /\ tracker' \in [Tracker -> [path : Path, mode : TrackedMode] \cup {NoTracker}]
           /\ conflict' \in [Tracker -> Conflict \cup {NoTracker}]
           /\ panicked' = panicked
<1> DEFINE new == [path |-> p, mode |-> mode]
<1>1. tracker' = [tracker EXCEPT ![i] = new]
  BY DEF Grant
<1>2. tracker \in [Tracker -> [path : Path, mode : TrackedMode] \cup {NoTracker}]
  BY DEF IInv, TypeOK
<1>3. new \in [path : Path, mode : TrackedMode] /\ new # NoTracker
  BY TrackerAssumption DEF TrackedMode
<1>4. /\ tracker'[i] = new
      /\ \A k \in Tracker : k # i => tracker'[k] = tracker[k]
  BY <1>1, <1>2
<1>5. Live' = Live \cup {i} /\ \A k \in Live : tracker'[k] = tracker[k]
  BY <1>3, <1>4 DEF Live
<1>6. new.mode = mode
  OBVIOUS
<1>7. Reading' = IF mode = "read" THEN Reading \cup {i} ELSE Reading
  BY <1>4, <1>5, <1>6 DEF Reading
<1>8. Writing' = IF mode = "write" THEN Writing \cup {i} ELSE Writing
  BY <1>4, <1>5, <1>6 DEF Writing
<1>9. tracker' \in [Tracker -> [path : Path, mode : TrackedMode] \cup {NoTracker}]
  BY <1>1, <1>2, <1>3
<1>10. conflict' \in [Tracker -> Conflict \cup {NoTracker}] /\ panicked' = panicked
  BY DEF IInv, TypeOK, Grant
<1> QED BY <1>4, <1>5, <1>7, <1>8, <1>9, <1>10

\* No lock of `written`, or of `reads`, is comparable with p: neither is any
\* tracker of that kind.
LEMMA NoConflict ==
    ASSUME IInv, NEW p \in Path
    PROVE  /\ ConflictAt(p, written) = {} <=> \A k \in Writing : ~Comparable(p, tracker[k].path)
           /\ ConflictAt(p, reads) = {} <=> \A k \in Reading : ~Comparable(p, tracker[k].path)
<1>1. /\ DOMAIN written.val = {tracker[k].path : k \in Writing}
      /\ DOMAIN reads.val = {tracker[k].path : k \in Reading}
  BY DEF IInv, RegistryExact, PathsOf
<1>2. ConflictAt(p, written) = {} <=> ~ \E v \in DOMAIN written.val : Comparable(p, v)
  BY TriesFit, ConflictFacts
<1>3. ConflictAt(p, reads) = {} <=> ~ \E v \in DOMAIN reads.val : Comparable(p, v)
  BY TriesFit, ConflictFacts
<1> QED BY <1>1, <1>2, <1>3

\* try_add_writer without a conflict keeps the invariant.
LEMMA GrantWriteInv ==
    ASSUME IInv, NEW i \in Tracker, i \notin Live, NEW p \in Path,
           ConflictAt(p, written) = {}, ConflictAt(p, reads) = {},
           written' = SetVal(written, p, Unit), reads' = reads, Grant(i, p, "write")
    PROVE  IInv'
<1>1. /\ Live' = Live \cup {i}
      /\ tracker'[i] = [path |-> p, mode |-> "write"]
      /\ \A k \in Live : tracker'[k] = tracker[k]
      /\ Reading' = Reading
      /\ Writing' = Writing \cup {i}
  BY GrantSets
<1>2. ReadsExact'
  BY <1>1, ReadsUnchanged DEF Reading
<1>3. WrittenExact'
  BY <1>1, WriterAdded DEF Writing
<1>4. \A k \in Live : ~Comparable(p, tracker[k].path) /\ ~Comparable(tracker[k].path, p)
  BY NoConflict, TrackerFacts DEF Reading, Writing, TrackedMode, Comparable
<1>5. Exclusive'
  BY <1>1, <1>4 DEF IInv, Exclusive
<1>6. /\ tracker' \in [Tracker -> [path : Path, mode : TrackedMode] \cup {NoTracker}]
      /\ conflict' \in [Tracker -> Conflict \cup {NoTracker}]
      /\ panicked' = panicked
  BY GrantSets
<1> QED BY <1>2, <1>3, <1>5, <1>6, IInvSplit, IInvSplitNext

\* try_add_reader without a conflict keeps the invariant.
LEMMA GrantReadInv ==
    ASSUME IInv, NEW i \in Tracker, i \notin Live, NEW p \in Path,
           \A k \in Writing : ~Comparable(p, tracker[k].path),
           reads' = SetVal(reads, p, Cardinality(ReadersAt(p)) + 1),
           Cardinality(ReadersAt(p)) < MaxCount,
           written' = written, Grant(i, p, "read")
    PROVE  IInv'
<1>1. /\ Live' = Live \cup {i}
      /\ tracker'[i] = [path |-> p, mode |-> "read"]
      /\ \A k \in Live : tracker'[k] = tracker[k]
      /\ Reading' = Reading \cup {i}
      /\ Writing' = Writing
  BY GrantSets
<1>2. ReadsExact'
  BY <1>1, ReaderAdded DEF Reading
<1>3. WrittenExact'
  BY <1>1, WrittenUnchanged DEF Writing
<1>4. \A k \in Live : Comparable(p, tracker[k].path) \/ Comparable(tracker[k].path, p)
                          => tracker[k].mode = "read"
  BY TrackerFacts DEF Writing, TrackedMode, Comparable
<1>5. Exclusive'
  BY <1>1, <1>4 DEF IInv, Exclusive
<1>6. /\ tracker' \in [Tracker -> [path : Path, mode : TrackedMode] \cup {NoTracker}]
      /\ conflict' \in [Tracker -> Conflict \cup {NoTracker}]
      /\ panicked' = panicked
  BY GrantSets
<1> QED BY <1>2, <1>3, <1>5, <1>6, IInvSplit, IInvSplitNext

\* A refusal that names paths of clients only writes down the conflict.
LEMMA RefuseInv ==
    ASSUME IInv, NEW i \in Tracker, NEW p \in Path, NEW mode \in {"read", "write"},
           NEW with \in {"read", "write"}, NEW at \in Path, Refuse(i, p, mode, with, at)
    PROVE  IInv'
<1>1. /\ written' = written /\ reads' = reads /\ tracker' = tracker /\ panicked' = panicked
      /\ conflict' \in [Tracker -> Conflict \cup {NoTracker}]
  BY DEF IInv, TypeOK, Refuse, Conflict
<1>2. Reading' = Reading /\ Writing' = Writing /\ Live' = Live
  BY <1>1 DEF Reading, Writing, Live
<1>3. ReadsExact' /\ WrittenExact'
  BY <1>1, <1>2, ReadsUnchanged, WrittenUnchanged
<1>4. Exclusive'
  BY <1>1, <1>2 DEF IInv, Exclusive
<1> QED BY <1>1, <1>3, <1>4, IInvSplit, IInvSplitNext

\* A step that changes nothing keeps the invariant.
LEMMA StutterInv == ASSUME IInv, UNCHANGED vars PROVE IInv'
<1>1. /\ written' = written /\ reads' = reads /\ tracker' = tracker
      /\ conflict' = conflict /\ panicked' = panicked
  BY DEF vars
<1>2. Reading' = Reading /\ Writing' = Writing /\ Live' = Live
  BY <1>1 DEF Reading, Writing, Live
<1>3. ReadsExact' /\ WrittenExact'
  BY <1>1, <1>2, ReadsUnchanged, WrittenUnchanged
<1>4. Exclusive'
  BY <1>1, <1>2 DEF IInv, Exclusive
<1> QED BY <1>1, <1>3, <1>4, IInvSplit, IInvSplitNext

\* The downgrade's first half: the tracker counts as reader and as writer.
LEMMA IntoReaderAddInv ==
    ASSUME IInv, NEW i \in Tracker, IntoReaderAdd(i)
    PROVE  IInv'
<1> DEFINE p == tracker[i].path
<1>1. i \in Live /\ tracker[i].mode = "write" /\ p \in Path /\ i \in Writing /\ i \notin Reading
  BY TrackerFacts DEF IntoReaderAdd, Writing, Reading
<1>2. /\ tracker' = [tracker EXCEPT ![i].mode = "converting"]
      /\ tracker \in [Tracker -> [path : Path, mode : TrackedMode] \cup {NoTracker}]
      /\ tracker[i] = [path |-> p, mode |-> "write"]
  BY <1>1, TrackerFacts, IInvSplit DEF IntoReaderAdd
<1>3. /\ tracker'[i] = [path |-> p, mode |-> "converting"]
      /\ \A k \in Tracker : k # i => tracker'[k] = tracker[k]
      /\ [path |-> p, mode |-> "converting"] \in [path : Path, mode : TrackedMode]
  BY <1>1, <1>2 DEF TrackedMode
<1>4. tracker' \in [Tracker -> [path : Path, mode : TrackedMode] \cup {NoTracker}]
  BY <1>2, <1>3
<1>5. tracker'[i] # NoTracker
  BY <1>3, TrackerAssumption DEF TrackedMode
<1>6. Live' = Live /\ Writing' = Writing /\ Reading' = Reading \cup {i}
  BY <1>1, <1>3, <1>5 DEF Live, Reading, Writing
<1>7. /\ Cardinality(ReadersAt(p)) < MaxCount
      /\ Cardinality(ReadersAt(p)) \in Nat
  BY <1>1, CountHasRoom, ReadersFinite DEF Room
<1>8. reads' = SetVal(reads, p, Cardinality(ReadersAt(p)) + 1)
  <2>1. reads' = WithReaderUnchecked(p)
    BY DEF IntoReaderAdd
  <2>2. (Cardinality(ReadersAt(p)) + 1) % (MaxCount + 1) = Cardinality(ReadersAt(p)) + 1
    BY <1>7, TrackerAssumption
  <2>3. CASE IsVal(reads, p)
    BY <1>1, <2>1, <2>2, <2>3, CountFacts DEF WithReaderUnchecked, IsVal
  <2>4. CASE ~IsVal(reads, p)
    BY <1>1, <2>1, <2>4, CountFacts DEF WithReaderUnchecked, IsVal
  <2> QED BY <2>3, <2>4
<1>9. ReadsExact'
  BY <1>1, <1>3, <1>6, <1>7, <1>8, ReaderAdded DEF Reading, Live
<1>10. WrittenExact'
  BY <1>1, <1>3, <1>6, WrittenUnchanged DEF IntoReaderAdd, Writing, Live
<1>11. Exclusive'
  <2> SUFFICES ASSUME NEW k \in Live, NEW l \in Live, k # l,
                      Comparable(tracker'[k].path, tracker'[l].path)
               PROVE  tracker'[k].mode = "read" /\ tracker'[l].mode = "read"
    BY <1>6 DEF Exclusive
  <2>1. tracker'[k].path = tracker[k].path /\ tracker'[l].path = tracker[l].path
    BY <1>3 DEF Live
  <2>2. tracker[k].mode = "read" /\ tracker[l].mode = "read"
    BY <2>1 DEF IInv, Exclusive
  <2>3. k # i /\ l # i
    BY <1>1, <2>2
  <2> QED BY <1>3, <2>2, <2>3 DEF Live
<1>12. conflict' = conflict /\ panicked' = panicked
  BY DEF IntoReaderAdd
<1> QED BY <1>4, <1>9, <1>10, <1>11, <1>12, IInvSplit, IInvSplitNext

\* The downgrade's second half: a writer that reads already stops writing.
LEMMA IntoReaderReleaseInv ==
    ASSUME IInv, NEW i \in Tracker, IntoReaderRelease(i)
    PROVE  IInv'
<1> DEFINE p == tracker[i].path
<1>1. /\ i \in Live /\ tracker[i].mode = "converting" /\ p \in Path
      /\ i \in Writing /\ i \in Reading
  BY TrackerFacts DEF IntoReaderRelease, Writing, Reading
<1>2. /\ tracker' = [tracker EXCEPT ![i].mode = "read"]
      /\ tracker \in [Tracker -> [path : Path, mode : TrackedMode] \cup {NoTracker}]
      /\ tracker[i] = [path |-> p, mode |-> "converting"]
  BY <1>1, TrackerFacts, IInvSplit DEF IntoReaderRelease
<1>3. /\ tracker'[i] = [path |-> p, mode |-> "read"]
      /\ \A k \in Tracker : k # i => tracker'[k] = tracker[k]
      /\ [path |-> p, mode |-> "read"] \in [path : Path, mode : TrackedMode]
  BY <1>1, <1>2 DEF TrackedMode
<1>4. tracker' \in [Tracker -> [path : Path, mode : TrackedMode] \cup {NoTracker}]
  BY <1>2, <1>3
<1>5. tracker'[i] # NoTracker
  BY <1>3, TrackerAssumption DEF TrackedMode
<1>6. Live' = Live /\ Writing' = Writing \ {i} /\ Reading' = Reading
  BY <1>1, <1>3, <1>5 DEF Live, Reading, Writing
<1>7. IsVal(written, p)
  BY <1>1 DEF IInv, RegistryExact, PathsOf, IsVal
<1>8. written' = WithoutWriter(p) /\ panicked' = panicked /\ reads' = reads /\ conflict' = conflict
  BY <1>7, IInvSplit DEF IntoReaderRelease, RemoveWriteLock
<1>9. WrittenExact'
  BY <1>1, <1>3, <1>6, <1>8, WriterRemoved DEF Writing, Live
<1>10. ReadsExact'
  BY <1>1, <1>3, <1>6, <1>8, ReadsUnchanged DEF Reading, Live
<1>11. Exclusive'
  <2> SUFFICES ASSUME NEW k \in Live, NEW l \in Live, k # l,
                      Comparable(tracker'[k].path, tracker'[l].path)
               PROVE  tracker'[k].mode = "read" /\ tracker'[l].mode = "read"
    BY <1>6 DEF Exclusive
  <2>1. tracker'[k].path = tracker[k].path /\ tracker'[l].path = tracker[l].path
    BY <1>3 DEF Live
  <2>2. tracker[k].mode = "read" /\ tracker[l].mode = "read"
    BY <2>1 DEF IInv, Exclusive
  <2>3. k # i /\ l # i
    BY <1>1, <2>2
  <2> QED BY <1>3, <2>2, <2>3 DEF Live
<1> QED BY <1>4, <1>8, <1>9, <1>10, <1>11, IInvSplit, IInvSplitNext

\* Dropping a tracker takes away its own lock and no other.
LEMMA DropTrackerInv ==
    ASSUME IInv, NEW i \in Tracker, DropTracker(i)
    PROVE  IInv'
<1> DEFINE p == tracker[i].path
<1>1. i \in Live /\ p \in Path /\ conflict' = conflict
  BY TrackerFacts DEF DropTracker
<1>2. /\ tracker' = [tracker EXCEPT ![i] = NoTracker]
      /\ tracker \in [Tracker -> [path : Path, mode : TrackedMode] \cup {NoTracker}]
  BY IInvSplit DEF DropTracker
<1>3. /\ tracker'[i] = NoTracker
      /\ \A k \in Tracker : k # i => tracker'[k] = tracker[k]
      /\ tracker' \in [Tracker -> [path : Path, mode : TrackedMode] \cup {NoTracker}]
  BY <1>2
<1>4. /\ Live' = Live \ {i} /\ Writing' = Writing \ {i} /\ Reading' = Reading \ {i}
      /\ \A k \in Live \ {i} : tracker'[k] = tracker[k]
  BY <1>1, <1>3 DEF Live, Reading, Writing
<1>5. Exclusive'
  BY <1>4 DEF IInv, Exclusive
<1>6. CASE tracker[i].mode = "write" /\ RemoveWriteLock(p)
  <2>1. i \in Writing /\ i \notin Reading
    BY <1>1, <1>6 DEF Writing, Reading
  <2>2. IsVal(written, p)
    BY <2>1 DEF IInv, RegistryExact, PathsOf, IsVal
  <2>3. written' = WithoutWriter(p) /\ panicked' = panicked /\ reads' = reads
    BY <1>6, <2>2, IInvSplit DEF RemoveWriteLock
  <2>4. WrittenExact'
    BY <1>1, <1>4, <2>1, <2>3, WriterRemoved DEF Writing
  <2>5. Reading' = Reading /\ \A k \in Reading : tracker'[k].path = tracker[k].path
    BY <1>4, <2>1 DEF Reading
  <2>6. ReadsExact'
    BY <2>3, <2>5, ReadsUnchanged
  <2> QED BY <1>1, <1>3, <1>5, <2>3, <2>4, <2>6, IInvSplit, IInvSplitNext
<1>7. CASE tracker[i].mode = "read" /\ RemoveReadLock(p)
  <2>1. i \in Reading /\ i \notin Writing
    BY <1>1, <1>7 DEF Writing, Reading
  <2>2. IsVal(reads, p)
    BY <2>1 DEF IInv, RegistryExact, PathsOf, IsVal
  <2>3. reads' = WithoutReader(p) /\ panicked' = panicked /\ written' = written
    BY <1>7, <2>2, IInvSplit DEF RemoveReadLock
  <2>4. ReadsExact'
    BY <1>1, <1>4, <2>1, <2>3, ReaderRemoved DEF Reading
  <2>5. Writing' = Writing /\ \A k \in Writing : tracker'[k].path = tracker[k].path
    BY <1>4, <2>1 DEF Writing
  <2>6. WrittenExact'
    BY <2>3, <2>5, WrittenUnchanged
  <2> QED BY <1>1, <1>3, <1>5, <2>3, <2>4, <2>6, IInvSplit, IInvSplitNext
<1> QED BY <1>6, <1>7 DEF DropTracker

\* The lock reported by a refusal is a path of a tracker of that kind.
LEMMA ReportedLock ==
    ASSUME IInv, NEW p \in Path
    PROVE  /\ \A at \in ConflictAt(p, written) :
                 at \in Path /\ at \in PathsOf(Writing) /\ Comparable(p, at)
           /\ \A at \in ConflictAt(p, reads) :
                 at \in Path /\ at \in PathsOf(Reading) /\ Comparable(p, at)
<1>1. ASSUME NEW S \in SUBSET Live
      PROVE  IsFiniteSet(PathsOf(S)) /\ PathsOf(S) \subseteq Path
  <2> DEFINE f == [k \in S |-> tracker[k].path]
  <2>1. IsFiniteSet(S)
    BY FS_Subset, TrackerAssumption DEF Live
  <2>2. f \in Surjection(S, PathsOf(S))
    BY DEF PathsOf, Surjection
  <2> QED BY <2>1, <2>2, FS_Surjection, TrackerFacts DEF PathsOf
<1>2. Writing \in SUBSET Live /\ Reading \in SUBSET Live
  BY DEF Writing, Reading
<1>3. DOMAIN written.val = PathsOf(Writing) /\ DOMAIN reads.val = PathsOf(Reading)
  BY DEF IInv, RegistryExact
<1>4. IsFiniteSet(DOMAIN written.val) /\ IsFiniteSet(DOMAIN reads.val)
  BY <1>1, <1>2, <1>3
<1> QED BY <1>1, <1>2, <1>3, <1>4, TriesFit, ConflictReport

\* A writer is created only next to trackers that are not comparable with it.
LEMMA NewWriterInv ==
    ASSUME IInv, NEW i \in Tracker, NEW p \in Path, NewWriter(i, p)
    PROVE  IInv'
<1>1. i \notin Live
  BY DEF NewWriter
<1>2. CASE \E at \in ConflictAt(p, written) : Refuse(i, p, "write", "write", at)
  BY <1>2, ReportedLock, RefuseInv
<1>3. CASE \E at \in ConflictAt(p, reads) : Refuse(i, p, "write", "read", at)
  BY <1>3, ReportedLock, RefuseInv
<1>4. CASE /\ ConflictAt(p, written) = {} /\ ConflictAt(p, reads) = {}
           /\ written' = SetVal(written, p, Unit) /\ reads' = reads /\ Grant(i, p, "write")
  BY <1>1, <1>4, GrantWriteInv
<1> QED BY <1>2, <1>3, <1>4 DEF NewWriter

\* A reader is created only away from writers, and only if it can be counted.
LEMMA NewReaderInv ==
    ASSUME IInv, NEW i \in Tracker, NEW p \in Path, NewReader(i, p)
    PROVE  IInv'
<1>1. i \notin Live
  BY DEF NewReader
<1>2. CASE \E at \in ConflictAt(p, written) : Refuse(i, p, "read", "write", at)
  BY <1>2, ReportedLock, RefuseInv
<1>3. CASE Refuse(i, p, "read", "read", p)
  BY <1>3, RefuseInv
<1>4. CASE /\ ConflictAt(p, written) = {}
           /\ IsVal(reads, p) => reads.val[p] # MaxCount
           /\ reads' = WithReader(p) /\ written' = written /\ Grant(i, p, "read")
  <2>1. \A k \in Writing : ~Comparable(p, tracker[k].path)
    BY <1>4, NoConflict
  <2>2. Cardinality(ReadersAt(p)) < MaxCount
    <3>1. CASE IsVal(reads, p)
      <4>1. /\ reads.val[p] = Cardinality(ReadersAt(p))
            /\ reads.val[p] \in 0..MaxCount
        BY <3>1, CountFacts, TriesFit DEF IsVal, Count
      <4> QED BY <1>4, <3>1, <4>1, TrackerAssumption
    <3>2. CASE ~IsVal(reads, p)
      BY <3>2, CountFacts, TrackerAssumption
    <3> QED BY <3>1, <3>2
  <2>3. reads' = SetVal(reads, p, Cardinality(ReadersAt(p)) + 1)
    <3>1. CASE IsVal(reads, p)
      BY <1>4, <3>1, CountFacts DEF WithReader
    <3>2. CASE ~IsVal(reads, p)
      BY <1>4, <3>2, CountFacts DEF WithReader
    <3> QED BY <3>1, <3>2
  <2> QED BY <1>1, <1>4, <2>1, <2>2, <2>3, GrantReadInv
<1> QED BY <1>2, <1>3, <1>4 DEF NewReader

\* A clone joins a reader, so no writer is near.
LEMMA CloneReaderInv ==
    ASSUME IInv, NEW i \in Tracker, NEW j \in Tracker, CloneReader(i, j)
    PROVE  IInv'
<1> DEFINE p == tracker[i].path
<1>1. /\ i \in Live /\ tracker[i].mode = "read" /\ p \in Path
      /\ j \notin Live /\ j \notin Reading
  BY TrackerFacts DEF CloneReader, Reading
<1>2. \A k \in Writing : ~Comparable(p, tracker[k].path)
  BY <1>1 DEF IInv, Exclusive, Writing
<1>3. Cardinality(ReadersAt(p)) < MaxCount /\ Cardinality(ReadersAt(p)) \in Nat
  BY ReadersFinite DEF CloneReader, Room
<1>4. reads' = SetVal(reads, p, Cardinality(ReadersAt(p)) + 1)
  <2>1. reads' = WithReaderUnchecked(p)
    BY DEF CloneReader
  <2>2. (Cardinality(ReadersAt(p)) + 1) % (MaxCount + 1) = Cardinality(ReadersAt(p)) + 1
    BY <1>3, TrackerAssumption
  <2>3. CASE IsVal(reads, p)
    BY <1>1, <2>1, <2>2, <2>3, CountFacts DEF WithReaderUnchecked, IsVal
  <2>4. CASE ~IsVal(reads, p)
    BY <1>1, <2>1, <2>4, CountFacts DEF WithReaderUnchecked, IsVal
  <2> QED BY <2>3, <2>4
<1>5. written' = written /\ Grant(j, p, "read")
  BY DEF CloneReader
<1> QED BY <1>1, <1>2, <1>3, <1>4, <1>5, GrantReadInv

\* Every step of the specification keeps the inductive invariant.
LEMMA StepInv == IInv /\ [Next]_vars => IInv'
<1> SUFFICES ASSUME IInv, [Next]_vars PROVE IInv'
  OBVIOUS
<1>1. ASSUME NEW i \in Tracker, NEW p \in Path, NewWriter(i, p) PROVE IInv'
  BY <1>1, NewWriterInv
<1>2. ASSUME NEW i \in Tracker, NEW p \in Path, NewReader(i, p) PROVE IInv'
  BY <1>2, NewReaderInv
<1>3. ASSUME NEW i \in Tracker, NEW j \in Tracker, CloneReader(i, j) PROVE IInv'
  BY <1>3, CloneReaderInv
<1>4. ASSUME NEW i \in Tracker, IntoReaderAdd(i) PROVE IInv'
  BY <1>4, IntoReaderAddInv
<1>5. ASSUME NEW i \in Tracker, IntoReaderRelease(i) PROVE IInv'
  BY <1>5, IntoReaderReleaseInv
<1>6. ASSUME NEW i \in Tracker, DropTracker(i) PROVE IInv'
  BY <1>6, DropTrackerInv
<1>7. CASE UNCHANGED vars
  BY <1>7, StutterInv
<1> QED BY <1>1, <1>2, <1>3, <1>4, <1>5, <1>6, <1>7 DEF Next

\* The registry is exact, free of dangling paths and exclusive forever.
THEOREM Invariance == Spec => []IInv
BY InitInv, StepInv, PTL DEF Spec

\* Every variable keeps its type; in particular the counts stay within u32.
THEOREM TypeCorrect == Spec => []TypeOK
<1>1. IInv => TypeOK
  BY DEF IInv
<1> QED BY <1>1, Invariance, PTL

\* Whatever the order of creations, clones, downgrades and drops on however
\* many threads, a writer never coexists with a tracker comparable with it.
THEOREM WritersExclusive == Spec => []Exclusive
<1>1. IInv => Exclusive
  BY DEF IInv
<1> QED BY <1>1, Invariance, PTL

\* The tries hold one entry per live tracker: remove_lock always finds its lock.
THEOREM RegistryIsExact == Spec => []RegistryExact
<1>1. IInv => RegistryExact
  BY DEF IInv
<1> QED BY <1>1, Invariance, PTL

\* Releasing locks prunes the tries completely.
THEOREM NothingDangles == Spec => []NoDangling
<1>1. IInv => NoDangling
  BY DEF IInv
<1> QED BY <1>1, Invariance, PTL

\* The number of readers at a path is below the limit unless the entry says so.
LEMMA RoomForReader ==
    ASSUME IInv, NEW p \in Path
    PROVE  Room(p) <=> (IsVal(reads, p) => reads.val[p] # MaxCount)
<1>1. CASE IsVal(reads, p)
  <2>1. reads.val[p] = Cardinality(ReadersAt(p)) /\ reads.val[p] \in 1..MaxCount
    BY <1>1, CountFacts, TriesFit DEF IsVal, Count
  <2> QED BY <1>1, <2>1, TrackerAssumption DEF Room
<1>2. CASE ~IsVal(reads, p)
  BY <1>2, CountFacts, TrackerAssumption DEF Room
<1> QED BY <1>1, <1>2

\* path_status foretells whether a writer is granted at the path.
LEMMA StatusForWriter ==
    ASSUME IInv, NEW i \in Tracker, NEW p \in Path, NewWriter(i, p)
    PROVE  i \in Live' <=> PathStatus(p) = "Available"
<1>1. i \in Live' <=> tracker'[i] # NoTracker
  BY DEF Live
<1>2. CASE ConflictAt(p, written) # {} \/ ConflictAt(p, reads) # {}
  <2>1. tracker'[i] = NoTracker
    BY <1>2 DEF NewWriter, Refuse, Live
  <2> QED BY <1>1, <1>2, <2>1 DEF PathStatus
<1>3. CASE ConflictAt(p, written) = {} /\ ConflictAt(p, reads) = {}
  <2>1. tracker' = [tracker EXCEPT ![i] = [path |-> p, mode |-> "write"]]
    BY <1>3 DEF NewWriter, Grant
  <2>2. tracker'[i] # NoTracker
    BY <2>1, TrackerAssumption DEF IInv, TypeOK
  <2> QED BY <1>1, <1>3, <2>2 DEF PathStatus
<1> QED BY <1>2, <1>3

\* It foretells a reader as long as there is room for one more in the count.
LEMMA StatusForReader ==
    ASSUME IInv, NEW i \in Tracker, NEW p \in Path, NewReader(i, p)
    PROVE  i \in Live' <=> PathStatus(p) # "Unavailable" /\ Room(p)
<1>1. i \in Live' <=> tracker'[i] # NoTracker
  BY DEF Live
<1>2. PathStatus(p) = "Unavailable" <=> ConflictAt(p, written) # {}
  BY DEF PathStatus
<1>3. CASE ConflictAt(p, written) # {} \/ ~Room(p)
  <2>1. tracker'[i] = NoTracker
    BY <1>3, RoomForReader DEF NewReader, Refuse, Live
  <2> QED BY <1>1, <1>2, <1>3, <2>1
<1>4. CASE ConflictAt(p, written) = {} /\ Room(p)
  <2>1. tracker' = [tracker EXCEPT ![i] = [path |-> p, mode |-> "read"]]
    BY <1>4, RoomForReader DEF NewReader, Grant
  <2>2. tracker'[i] # NoTracker
    BY <2>1, TrackerAssumption DEF IInv, TypeOK
  <2> QED BY <1>1, <1>2, <1>4, <2>2
<1> QED BY <1>3, <1>4

\* A request gets what path_status says at the same instant, but for a reader too many.
THEOREM StatusForetellsRequests == Spec => StatusForetells
<1> DEFINE Foretold ==
        \A i \in Tracker, p \in Path :
            /\ NewWriter(i, p) => (i \in Live' <=> PathStatus(p) = "Available")
            /\ NewReader(i, p) =>
                   (i \in Live' <=> PathStatus(p) # "Unavailable" /\ Room(p))
<1>1. IInv /\ [Next]_vars => [Foretold]_vars
  BY StatusForWriter, StatusForReader
<1>2. StatusForetells <=> [][Foretold]_vars
  BY DEF StatusForetells
<1> HIDE DEF Foretold
<1> QED BY <1>1, <1>2, Invariance, PTL DEF Spec

\* A step that writes down a conflict is a refusal by a tracker in the way.
LEMMA ReportIsReal ==
    ASSUME IInv, Next, NEW i \in Tracker, conflict'[i] # conflict[i], conflict'[i] # NoTracker
    PROVE  /\ conflict'[i].at \in PathsOf(IF conflict'[i].with = "write" THEN Writing ELSE Reading)
           /\ Comparable(conflict'[i].path, conflict'[i].at)
<1> DEFINE Good(c) == /\ c.at \in PathsOf(IF c.with = "write" THEN Writing ELSE Reading)
                      /\ Comparable(c.path, c.at)
<1>0. conflict \in [Tracker -> Conflict \cup {NoTracker}]
  BY IInvSplit
<1>1. ASSUME NEW j \in Tracker, NEW p \in Path, NEW mode \in {"read", "write"},
             Grant(j, p, mode)
      PROVE  Good(conflict'[i])
  BY <1>0, <1>1 DEF Grant
<1>2. ASSUME NEW j \in Tracker, NEW p \in Path, NEW mode \in {"read", "write"},
             NEW with \in {"read", "write"}, NEW at \in Path, Refuse(j, p, mode, with, at),
             at \in PathsOf(IF with = "write" THEN Writing ELSE Reading), Comparable(p, at)
      PROVE  Good(conflict'[i])
  <2>1. conflict'[i] = [path |-> p, mode |-> mode, with |-> with, at |-> at]
    BY <1>0, <1>2 DEF Refuse
  <2> QED BY <1>2, <2>1
<1>3. ASSUME NEW j \in Tracker, NEW p \in Path, NewWriter(j, p)
      PROVE  Good(conflict'[i])
  <2>1. CASE \E at \in ConflictAt(p, written) : Refuse(j, p, "write", "write", at)
    BY <1>2, <2>1, ReportedLock
  <2>2. CASE \E at \in ConflictAt(p, reads) : Refuse(j, p, "write", "read", at)
    BY <1>2, <2>2, ReportedLock
  <2>3. CASE Grant(j, p, "write")
    BY <1>1, <2>3
  <2> HIDE DEF Good
  <2> QED BY <1>3, <2>1, <2>2, <2>3 DEF NewWriter
<1>4. ASSUME NEW j \in Tracker, NEW p \in Path, NewReader(j, p)
      PROVE  Good(conflict'[i])
  <2>1. CASE \E at \in ConflictAt(p, written) : Refuse(j, p, "read", "write", at)
    BY <1>2, <2>1, ReportedLock
  <2>2. CASE IsVal(reads, p) /\ Refuse(j, p, "read", "read", p)
    <3>1. p \in PathsOf(Reading) /\ Comparable(p, p)
      BY <2>2, PathFacts, PrefixOrder DEF IsVal, IInv, RegistryExact, Comparable
    <3> QED BY <1>2, <2>2, <3>1
  <2>3. CASE Grant(j, p, "read")
    BY <1>1, <2>3
  <2> HIDE DEF Good
  <2> QED BY <1>4, <2>1, <2>2, <2>3 DEF NewReader
<1>5. ASSUME NEW j \in Tracker, NEW k \in Tracker, CloneReader(j, k)
      PROVE  Good(conflict'[i])
  BY <1>1, <1>5, TrackerFacts DEF CloneReader
<1>6. ASSUME NEW j \in Tracker, IntoReaderAdd(j) \/ IntoReaderRelease(j) \/ DropTracker(j)
      PROVE  FALSE
  BY <1>6 DEF IntoReaderAdd, IntoReaderRelease, DropTracker
<1>7. Good(conflict'[i])
  <2> HIDE DEF Good
  <2> QED BY <1>3, <1>4, <1>5, <1>6 DEF Next
<1> QED BY <1>7

\* A Conflict returned to a client names a zipper that exists and is in the way.
THEOREM ConflictsAreReal == Spec => ConflictIsReal
<1> DEFINE Real == \A i \in Tracker :
                      conflict'[i] # conflict[i] /\ conflict'[i] # NoTracker
                          => /\ conflict'[i].at \in PathsOf(IF conflict'[i].with = "write" THEN Writing ELSE Reading)
                             /\ Comparable(conflict'[i].path, conflict'[i].at)
<1>1. IInv /\ [Next]_vars => [Real]_vars
  BY ReportIsReal
<1>2. ConflictIsReal <=> [][Real]_vars
  BY DEF ConflictIsReal
<1> HIDE DEF Real
<1> QED BY <1>1, <1>2, Invariance, PTL DEF Spec

\* The lock manager compares paths as the registry does.
LEMMA SameComparable == \A p, q : Locks!Comparable(p, q) <=> Comparable(p, q)
BY DEF Comparable, Locks!Comparable, IsPrefix, Locks!IsPrefix

\* What a lock manager sees of a tracker.
LEMMA HeldFacts ==
    ASSUME IInv, NEW i \in Tracker
    PROVE  /\ i \in Locks!Held <=> i \in Live
           /\ i \in Writing => HeldLocks[i] = [path |-> tracker[i].path, mode |-> "write"]
           /\ i \in Reading => HeldLocks[i].path = tracker[i].path
           /\ i \in Reading /\ i \notin Writing => HeldLocks[i] = [path |-> tracker[i].path, mode |-> "read"]
           /\ i \notin Live => HeldLocks[i] = NoTracker
<1>1. HeldLocks[i] = IF tracker[i] # NoTracker /\ tracker[i].mode = "converting"
                     THEN [path |-> tracker[i].path, mode |-> "write"] ELSE tracker[i]
  BY DEF HeldLocks
<1>2. CASE i \notin Live
  BY <1>1, <1>2 DEF Live, Locks!Held, Writing, Reading
<1>3. CASE i \in Live
  <2>1. /\ tracker[i] = [path |-> tracker[i].path, mode |-> tracker[i].mode]
        /\ tracker[i].path \in Path
        /\ tracker[i].mode \in TrackedMode
    BY <1>3, TrackerFacts
  <2>2. [path |-> tracker[i].path, mode |-> "write"] # NoTracker
    BY <2>1, TrackerAssumption
  <2> QED BY <1>1, <1>3, <2>1, <2>2 DEF Live, Locks!Held, Writing, Reading, TrackedMode
<1> QED BY <1>2, <1>3

\* A tracker in the way of a request blocks it for the lock manager.
LEMMA BlockedFacts ==
    ASSUME IInv, NEW p \in Path, NEW mode \in {"read", "write"}, NEW k \in Live,
           Comparable(p, tracker[k].path), mode = "write" \/ k \in Writing
    PROVE  Locks!Blocked([path |-> p, mode |-> mode])
<1>1. k \in Tracker /\ (k \in Writing \/ k \in Reading)
  BY TrackerFacts DEF Writing, Reading, TrackedMode
<1>2. k \in Locks!Held
  BY <1>1, HeldFacts
<1>3. k \in Writing => HeldLocks[k] = [path |-> tracker[k].path, mode |-> "write"]
  BY <1>1, HeldFacts
<1>4. HeldLocks[k].path = tracker[k].path /\ (k \in Writing => HeldLocks[k].mode = "write")
  <2>1. CASE k \in Writing
    BY <1>3, <2>1
  <2>2. CASE k \notin Writing
    BY <1>1, <2>2, HeldFacts
  <2> QED BY <2>1, <2>2
<1>5. Locks!Comparable(p, tracker[k].path)
  BY SameComparable
<1> QED BY <1>2, <1>4, <1>5 DEF Locks!Blocked, Locks!Clash

\* The lock manager's refusal, given a reason.
LEMMA RefuseRefines ==
    ASSUME IInv, NEW i \in Tracker, i \notin Live, NEW p \in Path, NEW mode \in {"read", "write"},
           NEW with \in {"read", "write"}, NEW at \in Path, Refuse(i, p, mode, with, at),
           \/ \E k \in Live : Comparable(p, tracker[k].path) /\ (mode = "write" \/ k \in Writing)
           \/ mode = "read" /\ ReadersAt(p) # {}
    PROVE  Locks!LocksNext
<1> DEFINE lock == [path |-> p, mode |-> mode]
<1>1. tracker' = tracker /\ HeldLocks' = HeldLocks
  BY DEF Refuse, HeldLocks
<1>2. RefusedRequests' = [RefusedRequests EXCEPT ![i] = lock]
  <2> DEFINE c == [path |-> p, mode |-> mode, with |-> with, at |-> at]
  <2>1. conflict' = [conflict EXCEPT ![i] = c] /\ conflict \in [Tracker -> Conflict \cup {NoTracker}]
    BY IInvSplit DEF Refuse
  <2>2. c # NoTracker
    BY TrackerAssumption
  <2>3. c.path = p /\ c.mode = mode
    OBVIOUS
  <2>4. /\ conflict'[i] = c
        /\ \A k \in Tracker : k # i => conflict'[k] = conflict[k]
    BY <2>1
  <2> HIDE DEF c
  <2>5. \A k \in Tracker : RefusedRequests'[k] = IF k = i THEN lock ELSE RefusedRequests[k]
    BY <2>2, <2>3, <2>4 DEF RefusedRequests
  <2> QED BY <2>5 DEF RefusedRequests
<1>3. i \notin Locks!Held
  BY HeldFacts
<1>4. Locks!Blocked(lock) \/ \E k \in Locks!Held : lock.mode = "read" /\ HeldLocks[k] = lock
  <2>1. CASE \E k \in Live : Comparable(p, tracker[k].path) /\ (mode = "write" \/ k \in Writing)
    BY <2>1, BlockedFacts
  <2>2. CASE mode = "read" /\ ReadersAt(p) # {}
    <3>1. PICK k \in Reading : tracker[k].path = p
      BY <2>2 DEF ReadersAt
    <3>2. k \in Live /\ k \in Tracker
      BY <3>1 DEF Reading, Live
    <3>3. CASE k \in Writing
      BY <2>2, <3>1, <3>2, <3>3, BlockedFacts, PathFacts, PrefixOrder DEF Comparable
    <3>4. CASE k \notin Writing
      BY <2>2, <3>1, <3>2, <3>4, HeldFacts
    <3> QED BY <3>3, <3>4
  <2> QED BY <2>1, <2>2
<1>5. Locks!Refuse(i, lock)
  BY <1>1, <1>2, <1>3, <1>4 DEF Locks!Refuse
<1>6. lock \in Locks!Lock
  BY DEF Locks!Lock, Locks!Mode
<1> QED BY <1>5, <1>6 DEF Locks!LocksNext

\* Granting a lock changes the two views at i only.
LEMMA GrantViews ==
    ASSUME IInv, NEW i \in Tracker, i \notin Live, NEW p \in Path,
           NEW mode \in {"read", "write"}, Grant(i, p, mode)
    PROVE  /\ i \notin Locks!Held
           /\ HeldLocks' = [HeldLocks EXCEPT ![i] = [path |-> p, mode |-> mode]]
           /\ RefusedRequests' = [RefusedRequests EXCEPT ![i] = NoTracker]
<1> DEFINE lock == [path |-> p, mode |-> mode]
<1>1. i \notin Locks!Held
  BY HeldFacts
<1>2. /\ tracker'[i] = lock
      /\ \A k \in Tracker : k # i => tracker'[k] = tracker[k]
      /\ conflict'[i] = NoTracker
      /\ \A k \in Tracker : k # i => conflict'[k] = conflict[k]
  BY IInvSplit DEF Grant
<1>3. lock.mode # "converting"
  OBVIOUS
<1> HIDE DEF lock
<1>4. \A k \in Tracker : HeldLocks'[k] = IF k = i THEN lock ELSE HeldLocks[k]
  BY <1>2, <1>3 DEF HeldLocks
<1>5. \A k \in Tracker : RefusedRequests'[k] = IF k = i THEN NoTracker ELSE RefusedRequests[k]
  BY <1>2 DEF RefusedRequests
<1>6. HeldLocks' = [HeldLocks EXCEPT ![i] = lock]
  BY <1>4 DEF HeldLocks
<1>7. RefusedRequests' = [RefusedRequests EXCEPT ![i] = NoTracker]
  BY <1>5 DEF RefusedRequests
<1> QED BY <1>1, <1>6, <1>7 DEF lock

\* Creations acquire their lock or are refused for a reason.
LEMMA NewWriterRefines ==
    ASSUME IInv, NEW i \in Tracker, NEW p \in Path, NewWriter(i, p)
    PROVE  Locks!LocksNext
<1>1. i \notin Live /\ "write" \in {"read", "write"} /\ "read" \in {"read", "write"}
  BY DEF NewWriter
<1>2. ASSUME NEW S \in {Writing, Reading}, NEW at \in PathsOf(S), Comparable(p, at)
      PROVE  \E k \in Live : Comparable(p, tracker[k].path) /\ ("write" = "write" \/ k \in Writing)
  BY <1>2 DEF PathsOf, Writing, Reading
<1>3. CASE \E at \in ConflictAt(p, written) : Refuse(i, p, "write", "write", at)
  BY <1>1, <1>2, <1>3, ReportedLock, RefuseRefines
<1>4. CASE \E at \in ConflictAt(p, reads) : Refuse(i, p, "write", "read", at)
  BY <1>1, <1>2, <1>4, ReportedLock, RefuseRefines
<1>5. CASE ConflictAt(p, written) = {} /\ ConflictAt(p, reads) = {} /\ Grant(i, p, "write")
  <2> DEFINE lock == [path |-> p, mode |-> "write"]
  <2>1. \A k \in Live : ~Comparable(p, tracker[k].path)
    BY <1>5, NoConflict, TrackerFacts DEF Reading, Writing, TrackedMode
  <2>2. \A k \in Locks!Held : k \in Live /\ HeldLocks[k].path = tracker[k].path
    <3> SUFFICES ASSUME NEW k \in Locks!Held
                 PROVE  k \in Live /\ HeldLocks[k].path = tracker[k].path
      OBVIOUS
    <3>1. k \in Live /\ (k \in Writing \/ k \in Reading)
      BY HeldFacts, TrackerFacts DEF Locks!Held, Writing, Reading, TrackedMode
    <3>2. k \in Writing => HeldLocks[k] = [path |-> tracker[k].path, mode |-> "write"]
      BY <3>1, HeldFacts DEF Live
    <3>3. k \in Reading => HeldLocks[k].path = tracker[k].path
      BY <3>1, HeldFacts DEF Live
    <3>4. [path |-> tracker[k].path, mode |-> "write"].path = tracker[k].path
      OBVIOUS
    <3> QED BY <3>1, <3>2, <3>3, <3>4
  <2>3. ~Locks!Blocked(lock)
    BY <2>1, <2>2, SameComparable DEF Locks!Blocked, Locks!Clash
  <2>4. Locks!Acquire(i, lock)
    BY <1>1, <1>5, <2>3, GrantViews DEF Locks!Acquire
  <2>5. lock \in Locks!Lock
    BY DEF Locks!Lock, Locks!Mode
  <2> QED BY <2>4, <2>5 DEF Locks!LocksNext
<1> QED BY <1>3, <1>4, <1>5 DEF NewWriter

\* A new reader is granted its lock, or refused it, in the abstract registry too.
LEMMA NewReaderRefines ==
    ASSUME IInv, NEW i \in Tracker, NEW p \in Path, NewReader(i, p)
    PROVE  Locks!LocksNext
<1>1. i \notin Live /\ "write" \in {"read", "write"} /\ "read" \in {"read", "write"}
  BY DEF NewReader
<1>2. CASE \E at \in ConflictAt(p, written) : Refuse(i, p, "read", "write", at)
  <2>1. PICK at \in PathsOf(Writing) : at \in Path /\ Comparable(p, at) /\ Refuse(i, p, "read", "write", at)
    BY <1>2, ReportedLock
  <2>2. \E k \in Live : Comparable(p, tracker[k].path) /\ ("read" = "write" \/ k \in Writing)
    BY <2>1 DEF PathsOf, Writing
  <2> QED BY <1>1, <2>1, <2>2, RefuseRefines
<1>3. CASE IsVal(reads, p) /\ Refuse(i, p, "read", "read", p)
  <2>1. ReadersAt(p) # {}
    BY <1>3, CountFacts DEF IsVal
  <2> QED BY <1>1, <1>3, <2>1, RefuseRefines
<1>4. CASE ConflictAt(p, written) = {} /\ Grant(i, p, "read")
  <2> DEFINE lock == [path |-> p, mode |-> "read"]
  <2>1. \A k \in Writing : ~Comparable(p, tracker[k].path)
    BY <1>4, NoConflict
  <2>2. ASSUME NEW k \in Locks!Held, "write" \in {lock.mode, HeldLocks[k].mode}
        PROVE  ~Locks!Comparable(lock.path, HeldLocks[k].path)
    <3>1. k \in Live /\ (k \in Writing \/ k \in Reading) /\ k \in Tracker
      BY HeldFacts, TrackerFacts DEF Locks!Held, Writing, Reading, TrackedMode
    <3>2. k \in Writing
      <4>1. ASSUME k \notin Writing
            PROVE  HeldLocks[k] = [path |-> tracker[k].path, mode |-> "read"]
        BY <3>1, <4>1, HeldFacts
      <4>2. [path |-> tracker[k].path, mode |-> "read"].mode = "read" /\ lock.mode = "read"
        OBVIOUS
      <4> QED BY <2>2, <4>1, <4>2
    <3>3. HeldLocks[k] = [path |-> tracker[k].path, mode |-> "write"]
      BY <3>1, <3>2, HeldFacts
    <3> QED BY <2>1, <3>2, <3>3, SameComparable
  <2>3. ~Locks!Blocked(lock)
    BY <2>2 DEF Locks!Blocked, Locks!Clash
  <2>4. Locks!Acquire(i, lock)
    BY <1>1, <1>4, <2>3, GrantViews DEF Locks!Acquire
  <2>5. lock \in Locks!Lock
    BY DEF Locks!Lock, Locks!Mode
  <2> QED BY <2>4, <2>5 DEF Locks!LocksNext
<1> QED BY <1>2, <1>3, <1>4 DEF NewReader

\* A clone shares its original's lock.
LEMMA CloneReaderRefines ==
    ASSUME IInv, NEW i \in Tracker, NEW j \in Tracker, CloneReader(i, j)
    PROVE  Locks!LocksNext
<1> DEFINE p == tracker[i].path
<1>1. /\ i \in Live /\ i \in Reading /\ i \notin Writing /\ p \in Path
      /\ j \notin Live /\ Grant(j, p, "read")
  BY TrackerFacts DEF CloneReader, Reading, Writing
<1>2. i \in Locks!Held /\ HeldLocks[i] = [path |-> p, mode |-> "read"]
  BY <1>1, HeldFacts
<1>3. "read" \in {"read", "write"}
  OBVIOUS
<1>4. /\ j \notin Locks!Held
      /\ HeldLocks' = [HeldLocks EXCEPT ![j] = [path |-> p, mode |-> "read"]]
      /\ RefusedRequests' = [RefusedRequests EXCEPT ![j] = NoTracker]
  BY <1>1, <1>3, GrantViews
<1>5. Locks!Share(i, j)
  <2>1. HeldLocks[i].mode = "read"
    BY <1>2
  <2> QED BY <1>2, <1>4, <2>1 DEF Locks!Share
<1> QED BY <1>5 DEF Locks!LocksNext

\* The first half of a downgrade changes nothing for the lock manager.
LEMMA IntoReaderAddRefines ==
    ASSUME IInv, NEW i \in Tracker, IntoReaderAdd(i)
    PROVE  HeldLocks' = HeldLocks /\ RefusedRequests' = RefusedRequests
<1> DEFINE p == tracker[i].path
           new == [path |-> p, mode |-> "converting"]
<1>1. /\ i \in Live /\ tracker[i].mode = "write"
      /\ tracker[i] = [path |-> p, mode |-> "write"]
      /\ p \in Path
      /\ conflict' = conflict
  BY TrackerFacts DEF IntoReaderAdd
<1>2. /\ tracker'[i] = new
      /\ \A k \in Tracker : k # i => tracker'[k] = tracker[k]
  BY <1>1, IInvSplit DEF IntoReaderAdd
<1>3. new # NoTracker
  BY <1>1, TrackerAssumption
<1>4. new.mode = "converting" /\ new.path = p
  OBVIOUS
<1> HIDE DEF new
<1>5. HeldLocks'[i] = [path |-> p, mode |-> "write"] /\ HeldLocks[i] = [path |-> p, mode |-> "write"]
  BY <1>1, <1>2, <1>3, <1>4 DEF HeldLocks
<1>6. \A k \in Tracker : HeldLocks'[k] = HeldLocks[k]
  <2>1. \A k \in Tracker : k # i => HeldLocks'[k] = HeldLocks[k]
    BY <1>2 DEF HeldLocks
  <2> QED BY <1>5, <2>1
<1>7. HeldLocks' = HeldLocks
  BY <1>6 DEF HeldLocks
<1> QED BY <1>1, <1>7 DEF RefusedRequests

\* The second half is the lock manager's downgrade.
LEMMA IntoReaderReleaseRefines ==
    ASSUME IInv, NEW i \in Tracker, IntoReaderRelease(i)
    PROVE  Locks!LocksNext
<1> DEFINE p == tracker[i].path
           old == [path |-> p, mode |-> "write"]
           new == [path |-> p, mode |-> "read"]
<1>1. /\ i \in Live /\ i \in Writing /\ tracker[i] = [path |-> p, mode |-> "converting"]
      /\ conflict' = conflict
  BY TrackerFacts DEF IntoReaderRelease, Writing
<1>2. /\ tracker'[i] = new
      /\ \A k \in Tracker : k # i => tracker'[k] = tracker[k]
  BY <1>1, IInvSplit DEF IntoReaderRelease
<1>3. i \in Locks!Held /\ HeldLocks[i] = old
  BY <1>1, HeldFacts
<1>4. HeldLocks' = [HeldLocks EXCEPT ![i] = new]
  <2>1. \A k \in Tracker : HeldLocks'[k] = IF k = i THEN new ELSE HeldLocks[k]
    BY <1>2 DEF HeldLocks
  <2> HIDE DEF new
  <2> QED BY <2>1 DEF HeldLocks
<1>5. [HeldLocks EXCEPT ![i].mode = "read"] = [HeldLocks EXCEPT ![i] = new]
  <2>1. [HeldLocks[i] EXCEPT !.mode = "read"] = new
    BY <1>3
  <2> HIDE DEF new
  <2> QED BY <2>1
<1>6. RefusedRequests' = RefusedRequests
  BY <1>1 DEF RefusedRequests
<1>7. HeldLocks[i].mode = "write"
  BY <1>3
<1>8. Locks!Downgrade(i)
  BY <1>3, <1>4, <1>5, <1>6, <1>7 DEF Locks!Downgrade
<1> QED BY <1>8 DEF Locks!LocksNext

\* Dropping a tracker releases its lock.
LEMMA DropTrackerRefines ==
    ASSUME IInv, NEW i \in Tracker, DropTracker(i)
    PROVE  Locks!LocksNext
<1>1. i \in Live /\ conflict' = conflict
  BY DEF DropTracker
<1>2. /\ tracker'[i] = NoTracker
      /\ \A k \in Tracker : k # i => tracker'[k] = tracker[k]
  BY IInvSplit DEF DropTracker
<1>3. i \in Locks!Held
  BY <1>1, HeldFacts
<1>4. HeldLocks' = [HeldLocks EXCEPT ![i] = NoTracker]
  <2>1. \A k \in Tracker : HeldLocks'[k] = IF k = i THEN NoTracker ELSE HeldLocks[k]
    BY <1>2 DEF HeldLocks
  <2> QED BY <2>1 DEF HeldLocks
<1>5. RefusedRequests' = RefusedRequests
  BY <1>1 DEF RefusedRequests
<1>6. Locks!Release(i)
  BY <1>3, <1>4, <1>5 DEF Locks!Release
<1> QED BY <1>6 DEF Locks!LocksNext

\* At the start nobody holds a lock.
LEMMA InitRefines == Init => Locks!LocksInit
BY DEF Init, Locks!LocksInit, HeldLocks, RefusedRequests

\* Each step of the registry is one of the locks, or none.
LEMMA StepRefines == IInv /\ [Next]_vars => [Locks!LocksNext]_Locks!locksVars
<1> SUFFICES ASSUME IInv, [Next]_vars PROVE [Locks!LocksNext]_Locks!locksVars
  OBVIOUS
<1>1. ASSUME NEW i \in Tracker, NEW p \in Path, NewWriter(i, p) PROVE Locks!LocksNext
  BY <1>1, NewWriterRefines
<1>2. ASSUME NEW i \in Tracker, NEW p \in Path, NewReader(i, p) PROVE Locks!LocksNext
  BY <1>2, NewReaderRefines
<1>3. ASSUME NEW i \in Tracker, NEW j \in Tracker, CloneReader(i, j) PROVE Locks!LocksNext
  BY <1>3, CloneReaderRefines
<1>4. ASSUME NEW i \in Tracker, IntoReaderAdd(i)
      PROVE  HeldLocks' = HeldLocks /\ RefusedRequests' = RefusedRequests
  BY <1>4, IntoReaderAddRefines
<1>5. ASSUME NEW i \in Tracker, IntoReaderRelease(i) PROVE Locks!LocksNext
  BY <1>5, IntoReaderReleaseRefines
<1>6. ASSUME NEW i \in Tracker, DropTracker(i) PROVE Locks!LocksNext
  BY <1>6, DropTrackerRefines
<1>7. CASE UNCHANGED vars
  BY <1>7 DEF vars, Locks!locksVars, HeldLocks, RefusedRequests
<1> QED BY <1>1, <1>2, <1>3, <1>4, <1>5, <1>6, <1>7 DEF Next, Locks!locksVars

\* The registry with its tries and counters implements the lock manager: every
\* step is a step of PathLocks, or the first half of a downgrade, which it
\* does not see.
THEOREM RegistryImplementsLocks == Spec => ImplementsLocks
BY InitRefines, StepRefines, Invariance, PTL DEF Spec, ImplementsLocks, Locks!LocksSpec
===============================================================================
