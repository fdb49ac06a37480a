---------------------------- MODULE ZipperTracking ----------------------------
(***************************************************************************)
(* The registry of outstanding zippers, src/src/zipper_tracking.rs.  Every *)
(* ZipperTracker registers its path in one of two tries shared by all the  *)
(* zippers of a zipper head: `written` holds the paths of write zippers,   *)
(* `reads` counts the read zippers at each path.  One action is one        *)
(* critical section of SharedTrackerPaths::with_paths; trackers live on    *)
(* any thread, so critical sections of different trackers interleave       *)
(* freely, also between the two halves of into_reader.                     *)
(***************************************************************************)
EXTENDS PathTrie

CONSTANTS Tracker,      \* identities of ZipperTracker objects
          NoTracker,    \* state of an identity that is not in use
          MaxCount      \* largest reader count (u32::MAX in the code)

ASSUME TrackerAssumption ==
    /\ IsFiniteSet(Tracker)
    /\ MaxCount \in Nat \ {0}
    /\ NoTracker \notin [path : Path, mode : {"read", "write", "converting"}]
    /\ NoTracker \notin [path : Path, mode : {"read", "write"},
                         with : {"read", "write"}, at : Path]

VARIABLES written,  \* trie of the paths with a write lock
          reads,    \* trie of the reader counts
          tracker,  \* Tracker -> NoTracker or the path and mode it tracks
          conflict, \* Tracker -> NoTracker or the refused request and its Conflict
          panicked  \* has remove_lock found its lock missing?

vars == <<written, reads, tracker, conflict, panicked>>

TrackedMode == {"read", "write", "converting"}
Count == 1..MaxCount  \* NonZeroU32
Unit == "()"  \* the value of a write lock
Conflict == [path : Path, mode : {"read", "write"}, with : {"read", "write"}, at : Path]

-------------------------------------------------------------------------------
(* Mutated forms of definitions below; each is a mistake a property excludes. *)

\* looks only at locks above the path, not below it
ConflictAt_AboveOnly(path, t) ==
    LET along == {v \in DOMAIN t.val : IsPrefix(v, path)}
    IN IF along = {} THEN {} ELSE {FirstOf(along)}

\* forgets that to_next_val leaves the subtrie of a path that does not exist
ConflictAt_NoDepthTest(path, t) ==
    LET along == {v \in DOMAIN t.val : IsPrefix(v, path)}
        after == ValsAfter(t, path)
    IN IF along # {} THEN {FirstOf(along)}
       ELSE IF after # {} THEN {FirstOf(after)} ELSE {}

\* remove_val(false)
WithoutWriter_NoPrune(p) == RemoveVal(written, p, FALSE, 0)

\* an entry is never taken out, and a count of 0 is no NonZeroU32
WithoutReader_KeepsZero(p) == SetVal(reads, p, reads.val[p] - 1)

\* the first reader to go takes the lock of all of them
WithoutReader_NoCount(p) == RemoveVal(reads, p, TRUE, 0)

\* a clone shares the entry without counting
WithReaderUnchecked_NoCount(p) == SetVal(reads, p, 1)

\* asks the readers only
PathStatus_ReadsFirst(p) ==
    CASE \E v \in DOMAIN reads.val : IsPrefix(v, p) -> "AvailableForReading"
      [] \E v \in DOMAIN written.val : Comparable(v, p) -> "Unavailable"
      [] OTHER -> "Available"
-------------------------------------------------------------------------------

\* check_for_write_conflict and check_for_read_conflict: the path of the lock
\* that conflicts with a lock on all of `path`, as a set of at most one path.
\* The walk along `path` stops at the first value.  Reaching the end of a path
\* that exists, to_next_val looks for a value further on in the whole trie.
ConflictAt(path, t) ==
    LET along == {v \in DOMAIN t.val : IsPrefix(v, path)}
        after == ValsAfter(t, path)
    IN IF along # {} THEN {FirstOf(along)}
       ELSE IF path \in t.paths /\ after # {} THEN {FirstOf(after)} ELSE {}

\* try_add_reader's and add_reader_unchecked's changes of the entry at p.
WithReader(p) ==
    SetVal(reads, p, IF IsVal(reads, p) THEN reads.val[p] + 1 ELSE 1)
WithReaderUnchecked(p) ==
    SetVal(reads, p, IF IsVal(reads, p) THEN (reads.val[p] + 1) % (MaxCount + 1) ELSE 1)

\* remove_lock's changes of the two tries.
WithoutReader(p) ==
    IF reads.val[p] = 1 THEN RemoveVal(reads, p, TRUE, 0)
    ELSE SetVal(reads, p, reads.val[p] - 1)
WithoutWriter(p) == RemoveVal(written, p, TRUE, 0)

Live == {i \in Tracker : tracker[i] # NoTracker}
Reading == {i \in Live : tracker[i].mode \in {"read", "converting"}}
Writing == {i \in Live : tracker[i].mode \in {"write", "converting"}}
ReadersAt(p) == {i \in Reading : tracker[i].path = p}

\* The bound on clients: clone's increment is unchecked and would make u32::MAX a
\* NonZeroU32 of 0; nobody clones a reader of a path that has as many as can be counted.
Room(p) == Cardinality(ReadersAt(p)) < MaxCount

Init == /\ written = EmptyTrie
        /\ reads = EmptyTrie
        /\ tracker = [i \in Tracker |-> NoTracker]
        /\ conflict = [i \in Tracker |-> NoTracker]
        /\ panicked = FALSE

Grant(i, p, mode) ==
    /\ tracker' = [tracker EXCEPT ![i] = [path |-> p, mode |-> mode]]
    /\ conflict' = [conflict EXCEPT ![i] = NoTracker]
    /\ UNCHANGED panicked

Refuse(i, p, mode, with, at) ==
    /\ conflict' = [conflict EXCEPT ![i] = [path |-> p, mode |-> mode, with |-> with, at |-> at]]
    /\ UNCHANGED <<written, reads, tracker, panicked>>

\* ZipperTracker::<TrackingWrite>::new, try_add_writer: written paths first.
NewWriter(i, p) ==
    /\ i \notin Live
    /\ \/ \E at \in ConflictAt(p, written) : Refuse(i, p, "write", "write", at)
       \/ /\ ConflictAt(p, written) = {}
          /\ \E at \in ConflictAt(p, reads) : Refuse(i, p, "write", "read", at)
       \/ /\ ConflictAt(p, written) = {}
          /\ ConflictAt(p, reads) = {}
          /\ written' = SetVal(written, p, Unit)
          /\ UNCHANGED reads
          /\ Grant(i, p, "write")

\* A mutated form of NewReader: no checked_add.
NewReader_Wraps(i, p) ==
    /\ i \notin Live
    /\ \/ \E at \in ConflictAt(p, written) : Refuse(i, p, "read", "write", at)
       \/ /\ ConflictAt(p, written) = {}
          /\ reads' = WithReaderUnchecked(p)
          /\ UNCHANGED written
          /\ Grant(i, p, "read")

\* ZipperTracker::<TrackingRead>::new, try_add_reader.
NewReader(i, p) ==
    /\ i \notin Live
    /\ \/ \E at \in ConflictAt(p, written) : Refuse(i, p, "read", "write", at)
       \/ /\ ConflictAt(p, written) = {}
          /\ IsVal(reads, p) /\ reads.val[p] = MaxCount
          /\ Refuse(i, p, "read", "read", p)
       \/ /\ ConflictAt(p, written) = {}
          /\ IsVal(reads, p) => reads.val[p] # MaxCount
          /\ reads' = WithReader(p)
          /\ UNCHANGED written
          /\ Grant(i, p, "read")

\* Clone for ZipperTracker<TrackingRead>.
CloneReader(i, j) ==
    /\ i \in Live
    /\ tracker[i].mode = "read"
    /\ Room(tracker[i].path)
    /\ j \notin Live
    /\ reads' = WithReaderUnchecked(tracker[i].path)
    /\ UNCHANGED written
    /\ Grant(j, tracker[i].path, "read")

\* into_reader, first critical section: the reader is added before the write
\* lock goes, without a check.
IntoReaderAdd(i) ==
    /\ i \in Live
    /\ tracker[i].mode = "write"
    /\ reads' = WithReaderUnchecked(tracker[i].path)
    /\ tracker' = [tracker EXCEPT ![i].mode = "converting"]
    /\ UNCHANGED <<written, conflict, panicked>>

\* remove_lock::<TrackingWrite>, also the second half of into_reader.
RemoveWriteLock(p) ==
    /\ written' = IF IsVal(written, p) THEN WithoutWriter(p) ELSE written
    /\ panicked' = (panicked \/ ~IsVal(written, p))
    /\ UNCHANGED reads

\* remove_lock::<TrackingRead>.
RemoveReadLock(p) ==
    /\ reads' = IF IsVal(reads, p) THEN WithoutReader(p) ELSE reads
    /\ panicked' = (panicked \/ ~IsVal(reads, p))
    /\ UNCHANGED written

IntoReaderRelease(i) ==
    /\ i \in Live
    /\ tracker[i].mode = "converting"
    /\ RemoveWriteLock(tracker[i].path)
    /\ tracker' = [tracker EXCEPT ![i].mode = "read"]
    /\ UNCHANGED conflict

\* Drop for ZipperTracker.
DropTracker(i) ==
    /\ i \in Live
    /\ \/ tracker[i].mode = "write" /\ RemoveWriteLock(tracker[i].path)
       \/ tracker[i].mode = "read" /\ RemoveReadLock(tracker[i].path)
    /\ tracker' = [tracker EXCEPT ![i] = NoTracker]
    /\ UNCHANGED conflict

Next ==
    \E i \in Tracker :
        \/ \E p \in Path : NewWriter(i, p) \/ NewReader(i, p)
        \/ \E j \in Tracker : CloneReader(i, j)
        \/ IntoReaderAdd(i)
        \/ IntoReaderRelease(i)
        \/ DropTracker(i)

Spec == Init /\ [][Next]_vars

\* SharedTrackerPaths::path_status, a critical section that changes nothing.
PathStatus(p) ==
    CASE ConflictAt(p, written) # {} -> "Unavailable"
      [] ConflictAt(p, written) = {} /\ ConflictAt(p, reads) # {} -> "AvailableForReading"
      [] OTHER -> "Available"
-------------------------------------------------------------------------------
PathsOf(S) == {tracker[i].path : i \in S}

TypeOK ==
    /\ written \in TrieOf({Unit})
    /\ reads \in TrieOf(Count)
    /\ tracker \in [Tracker -> [path : Path, mode : TrackedMode] \cup {NoTracker}]
    /\ conflict \in [Tracker -> Conflict \cup {NoTracker}]
    /\ panicked \in BOOLEAN

\* The book (1.03.00_multi_zipper.md:21): "there can either be one
\* write-enabled zipper, or many read-only zippers, but never both at the same
\* time".  Two trackers whose paths are comparable are both readers, whatever the
\* order in which they were created, cloned, downgraded and dropped: what every
\* zipper head relies on when it hands out mutable references.
Exclusive ==
    \A i, j \in Live :
        i # j /\ Comparable(tracker[i].path, tracker[j].path)
            => tracker[i].mode = "read" /\ tracker[j].mode = "read"

\* The two tries say exactly which trackers are alive: one write lock for each
\* writer, one count for each reader.  Hence remove_lock never panics with
\* "Lock is missing" and never releases the lock of another tracker.
RegistryExact ==
    /\ DOMAIN written.val = PathsOf(Writing)
    /\ DOMAIN reads.val = PathsOf(Reading)
    /\ \A p \in DOMAIN reads.val : reads.val[p] = Cardinality(ReadersAt(p))
    /\ ~panicked

\* Released locks leave no dangling path in either trie.  The conflict checks
\* rely on it: to_next_val from a dangling path walks into the rest of the trie.
NoDangling == Pruned(written) /\ Pruned(reads)

\* The comment on path_status (zipper_tracking.rs:225) says that the status is what
\* a request at the same instant would have got.  It is, except that the status does
\* not know of the limit of the reader count, which try_add_reader reports as a
\* conflict (268-273): a request for a reader fails if and only if the path is
\* Unavailable or as many readers as can be counted are alive at that very path.
StatusForetells ==
    [][\A i \in Tracker, p \in Path :
          /\ NewWriter(i, p) => (i \in Live' <=> PathStatus(p) = "Available")
          /\ NewReader(i, p) =>
                 (i \in Live' <=> PathStatus(p) # "Unavailable" /\ Room(p))]_vars

\* A refusal names a zipper that is alive and in the way: the Conflict's kind
\* and path are those of a tracker whose path is comparable with the request.
ConflictIsReal ==
    [][\A i \in Tracker :
          conflict'[i] # conflict[i] /\ conflict'[i] # NoTracker
              => /\ conflict'[i].at \in PathsOf(IF conflict'[i].with = "write" THEN Writing ELSE Reading)
                 /\ Comparable(conflict'[i].path, conflict'[i].at)]_vars

\* A writer being downgraded counts as a writer until its write lock is gone.
HeldLocks ==
    [i \in Tracker |-> IF tracker[i] # NoTracker /\ tracker[i].mode = "converting"
                       THEN [path |-> tracker[i].path, mode |-> "write"]
                       ELSE tracker[i]]
RefusedRequests ==
    [i \in Tracker |-> IF conflict[i] = NoTracker THEN NoTracker
                       ELSE [path |-> conflict[i].path, mode |-> conflict[i].mode]]

Locks == INSTANCE PathLocks WITH holds <- HeldLocks, refused <- RefusedRequests

\* The registry implements the abstract lock manager: in particular it never
\* refuses a request that no zipper stands in the way of.
ImplementsLocks == Locks!LocksSpec
===============================================================================
