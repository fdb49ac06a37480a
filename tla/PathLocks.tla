------------------------------ MODULE PathLocks -------------------------------
(***************************************************************************)
(* What the registry of outstanding zippers promises to the zipper heads:  *)
(* readers share a path, a writer has its path and everything below it to  *)
(* itself, and a request is refused only because of a zipper that really   *)
(* is in the way.  No trie, no counters, no steps in between.              *)
(***************************************************************************)
EXTENDS PathTrie

CONSTANTS Tracker,   \* identities of ZipperTracker objects
          NoTracker  \* state of an identity that is not in use

VARIABLES holds,     \* Tracker -> NoTracker or the path and mode held
          refused    \* Tracker -> NoTracker or the request refused last

locksVars == <<holds, refused>>

Mode == {"read", "write"}
Lock == [path : Path, mode : Mode]

Held == {i \in Tracker : holds[i] # NoTracker}

\* Two locks that may not be held together.
Clash(a, b) == Comparable(a.path, b.path) /\ "write" \in {a.mode, b.mode}

Blocked(lock) == \E i \in Held : Clash(lock, holds[i])

LocksInit == /\ holds = [i \in Tracker |-> NoTracker]
             /\ refused = [i \in Tracker |-> NoTracker]

Acquire(i, lock) ==
    /\ i \notin Held
    /\ ~Blocked(lock)
    /\ holds' = [holds EXCEPT ![i] = lock]
    /\ refused' = [refused EXCEPT ![i] = NoTracker]

\* A request may be refused when a lock is in the way, or, for a reader, when
\* there already is a reader at this very path (its count may be at the limit).
Refuse(i, lock) ==
    /\ i \notin Held
    /\ \/ Blocked(lock)
       \/ \E j \in Held : lock.mode = "read" /\ holds[j] = lock
    /\ refused' = [refused EXCEPT ![i] = lock]
    /\ UNCHANGED holds

Share(i, j) ==
    /\ i \in Held
    /\ holds[i].mode = "read"
    /\ j \notin Held
    /\ holds' = [holds EXCEPT ![j] = holds[i]]
    /\ refused' = [refused EXCEPT ![j] = NoTracker]

Downgrade(i) ==
    /\ i \in Held
    /\ holds[i].mode = "write"
    /\ holds' = [holds EXCEPT ![i].mode = "read"]
    /\ UNCHANGED refused

Release(i) ==
    /\ i \in Held
    /\ holds' = [holds EXCEPT ![i] = NoTracker]
    /\ UNCHANGED refused

LocksNext ==
    \E i \in Tracker :
        \/ \E lock \in Lock : Acquire(i, lock) \/ Refuse(i, lock)
        \/ \E j \in Tracker : Share(i, j)
        \/ Downgrade(i)
        \/ Release(i)

LocksSpec == LocksInit /\ [][LocksNext]_locksVars
===============================================================================
