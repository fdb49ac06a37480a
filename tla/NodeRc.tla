-------------------------------- MODULE NodeRc --------------------------------
(***************************************************************************)
(* The reference count of one trie node, TrieNodeODRc with slim_ptrs       *)
(* (src/src/trie_node.rs).  Maps, zippers and parent nodes on any thread   *)
(* hold handles to the node; clone, drop and make_unique are sequences of  *)
(* atomic operations on its 32-bit counter, one action per operation, and  *)
(* operations on different handles interleave freely.  Past MaxRefcount    *)
(* the counter is pinned at Saturation and the node leaks.                 *)
(*                                                                         *)
(* Acquire and Release order the accesses to the node's contents with the  *)
(* counter; the model is sequentially consistent and says nothing of weaker*)
(* orderings.                                                              *)
(***************************************************************************)
EXTENDS Integers, FiniteSets

CONSTANTS Handle,       \* identities of TrieNodeODRc values
          First,        \* the handle made by new_in
          Threads,      \* how many operations can be under way at once
          MaxRefcount,  \* 0x7FFFFFFF in the code
          Saturation,   \* REFCOUNT_SATURATION_VAL, 0xBFFFFFFF
          Wrap,         \* 2^32
          PromptStores  \* is no thread held up between fetch_sub and store
                        \* while MaxRefcount other handles are dropped?

\* The two gaps that the comment on REFCOUNT_SATURATION_VAL asks for: no number
\* of threads can bring a saturated counter below MaxRefcount, or around.
ASSUME NodeRcAssumption ==
    /\ IsFiniteSet(Handle) /\ First \in Handle
    /\ Threads \in Nat /\ MaxRefcount \in Nat \ {0} /\ Saturation \in Nat /\ Wrap \in Nat
    /\ MaxRefcount + Threads < Saturation
    /\ Saturation + Threads < Wrap
    /\ PromptStores \in BOOLEAN

VARIABLES count,     \* the node's AtomicU32
          stage,     \* Handle -> what its owner is doing with it
          freed,     \* has the node been deallocated?
          saturated  \* history: has the counter been seen past MaxRefcount, and
                     \* has it been pinned at Saturation?

vars == <<count, stage, freed, saturated>>

(***************************************************************************)
(* none             not a handle of this node (not yet, or not any more)   *)
(* live             at rest, or being read through                         *)
(* clone_saturate   made by fetch_add, its counter is about to be pinned   *)
(* drop_saturate    given up by fetch_sub, the counter is about to be      *)
(*                  pinned                                                 *)
(* drop_free        given up as the last one, the node is about to go      *)
(* unique_store     compare_exchange has put 0 for 1                       *)
(* mutable          make_mut has returned, the node is being written       *)
(* copying          compare_exchange has failed, clone_self is reading     *)
(***************************************************************************)
Stage == {"none", "live", "clone_saturate", "drop_saturate", "drop_free",
          "unique_store", "mutable", "copying"}

At(s) == {h \in Handle : stage[h] = s}
Busy == Handle \ (At("none") \cup At("live"))
\* The handles that keep the node alive.
Counted == Handle \ (At("none") \cup At("drop_saturate") \cup At("drop_free"))

Move(h, s) == stage' = [stage EXCEPT ![h] = s]
HasThread == Cardinality(Busy) < Threads

\* No operation finds a single reference while a drop that saw the counter past
\* MaxRefcount has still to pin it.
Prompt == PromptStores /\ At("drop_saturate") # {} => count # 1

See == saturated' = IF saturated = "no" /\ count > MaxRefcount THEN "seen" ELSE saturated
-------------------------------------------------------------------------------
(* Mutated forms of definitions below; each is a mistake a property excludes. *)

\* the decrement of a saturated counter is kept
DropSub_NoSaturation(h, s) ==
    /\ stage[h] = s
    /\ s = "live" => HasThread
    /\ Prompt
    /\ count' = (count - 1) % Wrap
    /\ Move(h, IF count = 1 THEN "drop_free" ELSE "none")
    /\ See
    /\ UNCHANGED freed

\* takes two references for one
UniqueCas_OffByOne(h) ==
    /\ stage[h] = "live"
    /\ HasThread
    /\ Prompt
    /\ IF count \in {1, 2}
       THEN count' = 0 /\ Move(h, "unique_store")
       ELSE UNCHANGED count /\ Move(h, "copying")
    /\ UNCHANGED <<freed, saturated>>

\* forgets to restore the counter
UniqueStore_NoStore(h) ==
    /\ stage[h] = "unique_store"
    /\ Move(h, "mutable")
    /\ UNCHANGED <<count, freed, saturated>>

\* frees when one reference is left
DropSub_FreesEarly(h, s) ==
    /\ stage[h] = s
    /\ s = "live" => HasThread
    /\ Prompt
    /\ count' = (count - 1) % Wrap
    /\ Move(h, IF count > MaxRefcount THEN "drop_saturate"
               ELSE IF count <= 2 THEN "drop_free" ELSE "none")
    /\ See
    /\ UNCHANGED freed

\* does not notice that it was the last one
DropSub_NeverFrees(h, s) ==
    /\ stage[h] = s
    /\ s = "live" => HasThread
    /\ Prompt
    /\ count' = (count - 1) % Wrap
    /\ Move(h, IF count > MaxRefcount THEN "drop_saturate" ELSE "none")
    /\ See
    /\ UNCHANGED freed

\* clone does not look at the count it found
CloneAdd_NoSaturation(h, new) ==
    /\ stage[h] = "live"
    /\ stage[new] = "none"
    /\ HasThread
    /\ count' = (count + 1) % Wrap
    /\ Move(new, "live")
    /\ See
    /\ UNCHANGED freed
-------------------------------------------------------------------------------
Init == /\ count = 1
        /\ stage = [h \in Handle |-> IF h = First THEN "live" ELSE "none"]
        /\ freed = FALSE
        /\ saturated = "no"

\* clone: fetch_add through a handle that exists.  (The borrow of h ends here,
\* earlier than in the code, where it lasts until the clone is complete.)
CloneAdd(h, new) ==
    /\ stage[h] = "live"
    /\ stage[new] = "none"
    /\ HasThread
    /\ count' = (count + 1) % Wrap
    /\ Move(new, IF count > MaxRefcount THEN "clone_saturate" ELSE "live")
    /\ See
    /\ UNCHANGED freed

CloneSaturate(h) ==
    /\ stage[h] = "clone_saturate"
    /\ count' = Saturation
    /\ saturated' = "pinned"
    /\ Move(h, "live")
    /\ UNCHANGED freed

\* drop: fetch_sub of a handle at rest, or of the old handle that make_unique
\* replaces with its copy.
DropSub(h, s) ==
    /\ stage[h] = s
    /\ s = "live" => HasThread
    /\ Prompt
    /\ count' = (count - 1) % Wrap
    /\ Move(h, IF count > MaxRefcount THEN "drop_saturate"
               ELSE IF count = 1 THEN "drop_free" ELSE "none")
    /\ See
    /\ UNCHANGED freed

DropSaturate(h) ==
    /\ stage[h] = "drop_saturate"
    /\ count' = Saturation
    /\ saturated' = "pinned"
    /\ Move(h, "none")
    /\ UNCHANGED freed

\* drop's Acquire load and drop_inner_in.
DropFree(h) ==
    /\ stage[h] = "drop_free"
    /\ freed' = TRUE
    /\ Move(h, "none")
    /\ UNCHANGED <<count, saturated>>

\* make_unique: compare_exchange(1, 0).
UniqueCas(h) ==
    /\ stage[h] = "live"
    /\ HasThread
    /\ Prompt
    /\ IF count = 1
       THEN count' = 0 /\ Move(h, "unique_store")
       ELSE UNCHANGED count /\ Move(h, "copying")
    /\ UNCHANGED <<freed, saturated>>

UniqueStore(h) ==
    /\ stage[h] = "unique_store"
    /\ count' = 1
    /\ Move(h, "mutable")
    /\ UNCHANGED <<freed, saturated>>

\* The mutable borrow returned by make_mut ends.
EndMutation(h) ==
    /\ stage[h] = "mutable"
    /\ Move(h, "live")
    /\ UNCHANGED <<count, freed, saturated>>

Clone(h) == \E new \in Handle : CloneAdd(h, new)
Drop(h) == DropSub(h, "live")
DropCopied(h) == DropSub(h, "copying")

\* The steps that finish what was begun.
Finish(h) ==
    \/ CloneSaturate(h)
    \/ DropSaturate(h)
    \/ DropFree(h)
    \/ UniqueStore(h)
    \/ EndMutation(h)
    \/ DropCopied(h)

Next == \E h \in Handle : Clone(h) \/ Drop(h) \/ UniqueCas(h) \/ Finish(h)

Spec == Init /\ [][Next]_vars

\* A thread that is inside clone, drop or make_unique is scheduled again; that
\* handles are dropped at all is up to their owners.
FairSpec == Spec /\ \A h \in Handle : WF_vars(Finish(h))
-------------------------------------------------------------------------------
\* What kinds of values the variables have; the proofs use it.
TypeOK == /\ count \in 0..(Wrap - 1)
          /\ stage \in [Handle -> Stage]
          /\ freed \in BOOLEAN
          /\ saturated \in {"no", "seen", "pinned"}

\* The node outlives its handles: whoever still reads, copies or writes it does
\* so before it is freed.  The debug assertion in drop (trie_node.rs:3139) holds:
\* the count is 0 when the last handle has gone, and only one drop frees.
NoUseAfterFree ==
    /\ freed => Counted = {} /\ At("drop_free") = {}
    /\ \A h \in At("drop_free") : count = 0 /\ Counted = {} /\ At("drop_free") = {h}

\* make_mut's promise (trie_node.rs:3290): nobody else can see a node that is
\* being written.
ExclusiveMutation ==
    \A h \in At("unique_store") \cup At("mutable") : Counted = {h}

\* The counter counts, until it saturates.
CountExact ==
    saturated # "pinned" => count = Cardinality(Counted \ At("unique_store"))

\* "also very far from wrapping" (trie_node.rs:3070): no fetch_add carries the
\* counter from its largest value to 0 and no fetch_sub the other way, however many
\* pinned references are cloned and whatever pins are still to come.
NeverWraps ==
    [][\A h \in Handle :
          /\ Clone(h) => count' = count + 1
          /\ Drop(h) \/ DropCopied(h) => count' = count - 1]_vars

\* "a saturated value can never un-saturate" (trie_node.rs:3072), whatever clones
\* and drops are between their fetch and their store.
StaysSaturated == saturated = "pinned" => count > MaxRefcount /\ ~freed /\ At("drop_free") = {}

\* "if we ever see this value, we stop incrementing and decrementing the refcount,
\* and effectively leak the node it points to" (trie_node.rs:3066).
SeenIsLeaked == saturated # "no" => ~freed

\* A node that has lost its last handle is freed, unless its counter saturated.
EventuallyFreed == []<>(Counted = {} => freed \/ saturated = "pinned")
===============================================================================
