----------------------------- MODULE NodeRcProofs -----------------------------
(***************************************************************************)
(* For any number of handles, threads and any thresholds with the gaps of  *)
(* NodeRcAssumption: the reference count never frees a node early, make_mut*)
(* is exclusive, and a pinned counter stays pinned.  The safety part needs *)
(* PromptStores; liveness is left to TLC.                                  *)
(***************************************************************************)
EXTENDS NodeRc, FiniteSetTheorems, TLAPS

\* The handles the counter counts.
Held == Counted \ At("unique_store")

\* How far the pending pins and unpinned increments can move the counter.
Bounds ==
    /\ Cardinality(Busy) <= Threads
    /\ saturated # "pinned" =>
           Cardinality(Held) <= MaxRefcount + 1 + Cardinality(At("clone_saturate"))
    /\ saturated = "pinned" =>
           /\ Saturation - Cardinality(At("drop_saturate")) <= count
           /\ count <= Saturation + Cardinality(At("clone_saturate"))

\* Nobody can be taking the node for himself while it is pinned or about to be.
NoPinUnderWay ==
    saturated = "pinned" \/ At("drop_saturate") # {}
        => ~freed /\ At("drop_free") = {} /\ At("unique_store") = {}

IInv == /\ TypeOK /\ NoUseAfterFree /\ ExclusiveMutation /\ CountExact
        /\ Bounds /\ NoPinUnderWay

\* Counting handles.
LEMMA CardFacts ==
    ASSUME NEW S \in SUBSET Handle
    PROVE  /\ IsFiniteSet(S)
           /\ Cardinality(S) \in Nat
           /\ Cardinality(S) = 0 <=> S = {}
           /\ \A h \in S : Cardinality(S \ {h}) = Cardinality(S) - 1
           /\ \A h \in Handle \ S : Cardinality(S \cup {h}) = Cardinality(S) + 1
           /\ \A T \in SUBSET S : Cardinality(T) <= Cardinality(S)
<1>1. IsFiniteSet(S)
  BY FS_Subset, NodeRcAssumption
<1> QED BY <1>1, FS_CardinalityType, FS_EmptySet, FS_RemoveElement, FS_AddElement, FS_Subset

\* A move changes the stage of one handle.
LEMMA MoveFacts ==
    ASSUME TypeOK, NEW h \in Handle, NEW s \in Stage, Move(h, s)
    PROVE  /\ stage' \in [Handle -> Stage]
           /\ stage'[h] = s
           /\ \A g \in Handle : g # h => stage'[g] = stage[g]
BY DEF TypeOK, Move

\* Which handles belong to which set.
LEMMA Membership ==
    /\ \A h, s : h \in At(s) <=> h \in Handle /\ stage[h] = s
    /\ \A h : h \in Busy <=> h \in Handle /\ stage[h] \notin {"none", "live"}
    /\ \A h : h \in Counted <=> h \in Handle /\ stage[h] \notin {"none", "drop_saturate", "drop_free"}
    /\ \A h : h \in Held <=> h \in Handle /\ stage[h] \notin {"none", "drop_saturate", "drop_free", "unique_store"}
BY DEF At, Busy, Counted, Held

\* The same of the next state.
LEMMA MembershipNext ==
    /\ \A h, s : h \in At(s)' <=> h \in Handle /\ stage'[h] = s
    /\ \A h : h \in Busy' <=> h \in Handle /\ stage'[h] \notin {"none", "live"}
    /\ \A h : h \in Counted' <=> h \in Handle /\ stage'[h] \notin {"none", "drop_saturate", "drop_free"}
    /\ \A h : h \in Held' <=> h \in Handle /\ stage'[h] \notin {"none", "drop_saturate", "drop_free", "unique_store"}
BY DEF At, Busy, Counted, Held

\* What one move does to each set of handles.
Changed(S, T, h, in) == T = IF in THEN S \cup {h} ELSE S \ {h}

\* A move puts its handle into the sets of the new stage, and takes it out of the others.
LEMMA SetsMove ==
    ASSUME TypeOK, NEW h \in Handle, NEW s \in Stage, Move(h, s)
    PROVE  /\ \A t : Changed(At(t), At(t)', h, s = t)
           /\ Changed(Busy, Busy', h, s \notin {"none", "live"})
           /\ Changed(Counted, Counted', h, s \notin {"none", "drop_saturate", "drop_free"})
           /\ Changed(Held, Held', h, s \notin {"none", "drop_saturate", "drop_free", "unique_store"})
<1>1. /\ stage'[h] = s
      /\ \A g \in Handle : g # h => stage'[g] = stage[g]
  BY MoveFacts
<1>2. ASSUME NEW t PROVE Changed(At(t), At(t)', h, s = t)
  BY <1>1, Membership, MembershipNext DEF Changed
<1>3. Changed(Busy, Busy', h, s \notin {"none", "live"})
  BY <1>1, Membership, MembershipNext DEF Changed
<1>4. Changed(Counted, Counted', h, s \notin {"none", "drop_saturate", "drop_free"})
  BY <1>1, Membership, MembershipNext DEF Changed
<1>5. Changed(Held, Held', h, s \notin {"none", "drop_saturate", "drop_free", "unique_store"})
  BY <1>1, Membership, MembershipNext DEF Changed
<1> QED BY <1>2, <1>3, <1>4, <1>5

\* The cardinalities that follow from it.
LEMMA CardMove ==
    ASSUME NEW S \in SUBSET Handle, NEW T, NEW h \in Handle, NEW in \in BOOLEAN, Changed(S, T, h, in)
    PROVE  /\ T \in SUBSET Handle
           /\ Cardinality(S) \in Nat /\ Cardinality(T) \in Nat
           /\ Cardinality(T) = Cardinality(S) + (IF in THEN 1 ELSE 0) - (IF h \in S THEN 1 ELSE 0)
<1>1. T \in SUBSET Handle
  BY DEF Changed
<1>2. CASE in /\ h \in S
  <2>1. T = S
    BY <1>2 DEF Changed
  <2> QED BY <1>1, <1>2, <2>1, CardFacts
<1>3. CASE in /\ h \notin S
  <2>1. T = S \cup {h}
    BY <1>3 DEF Changed
  <2> QED BY <1>1, <1>3, <2>1, CardFacts
<1>4. CASE ~in /\ h \in S
  <2>1. T = S \ {h}
    BY <1>4 DEF Changed
  <2> QED BY <1>1, <1>4, <2>1, CardFacts
<1>5. CASE ~in /\ h \notin S
  <2>1. T = S
    BY <1>5 DEF Changed
  <2> QED BY <1>1, <1>5, <2>1, CardFacts
<1> QED BY <1>2, <1>3, <1>4, <1>5

\* All of them are sets of handles.
LEMMA SetsType ==
    /\ \A s : At(s) \in SUBSET Handle
    /\ Busy \in SUBSET Handle /\ Counted \in SUBSET Handle /\ Held \in SUBSET Handle
BY DEF At, Busy, Counted, Held

\* The numbers of a state: who is counted, and how many pins are pending.
LEMMA Numbers ==
    ASSUME IInv
    PROVE  /\ count \in Nat
           /\ Cardinality(Held) \in Nat /\ Cardinality(Busy) \in Nat
           /\ Cardinality(At("clone_saturate")) \in Nat
           /\ Cardinality(At("drop_saturate")) \in Nat
           /\ Cardinality(At("clone_saturate")) <= Cardinality(Busy)
           /\ Cardinality(At("drop_saturate")) <= Cardinality(Busy)
           /\ saturated = "pinned" => count > MaxRefcount
           /\ saturated # "pinned" => count = Cardinality(Held)
<1>1. At("clone_saturate") \in SUBSET Busy /\ At("drop_saturate") \in SUBSET Busy
  BY Membership
<1>2. /\ Cardinality(Held) \in Nat /\ Cardinality(Busy) \in Nat
      /\ Cardinality(At("clone_saturate")) \in Nat
      /\ Cardinality(At("drop_saturate")) \in Nat
      /\ Cardinality(At("clone_saturate")) <= Cardinality(Busy)
      /\ Cardinality(At("drop_saturate")) <= Cardinality(Busy)
  BY <1>1, SetsType, CardFacts
<1>3. count \in Nat
  BY NodeRcAssumption DEF IInv, TypeOK
<1>4. saturated # "pinned" => count = Cardinality(Held)
  BY DEF IInv, CountExact, Held
<1>5. saturated = "pinned" => count > MaxRefcount
  BY <1>2, <1>3, NodeRcAssumption DEF IInv, Bounds
<1> QED BY <1>2, <1>3, <1>4, <1>5

\* A move's effect on the four cardinalities the invariant speaks of.
One(b) == IF b THEN 1 ELSE 0
HeldStage(s) == s \in {"live", "clone_saturate", "mutable", "copying"}

\* Each cardinality changes by one at most.
LEMMA CardsMove ==
    ASSUME TypeOK, NEW h \in Handle, NEW s \in Stage, Move(h, s)
    PROVE  /\ Cardinality(Held') = Cardinality(Held) + One(HeldStage(s)) - One(HeldStage(stage[h]))
           /\ Cardinality(Busy') = Cardinality(Busy) + One(s \notin {"none", "live"})
                                       - One(stage[h] \notin {"none", "live"})
           /\ Cardinality(At("clone_saturate")') = Cardinality(At("clone_saturate"))
                  + One(s = "clone_saturate") - One(stage[h] = "clone_saturate")
           /\ Cardinality(At("drop_saturate")') = Cardinality(At("drop_saturate"))
                  + One(s = "drop_saturate") - One(stage[h] = "drop_saturate")
<1>1. stage[h] \in Stage
  BY DEF TypeOK
<1>2. /\ h \in Held <=> HeldStage(stage[h])
      /\ h \in Busy <=> stage[h] \notin {"none", "live"}
      /\ \A t : h \in At(t) <=> stage[h] = t
  BY <1>1, Membership DEF HeldStage, Stage
<1>3. HeldStage(s) <=> s \notin {"none", "drop_saturate", "drop_free", "unique_store"}
  BY DEF HeldStage, Stage
<1>4. Changed(Held, Held', h, HeldStage(s))
  BY <1>3, SetsMove DEF Changed
<1>5. Changed(Busy, Busy', h, s \notin {"none", "live"})
  BY SetsMove
<1>6. /\ Changed(At("clone_saturate"), At("clone_saturate")', h, s = "clone_saturate")
      /\ Changed(At("drop_saturate"), At("drop_saturate")', h, s = "drop_saturate")
  BY SetsMove
<1>7. HeldStage(s) \in BOOLEAN
  BY DEF HeldStage
<1>8. Cardinality(Held') = Cardinality(Held) + One(HeldStage(s)) - One(HeldStage(stage[h]))
  BY <1>2, <1>4, <1>7, SetsType, CardMove DEF One
<1>9. Cardinality(Busy') = Cardinality(Busy) + One(s \notin {"none", "live"})
          - One(stage[h] \notin {"none", "live"})
  BY <1>2, <1>5, SetsType, CardMove DEF One
<1>10. /\ Cardinality(At("clone_saturate")') = Cardinality(At("clone_saturate"))
              + One(s = "clone_saturate") - One(stage[h] = "clone_saturate")
       /\ Cardinality(At("drop_saturate")') = Cardinality(At("drop_saturate"))
              + One(s = "drop_saturate") - One(stage[h] = "drop_saturate")
  <2>1. Cardinality(At("clone_saturate")') = Cardinality(At("clone_saturate"))
            + One(s = "clone_saturate") - One(stage[h] = "clone_saturate")
    <3> DEFINE S == At("clone_saturate")
               T == At("clone_saturate")'
               in == s = "clone_saturate"
    <3>1. S \in SUBSET Handle /\ Changed(S, T, h, in) /\ in \in BOOLEAN
      BY <1>6, SetsType
    <3>2. h \in S <=> stage[h] = "clone_saturate"
      BY <1>2
    <3> HIDE DEF S, T
    <3>3. Cardinality(T) = Cardinality(S) + (IF in THEN 1 ELSE 0) - (IF h \in S THEN 1 ELSE 0)
      BY <3>1, CardMove
    <3>4. Cardinality(T) = Cardinality(S) + One(in) - One(h \in S)
      BY <3>3 DEF One
    <3> QED BY <3>2, <3>4 DEF S, T
  <2>2. Cardinality(At("drop_saturate")') = Cardinality(At("drop_saturate"))
            + One(s = "drop_saturate") - One(stage[h] = "drop_saturate")
    <3> DEFINE S == At("drop_saturate")
               T == At("drop_saturate")'
               in == s = "drop_saturate"
    <3>1. S \in SUBSET Handle /\ Changed(S, T, h, in) /\ in \in BOOLEAN
      BY <1>6, SetsType
    <3>2. h \in S <=> stage[h] = "drop_saturate"
      BY <1>2
    <3> HIDE DEF S, T
    <3>3. Cardinality(T) = Cardinality(S) + (IF in THEN 1 ELSE 0) - (IF h \in S THEN 1 ELSE 0)
      BY <3>1, CardMove
    <3>4. Cardinality(T) = Cardinality(S) + One(in) - One(h \in S)
      BY <3>3 DEF One
    <3> QED BY <3>2, <3>4 DEF S, T
  <2> QED BY <2>1, <2>2
<1> QED BY <1>8, <1>9, <1>10

\* A handle that is counted: the counter is positive and the node is there.
LEMMA HeldFacts ==
    ASSUME IInv, NEW h \in Held
    PROVE  /\ count \in Nat \ {0}
           /\ ~freed /\ At("drop_free") = {} /\ At("unique_store") = {}
           /\ saturated # "pinned" => (count = 1 <=> Held = {h})
<1>1. h \in Counted /\ h \notin At("unique_store")
  BY DEF Held
<1>2. ~freed /\ At("drop_free") = {} /\ At("unique_store") = {}
  BY <1>1, SetsType DEF IInv, NoUseAfterFree, ExclusiveMutation
<1>3. Cardinality(Held) # 0
  BY SetsType, CardFacts
<1>4. count \in Nat \ {0}
  BY <1>3, Numbers, NodeRcAssumption
<1>5. Cardinality(Held) = 1 <=> Held = {h}
  <2>1. Cardinality(Held \ {h}) = Cardinality(Held) - 1 /\ (Cardinality(Held \ {h}) = 0 <=> Held \ {h} = {})
    BY SetsType, CardFacts
  <2> QED BY <2>1, Numbers
<1> QED BY <1>2, <1>4, <1>5, Numbers

\* The parts of IInv that speak of sets of handles, handle by handle.
FreedLast ==
    /\ freed => \A k \in Handle : stage[k] \in {"none", "drop_saturate"}
    /\ \A g \in Handle : stage[g] = "drop_free" =>
           /\ count = 0
           /\ \A k \in Handle : k # g => stage[k] \in {"none", "drop_saturate"}
MutatesAlone ==
    \A g \in Handle : stage[g] \in {"unique_store", "mutable"} =>
        \A k \in Handle : k # g => stage[k] \in {"none", "drop_saturate", "drop_free"}
PinsAlone ==
    saturated = "pinned" \/ (\E g \in Handle : stage[g] = "drop_saturate") =>
        ~freed /\ \A k \in Handle : stage[k] \notin {"drop_free", "unique_store"}

ByHandle == TypeOK /\ FreedLast /\ MutatesAlone /\ PinsAlone /\ CountExact /\ Bounds

\* The two forms of the invariant agree.
LEMMA IInvSplit == IInv <=> ByHandle
<1> SUFFICES ASSUME TypeOK
             PROVE  /\ NoUseAfterFree <=> FreedLast
                    /\ ExclusiveMutation <=> MutatesAlone
                    /\ NoPinUnderWay <=> PinsAlone
  BY DEF IInv, ByHandle
<1>1. \A g \in Handle : stage[g] \in Stage
  BY DEF TypeOK
<1>2. \A s : At(s) = {} <=> \A g \in Handle : stage[g] # s
  BY Membership
<1>3. Counted = {} <=> \A k \in Handle : stage[k] \in {"none", "drop_saturate", "drop_free"}
  BY <1>1, Membership DEF Stage
<1>4. \A g \in Handle :
          Counted = {g} <=> /\ stage[g] \notin {"none", "drop_saturate", "drop_free"}
                            /\ \A k \in Handle : k # g => stage[k] \in {"none", "drop_saturate", "drop_free"}
  BY <1>1, Membership DEF Stage
<1>5. \A g \in Handle, s \in Stage : At(s) = {g} <=> stage[g] = s /\ \A k \in Handle : k # g => stage[k] # s
  BY Membership
<1>6. "drop_free" \in Stage /\ \A g, s : g \in At(s) <=> g \in Handle /\ stage[g] = s
  BY Membership DEF Stage
<1>7. NoUseAfterFree <=> FreedLast
  <2>1. (Counted = {} /\ At("drop_free") = {}) <=> \A k \in Handle : stage[k] \in {"none", "drop_saturate"}
    BY <1>2, <1>3
  <2>2. ASSUME NEW g \in Handle, stage[g] = "drop_free"
        PROVE  (Counted = {} /\ At("drop_free") = {g})
               <=> \A k \in Handle : k # g => stage[k] \in {"none", "drop_saturate"}
    BY <1>3, <1>5, <1>6, <2>2
  <2> QED BY <1>6, <2>1, <2>2 DEF NoUseAfterFree, FreedLast
<1>8. ExclusiveMutation <=> MutatesAlone
  BY <1>4, <1>6 DEF ExclusiveMutation, MutatesAlone
<1>9. NoPinUnderWay <=> PinsAlone
  BY <1>2 DEF NoPinUnderWay, PinsAlone
<1> QED BY <1>7, <1>8, <1>9

\* The same of the next state.
LEMMA IInvSplitNext == IInv' <=> ByHandle'
BY IInvSplit, PTL

\* A new node satisfies the invariant.
LEMMA InitInv == Init => IInv
<1> SUFFICES ASSUME Init PROVE IInv
  OBVIOUS
<1>1. /\ stage \in [Handle -> Stage] /\ stage[First] = "live"
      /\ \A h \in Handle : h # First => stage[h] = "none"
  BY NodeRcAssumption DEF Init, Stage
<1>2. count = 1 /\ freed = FALSE /\ saturated = "no"
  BY DEF Init
<1>3. TypeOK
  <2>1. 1 \in 0..(Wrap - 1)
    BY NodeRcAssumption
  <2> QED BY <1>1, <1>2, <2>1 DEF TypeOK
<1>4. Held = {First} /\ Busy = {} /\ At("clone_saturate") = {}
  BY <1>1, NodeRcAssumption, Membership
<1>5. Cardinality({First}) = 1 /\ Cardinality({}) = 0
  BY FS_Singleton, FS_EmptySet
<1>6. CountExact
  BY <1>2, <1>4, <1>5 DEF CountExact, Held
<1>7. Bounds
  BY <1>2, <1>4, <1>5, NodeRcAssumption DEF Bounds
<1>8. FreedLast /\ MutatesAlone /\ PinsAlone
  BY <1>1, <1>2 DEF FreedLast, MutatesAlone, PinsAlone
<1> QED BY <1>3, <1>6, <1>7, <1>8, IInvSplit DEF ByHandle

\* A handle at rest or being copied, seen by the invariant.
LEMMA LiveFacts ==
    ASSUME IInv, NEW h \in Handle, HeldStage(stage[h])
    PROVE  /\ count \in Nat \ {0}
           /\ ~freed /\ \A k \in Handle : stage[k] \notin {"drop_free", "unique_store"}
           /\ saturated # "pinned" /\ count = 1 => \A k \in Handle : k # h => ~HeldStage(stage[k])
<1>1. stage[h] \in Stage /\ h \in Held
  BY Membership DEF IInv, TypeOK, HeldStage
<1>2. \A k \in Handle : k \in Held <=> HeldStage(stage[k])
  BY Membership DEF IInv, TypeOK, HeldStage, Stage
<1> QED BY <1>1, <1>2, HeldFacts, Membership

\* clone's fetch_add: the pending increments cannot carry the counter around.
LEMMA CloneAddInv ==
    ASSUME IInv, NEW h \in Handle, NEW new \in Handle, CloneAdd(h, new)
    PROVE  IInv'
<1> DEFINE s == IF count > MaxRefcount THEN "clone_saturate" ELSE "live"
<1>0. TypeOK /\ ByHandle /\ Move(new, s) /\ s \in Stage /\ freed' = freed
  BY IInvSplit DEF ByHandle, CloneAdd, Stage
<1>1. /\ stage' \in [Handle -> Stage] /\ stage'[new] = s
      /\ \A g \in Handle : g # new => stage'[g] = stage[g]
      /\ stage[h] = "live" /\ stage[new] = "none"
  BY <1>0, MoveFacts DEF CloneAdd
<1>2. /\ count \in Nat \ {0} /\ ~freed
      /\ \A k \in Handle : stage[k] \notin {"drop_free", "unique_store"}
  BY <1>1, LiveFacts DEF HeldStage
<1>3. /\ Cardinality(Held') = Cardinality(Held) + 1
      /\ Cardinality(Busy') = Cardinality(Busy) + One(s = "clone_saturate")
      /\ Cardinality(At("clone_saturate")') = Cardinality(At("clone_saturate")) + One(s = "clone_saturate")
      /\ Cardinality(At("drop_saturate")') = Cardinality(At("drop_saturate"))
  BY <1>0, <1>1, CardsMove, Numbers DEF One, HeldStage
<1>4. Cardinality(Busy) < Threads
  BY DEF CloneAdd, HasThread
<1>5. count + 1 < Wrap
  BY <1>0, <1>4, Numbers, NodeRcAssumption DEF ByHandle, Bounds
<1>6. count' = count + 1
  BY <1>2, <1>5, NodeRcAssumption DEF CloneAdd
<1>7. /\ saturated' \in {"no", "seen", "pinned"}
      /\ saturated' = "pinned" <=> saturated = "pinned"
  BY <1>0 DEF TypeOK, CloneAdd, See
<1>8. TypeOK'
  BY <1>0, <1>1, <1>2, <1>5, <1>6, <1>7, NodeRcAssumption DEF TypeOK
<1>9. CountExact'
  BY <1>3, <1>6, <1>7, Numbers DEF CountExact, Held
<1>10. Bounds'
  <2>1. Cardinality(Busy') <= Threads
    BY <1>3, <1>4, Numbers, NodeRcAssumption DEF One
  <2>2. ASSUME saturated # "pinned"
        PROVE  Cardinality(Held') <= MaxRefcount + 1 + Cardinality(At("clone_saturate")')
    BY <1>0, <1>3, <2>2, Numbers, NodeRcAssumption DEF ByHandle, Bounds, One
  <2>3. ASSUME saturated = "pinned"
        PROVE  /\ Saturation - Cardinality(At("drop_saturate")') <= count'
               /\ count' <= Saturation + Cardinality(At("clone_saturate")')
    BY <1>0, <1>3, <1>6, <2>3, Numbers, NodeRcAssumption DEF ByHandle, Bounds, One
  <2> QED BY <1>7, <2>1, <2>2, <2>3 DEF Bounds
<1>11. FreedLast' /\ PinsAlone'
  BY <1>0, <1>1, <1>2, <1>7 DEF FreedLast, PinsAlone
<1>12. MutatesAlone'
  <2>1. \A g \in Handle : stage[g] # "mutable"
    BY <1>0, <1>1 DEF ByHandle, MutatesAlone
  <2> QED BY <1>1, <1>2, <2>1 DEF MutatesAlone
<1> QED BY <1>8, <1>9, <1>10, <1>11, <1>12, IInvSplitNext DEF ByHandle

\* clone's store pins the counter; its own reference keeps the node.
LEMMA CloneSaturateInv ==
    ASSUME IInv, NEW h \in Handle, CloneSaturate(h)
    PROVE  IInv'
<1>0. TypeOK /\ ByHandle /\ Move(h, "live") /\ "live" \in Stage /\ freed' = freed
  BY IInvSplit DEF ByHandle, CloneSaturate, Stage
<1>1. /\ stage' \in [Handle -> Stage] /\ stage'[h] = "live"
      /\ \A g \in Handle : g # h => stage'[g] = stage[g]
      /\ stage[h] = "clone_saturate"
  BY <1>0, MoveFacts DEF CloneSaturate
<1>2. ~freed /\ \A k \in Handle : stage[k] \notin {"drop_free", "unique_store", "mutable"}
  <2>1. ~freed /\ \A k \in Handle : stage[k] \notin {"drop_free", "unique_store"}
    BY <1>1, LiveFacts DEF HeldStage
  <2> QED BY <1>0, <1>1, <2>1 DEF ByHandle, MutatesAlone
<1>3. count' = Saturation /\ saturated' = "pinned"
  BY DEF CloneSaturate
<1>4. /\ Cardinality(Busy') = Cardinality(Busy) - 1
      /\ Cardinality(At("clone_saturate")') = Cardinality(At("clone_saturate")) - 1
      /\ Cardinality(At("drop_saturate")') = Cardinality(At("drop_saturate"))
      /\ Cardinality(At("clone_saturate")) # 0
  <2>1. h \in At("clone_saturate")
    BY <1>1, Membership
  <2> QED BY <1>0, <1>1, <2>1, CardsMove, Numbers, SetsType, CardFacts DEF One
<1>5. TypeOK'
  BY <1>0, <1>1, <1>3, NodeRcAssumption DEF TypeOK
<1>6. CountExact'
  BY <1>3 DEF CountExact
<1>7. Bounds'
  BY <1>0, <1>3, <1>4, Numbers, NodeRcAssumption DEF ByHandle, Bounds
<1>8. FreedLast' /\ MutatesAlone' /\ PinsAlone'
  BY <1>0, <1>1, <1>2 DEF FreedLast, MutatesAlone, PinsAlone
<1> QED BY <1>5, <1>6, <1>7, <1>8, IInvSplitNext DEF ByHandle

\* drop's fetch_sub, at rest or after a copy.  When it takes the counter to 0 no
\* other handle is counted, and no drop has still to pin it.
LEMMA DropSubInv ==
    ASSUME IInv, PromptStores, NEW h \in Handle, NEW from \in {"live", "copying"}, DropSub(h, from)
    PROVE  IInv'
<1> DEFINE s == IF count > MaxRefcount THEN "drop_saturate"
                ELSE IF count = 1 THEN "drop_free" ELSE "none"
<1>0. TypeOK /\ ByHandle /\ Move(h, s) /\ s \in Stage /\ freed' = freed
  BY IInvSplit DEF ByHandle, DropSub, Stage
<1>1. /\ stage' \in [Handle -> Stage] /\ stage'[h] = s
      /\ \A g \in Handle : g # h => stage'[g] = stage[g]
      /\ stage[h] = from
  BY <1>0, MoveFacts DEF DropSub
<1>2. /\ count \in Nat \ {0} /\ ~freed
      /\ \A k \in Handle : stage[k] \notin {"drop_free", "unique_store", "mutable"}
  <2>1. /\ count \in Nat \ {0} /\ ~freed
        /\ \A k \in Handle : stage[k] \notin {"drop_free", "unique_store"}
    BY <1>1, LiveFacts DEF HeldStage
  <2> QED BY <1>0, <1>1, <2>1 DEF ByHandle, MutatesAlone
<1>3. count' = count - 1 /\ count < Wrap
  <2>1. count < Wrap
    BY <1>0, NodeRcAssumption DEF TypeOK
  <2> QED BY <1>2, <2>1, NodeRcAssumption DEF DropSub
<1>4. /\ Cardinality(Held') = Cardinality(Held) - 1
      /\ Cardinality(Busy') = Cardinality(Busy) + One(s # "none") - One(from # "live")
      /\ Cardinality(At("clone_saturate")') = Cardinality(At("clone_saturate"))
      /\ Cardinality(At("drop_saturate")') = Cardinality(At("drop_saturate")) + One(s = "drop_saturate")
  BY <1>0, <1>1, CardsMove, Numbers DEF One, HeldStage
<1>5. Cardinality(Busy') <= Threads
  <2>1. CASE from = "live"
    BY <1>4, <2>1, Numbers, NodeRcAssumption DEF DropSub, HasThread, One
  <2>2. CASE from = "copying"
    BY <1>0, <1>4, <2>2, Numbers, NodeRcAssumption DEF ByHandle, Bounds, One
  <2> QED BY <2>1, <2>2
<1>6. /\ saturated' \in {"no", "seen", "pinned"}
      /\ saturated' = "pinned" <=> saturated = "pinned"
  BY <1>0 DEF TypeOK, DropSub, See
<1>7. TypeOK'
  <2>1. count' \in 0..(Wrap - 1)
    BY <1>2, <1>3, NodeRcAssumption
  <2> QED BY <1>0, <1>1, <1>6, <2>1 DEF TypeOK
<1>8. CountExact'
  BY <1>3, <1>4, <1>6, Numbers DEF CountExact, Held
<1>9. Bounds'
  <2>1. ASSUME saturated # "pinned"
        PROVE  Cardinality(Held') <= MaxRefcount + 1 + Cardinality(At("clone_saturate")')
    BY <1>0, <1>4, <2>1, Numbers, NodeRcAssumption DEF ByHandle, Bounds
  <2>2. ASSUME saturated = "pinned"
        PROVE  /\ Saturation - Cardinality(At("drop_saturate")') <= count'
               /\ count' <= Saturation + Cardinality(At("clone_saturate")')
    <3>1. s = "drop_saturate"
      BY <2>2, Numbers
    <3> QED BY <1>0, <1>3, <1>4, <2>2, <3>1, Numbers, NodeRcAssumption DEF ByHandle, Bounds, One
  <2> QED BY <1>5, <1>6, <2>1, <2>2 DEF Bounds
<1>10. s = "drop_free" => /\ count = 1 /\ saturated # "pinned"
                          /\ \A k \in Handle : k # h => stage[k] = "none"
  <2> HAVE s = "drop_free"
  <2>1. count = 1 /\ saturated # "pinned"
    BY <1>2, Numbers
  <2>2. \A k \in Handle : k # h => ~HeldStage(stage[k])
    BY <1>1, <2>1, LiveFacts DEF HeldStage
  <2>3. \A k \in Handle : stage[k] # "drop_saturate"
    BY <2>1, Membership DEF DropSub, Prompt
  <2>4. \A k \in Handle : stage[k] \in Stage
    BY <1>0 DEF TypeOK
  <2> QED BY <1>2, <2>1, <2>2, <2>3, <2>4 DEF HeldStage, Stage
<1>11. s \in {"drop_saturate", "drop_free", "none"}
  OBVIOUS
<1>12. s = "drop_free" => count' = 0
  BY <1>3, <1>10
<1> HIDE DEF s
<1>13. FreedLast' /\ MutatesAlone' /\ PinsAlone'
  BY <1>0, <1>1, <1>2, <1>6, <1>10, <1>11, <1>12 DEF FreedLast, MutatesAlone, PinsAlone
<1> QED BY <1>7, <1>8, <1>9, <1>13, IInvSplitNext DEF ByHandle

\* drop's store pins the counter of a node that others hold, or that leaks.
LEMMA DropSaturateInv ==
    ASSUME IInv, NEW h \in Handle, DropSaturate(h)
    PROVE  IInv'
<1>0. TypeOK /\ ByHandle /\ Move(h, "none") /\ "none" \in Stage /\ freed' = freed
  BY IInvSplit DEF ByHandle, DropSaturate, Stage
<1>1. /\ stage' \in [Handle -> Stage] /\ stage'[h] = "none"
      /\ \A g \in Handle : g # h => stage'[g] = stage[g]
      /\ stage[h] = "drop_saturate"
  BY <1>0, MoveFacts DEF DropSaturate
<1>2. ~freed /\ \A k \in Handle : stage[k] \notin {"drop_free", "unique_store"}
  BY <1>0, <1>1 DEF ByHandle, PinsAlone
<1>3. count' = Saturation /\ saturated' = "pinned"
  BY DEF DropSaturate
<1>4. /\ Cardinality(Busy') = Cardinality(Busy) - 1
      /\ Cardinality(At("clone_saturate")') = Cardinality(At("clone_saturate"))
      /\ Cardinality(At("drop_saturate")') = Cardinality(At("drop_saturate")) - 1
      /\ Cardinality(At("drop_saturate")) # 0
  <2>1. h \in At("drop_saturate")
    BY <1>1, Membership
  <2> QED BY <1>0, <1>1, <2>1, CardsMove, Numbers, SetsType, CardFacts DEF One
<1>5. TypeOK'
  BY <1>0, <1>1, <1>3, NodeRcAssumption DEF TypeOK
<1>6. CountExact'
  BY <1>3 DEF CountExact
<1>7. Bounds'
  BY <1>0, <1>3, <1>4, Numbers, NodeRcAssumption DEF ByHandle, Bounds
<1>8. FreedLast' /\ MutatesAlone' /\ PinsAlone'
  BY <1>0, <1>1, <1>2 DEF ByHandle, FreedLast, MutatesAlone, PinsAlone
<1> QED BY <1>5, <1>6, <1>7, <1>8, IInvSplitNext DEF ByHandle

\* The last drop frees.
LEMMA DropFreeInv ==
    ASSUME IInv, NEW h \in Handle, DropFree(h)
    PROVE  IInv'
<1>0. TypeOK /\ ByHandle /\ Move(h, "none") /\ "none" \in Stage
  BY IInvSplit DEF ByHandle, DropFree, Stage
<1>1. /\ stage' \in [Handle -> Stage] /\ stage'[h] = "none"
      /\ \A g \in Handle : g # h => stage'[g] = stage[g]
      /\ stage[h] = "drop_free"
  BY <1>0, MoveFacts DEF DropFree
<1>2. freed' = TRUE /\ count' = count /\ saturated' = saturated
  BY DEF DropFree
<1>3. saturated # "pinned" /\ \A k \in Handle : stage[k] # "drop_saturate"
  BY <1>0, <1>1 DEF ByHandle, PinsAlone
<1>4. \A k \in Handle : k # h => stage[k] \in {"none", "drop_saturate"}
  BY <1>0, <1>1 DEF ByHandle, FreedLast
<1>5. /\ Cardinality(Held') = Cardinality(Held)
      /\ Cardinality(Busy') = Cardinality(Busy) - 1
      /\ Cardinality(At("clone_saturate")') = Cardinality(At("clone_saturate"))
  BY <1>0, <1>1, CardsMove, Numbers DEF One, HeldStage
<1>6. TypeOK'
  BY <1>0, <1>1, <1>2 DEF TypeOK
<1>7. CountExact'
  BY <1>2, <1>3, <1>5, Numbers DEF CountExact, Held
<1>8. Bounds'
  BY <1>0, <1>2, <1>3, <1>5, Numbers, NodeRcAssumption DEF ByHandle, Bounds
<1>9. FreedLast' /\ MutatesAlone' /\ PinsAlone'
  BY <1>1, <1>2, <1>3, <1>4 DEF FreedLast, MutatesAlone, PinsAlone
<1> QED BY <1>6, <1>7, <1>8, <1>9, IInvSplitNext DEF ByHandle

\* make_unique's compare_exchange.  It succeeds through the only reference.
LEMMA UniqueCasInv ==
    ASSUME IInv, PromptStores, NEW h \in Handle, UniqueCas(h)
    PROVE  IInv'
<1> DEFINE s == IF count = 1 THEN "unique_store" ELSE "copying"
<1>0. TypeOK /\ ByHandle /\ Move(h, s) /\ s \in Stage /\ freed' = freed /\ saturated' = saturated
  BY IInvSplit DEF ByHandle, UniqueCas, Stage
<1>1. /\ stage' \in [Handle -> Stage] /\ stage'[h] = s
      /\ \A g \in Handle : g # h => stage'[g] = stage[g]
      /\ stage[h] = "live"
  BY <1>0, MoveFacts DEF UniqueCas
<1>2. /\ count \in Nat \ {0} /\ ~freed
      /\ \A k \in Handle : stage[k] \notin {"drop_free", "unique_store", "mutable"}
  <2>1. /\ count \in Nat \ {0} /\ ~freed
        /\ \A k \in Handle : stage[k] \notin {"drop_free", "unique_store"}
    BY <1>1, LiveFacts DEF HeldStage
  <2> QED BY <1>0, <1>1, <2>1 DEF ByHandle, MutatesAlone
<1>3. count' = count - One(s = "unique_store")
  BY <1>2 DEF UniqueCas, One
<1>4. /\ Cardinality(Held') = Cardinality(Held) - One(s = "unique_store")
      /\ Cardinality(Busy') = Cardinality(Busy) + 1
      /\ Cardinality(At("clone_saturate")') = Cardinality(At("clone_saturate"))
      /\ Cardinality(At("drop_saturate")') = Cardinality(At("drop_saturate"))
  BY <1>0, <1>1, CardsMove, Numbers DEF One, HeldStage
<1>5. s = "unique_store" => /\ saturated # "pinned"
                            /\ \A k \in Handle : k # h => stage[k] = "none"
  <2> HAVE s = "unique_store"
  <2>1. count = 1 /\ saturated # "pinned"
    BY <1>2, Numbers, NodeRcAssumption
  <2>2. \A k \in Handle : k # h => ~HeldStage(stage[k])
    BY <1>1, <2>1, LiveFacts DEF HeldStage
  <2>3. \A k \in Handle : stage[k] # "drop_saturate"
    BY <2>1, PromptStores, Membership DEF UniqueCas, Prompt
  <2>4. \A k \in Handle : stage[k] \in Stage
    BY <1>0 DEF TypeOK
  <2> QED BY <1>2, <2>1, <2>2, <2>3, <2>4 DEF HeldStage, Stage
<1>6. TypeOK'
  <2>1. count' \in 0..(Wrap - 1)
    BY <1>0, <1>2, <1>3, NodeRcAssumption DEF TypeOK, One
  <2> QED BY <1>0, <1>1, <2>1 DEF TypeOK
<1>7. CountExact'
  BY <1>0, <1>3, <1>4, Numbers DEF CountExact, Held, One
<1>8. Bounds'
  <2>1. Cardinality(Busy') <= Threads
    BY <1>4, Numbers, NodeRcAssumption DEF UniqueCas, HasThread
  <2> QED BY <1>0, <1>3, <1>4, <1>5, <2>1, Numbers, NodeRcAssumption DEF ByHandle, Bounds, One
<1>9. s \in {"unique_store", "copying"}
  OBVIOUS
<1> HIDE DEF s
<1>10. FreedLast' /\ MutatesAlone' /\ PinsAlone'
  BY <1>0, <1>1, <1>2, <1>5, <1>9 DEF FreedLast, MutatesAlone, PinsAlone
<1> QED BY <1>6, <1>7, <1>8, <1>10, IInvSplitNext DEF ByHandle

\* make_unique's store gives the single reference its count back.
LEMMA UniqueStoreInv ==
    ASSUME IInv, NEW h \in Handle, UniqueStore(h)
    PROVE  IInv'
<1>0. TypeOK /\ ByHandle /\ Move(h, "mutable") /\ "mutable" \in Stage
      /\ freed' = freed /\ saturated' = saturated /\ count' = 1
  BY IInvSplit DEF ByHandle, UniqueStore, Stage
<1>1. /\ stage' \in [Handle -> Stage] /\ stage'[h] = "mutable"
      /\ \A g \in Handle : g # h => stage'[g] = stage[g]
      /\ stage[h] = "unique_store"
  BY <1>0, MoveFacts DEF UniqueStore
<1>2. saturated # "pinned" /\ \A k \in Handle : stage[k] # "drop_saturate"
  BY <1>0, <1>1 DEF ByHandle, PinsAlone
<1>3. ~freed /\ \A k \in Handle : stage[k] # "drop_free"
  BY <1>0, <1>1 DEF ByHandle, FreedLast
<1>4. \A k \in Handle : k # h => stage[k] = "none"
  BY <1>0, <1>1, <1>2, <1>3 DEF ByHandle, MutatesAlone
<1>5. /\ Cardinality(Held') = Cardinality(Held) + 1
      /\ Cardinality(Busy') = Cardinality(Busy)
      /\ Cardinality(At("clone_saturate")') = Cardinality(At("clone_saturate"))
  BY <1>0, <1>1, CardsMove, Numbers DEF One, HeldStage
<1>6. Cardinality(Held) = 0
  <2>1. Held = {}
    BY <1>1, <1>4, Membership
  <2> QED BY <2>1, FS_EmptySet
<1>7. TypeOK'
  <2>1. 1 \in 0..(Wrap - 1)
    BY NodeRcAssumption
  <2> QED BY <1>0, <1>1, <2>1 DEF TypeOK
<1>8. CountExact'
  BY <1>0, <1>5, <1>6 DEF CountExact, Held
<1>9. Bounds'
  BY <1>0, <1>2, <1>5, <1>6, Numbers, NodeRcAssumption DEF ByHandle, Bounds
<1>10. FreedLast' /\ MutatesAlone' /\ PinsAlone'
  BY <1>0, <1>1, <1>2, <1>3, <1>4 DEF FreedLast, MutatesAlone, PinsAlone
<1> QED BY <1>7, <1>8, <1>9, <1>10, IInvSplitNext DEF ByHandle

\* The end of a mutable borrow.
LEMMA EndMutationInv ==
    ASSUME IInv, NEW h \in Handle, EndMutation(h)
    PROVE  IInv'
<1>0. TypeOK /\ ByHandle /\ Move(h, "live") /\ "live" \in Stage
      /\ freed' = freed /\ saturated' = saturated /\ count' = count
  BY IInvSplit DEF ByHandle, EndMutation, Stage
<1>1. /\ stage' \in [Handle -> Stage] /\ stage'[h] = "live"
      /\ \A g \in Handle : g # h => stage'[g] = stage[g]
      /\ stage[h] = "mutable"
  BY <1>0, MoveFacts DEF EndMutation
<1>2. ~freed /\ \A k \in Handle : stage[k] \notin {"drop_free", "unique_store"}
  BY <1>1, LiveFacts DEF HeldStage
<1>3. /\ Cardinality(Held') = Cardinality(Held)
      /\ Cardinality(Busy') = Cardinality(Busy) - 1
      /\ Cardinality(At("clone_saturate")') = Cardinality(At("clone_saturate"))
      /\ Cardinality(At("drop_saturate")') = Cardinality(At("drop_saturate"))
  BY <1>0, <1>1, CardsMove, Numbers DEF One, HeldStage
<1>4. TypeOK'
  BY <1>0, <1>1 DEF TypeOK
<1>5. CountExact'
  BY <1>0, <1>3, Numbers DEF CountExact, Held
<1>6. Bounds'
  BY <1>0, <1>3, Numbers, NodeRcAssumption DEF ByHandle, Bounds
<1>7. FreedLast' /\ MutatesAlone' /\ PinsAlone'
  BY <1>0, <1>1, <1>2 DEF ByHandle, FreedLast, MutatesAlone, PinsAlone
<1> QED BY <1>4, <1>5, <1>6, <1>7, IInvSplitNext DEF ByHandle

\* Every step preserves the invariant.
LEMMA StepInv ==
    ASSUME IInv, PromptStores, [Next]_vars
    PROVE  IInv'
<1>1. CASE UNCHANGED vars
  BY <1>1 DEF vars, IInv, TypeOK, NoUseAfterFree, ExclusiveMutation, CountExact,
              Bounds, NoPinUnderWay, Counted, Held, Busy, At
<1>2. ASSUME NEW h \in Handle, Clone(h) PROVE IInv'
  BY <1>2, CloneAddInv DEF Clone
<1>3. ASSUME NEW h \in Handle, Drop(h) PROVE IInv'
  BY <1>3, DropSubInv DEF Drop
<1>4. ASSUME NEW h \in Handle, UniqueCas(h) PROVE IInv'
  BY <1>4, UniqueCasInv
<1>5. ASSUME NEW h \in Handle, Finish(h) PROVE IInv'
  <2>1. CASE CloneSaturate(h)
    BY <2>1, CloneSaturateInv
  <2>2. CASE DropSaturate(h)
    BY <2>2, DropSaturateInv
  <2>3. CASE DropFree(h)
    BY <2>3, DropFreeInv
  <2>4. CASE UniqueStore(h)
    BY <2>4, UniqueStoreInv
  <2>5. CASE EndMutation(h)
    BY <2>5, EndMutationInv
  <2>6. CASE DropCopied(h)
    BY <2>6, DropSubInv DEF DropCopied
  <2> QED BY <1>5, <2>1, <2>2, <2>3, <2>4, <2>5, <2>6 DEF Finish
<1> QED BY <1>1, <1>2, <1>3, <1>4, <1>5 DEF Next

\* As long as no drop is held up between its fetch_sub and its store, the
\* inductive invariant holds throughout.
THEOREM Invariance == ASSUME PromptStores PROVE Spec => []IInv
<1>1. Init => IInv
  BY InitInv
<1>2. IInv /\ [Next]_vars => IInv'
  BY StepInv
<1> QED BY <1>1, <1>2, PTL DEF Spec

\* Nobody reads, copies or writes a node that drop has freed.
THEOREM NodesOutliveHandles == ASSUME PromptStores PROVE Spec => []NoUseAfterFree
<1>1. IInv => NoUseAfterFree
  BY DEF IInv
<1> QED BY <1>1, Invariance, PTL

\* make_mut's reference is the only way to the node while it is written.
THEOREM MutationIsExclusive == ASSUME PromptStores PROVE Spec => []ExclusiveMutation
<1>1. IInv => ExclusiveMutation
  BY DEF IInv
<1> QED BY <1>1, Invariance, PTL

\* The counter is the number of handles until clone or drop pins it.
THEOREM CounterIsExact == ASSUME PromptStores PROVE Spec => []CountExact
<1>1. IInv => CountExact
  BY DEF IInv
<1> QED BY <1>1, Invariance, PTL

\* The gaps around Saturation are wide enough: a pinned counter never comes back
\* below MaxRefcount, and its node is never freed.
THEOREM SaturationIsFinal == ASSUME PromptStores PROVE Spec => []StaysSaturated
<1>1. IInv => StaysSaturated
  <2> SUFFICES ASSUME IInv, saturated = "pinned" PROVE count > MaxRefcount /\ ~freed /\ At("drop_free") = {}
    BY DEF StaysSaturated
  <2> QED BY Numbers DEF IInv, NoPinUnderWay
<1> QED BY <1>1, Invariance, PTL

\* clone's fetch_add adds one: there is room above the counter for every thread.
LEMMA CloneAdds ==
    ASSUME IInv, NEW h \in Handle, NEW new \in Handle, CloneAdd(h, new)
    PROVE  count' = count + 1
<1>1. count \in Nat \ {0}
  BY LiveFacts DEF CloneAdd, HeldStage
<1>2. Cardinality(Busy) < Threads
  BY DEF CloneAdd, HasThread
<1>3. count + 1 < Wrap
  BY <1>1, <1>2, Numbers, IInvSplit, NodeRcAssumption DEF ByHandle, Bounds
<1> QED BY <1>1, <1>3, NodeRcAssumption DEF CloneAdd

\* drop's fetch_sub takes one away: its own reference was counted.
LEMMA DropSubtracts ==
    ASSUME IInv, NEW h \in Handle, NEW from \in {"live", "copying"}, DropSub(h, from)
    PROVE  count' = count - 1
<1>1. count \in Nat \ {0}
  BY LiveFacts DEF DropSub, HeldStage
<1>2. count < Wrap
  BY NodeRcAssumption DEF IInv, TypeOK
<1> QED BY <1>1, <1>2, NodeRcAssumption DEF DropSub

\* The counter never wraps around, pinned or not: NodeRcAssumption's gaps are wide
\* enough for the threads that have added or subtracted and not yet pinned.
THEOREM CounterNeverWraps == ASSUME PromptStores PROVE Spec => NeverWraps
<1> DEFINE Counts == \A h \in Handle :
                        /\ Clone(h) => count' = count + 1
                        /\ Drop(h) \/ DropCopied(h) => count' = count - 1
<1>1. IInv => Counts
  BY CloneAdds, DropSubtracts DEF Clone, Drop, DropCopied
<1>2. NeverWraps <=> [][Counts]_vars
  BY DEF NeverWraps
<1> HIDE DEF Counts
<1> QED BY <1>1, <1>2, Invariance, PTL

\* A counter seen past MaxRefcount is about to be pinned, until it is.
SeenPending ==
    saturated = "seen" => \E g \in Handle : stage[g] \in {"clone_saturate", "drop_saturate"}

\* Only the store that pins the counter ends a pending pin.
LEMMA SeenStep ==
    ASSUME IInv, SeenPending, [Next]_vars
    PROVE  SeenPending'
<1>0. TypeOK
  BY DEF IInv
<1>1. ASSUME NEW h \in Handle, NEW s \in Stage, Move(h, s), saturated' = "seen",
             stage[h] \notin {"clone_saturate", "drop_saturate"} \/ s \in {"clone_saturate", "drop_saturate"},
             saturated = "seen" \/ s \in {"clone_saturate", "drop_saturate"}
      PROVE  SeenPending'
  BY <1>0, <1>1, MoveFacts DEF SeenPending
<1>2. CASE UNCHANGED vars
  BY <1>2 DEF vars, SeenPending
<1>3. ASSUME NEW h \in Handle, Clone(h) PROVE SeenPending'
  <2> SUFFICES ASSUME NEW new \in Handle, CloneAdd(h, new), saturated' = "seen" PROVE SeenPending'
    BY <1>3 DEF Clone, SeenPending
  <2> QED BY <1>1 DEF CloneAdd, See, Stage
<1>4. ASSUME NEW h \in Handle, NEW from \in {"live", "copying"}, DropSub(h, from) PROVE SeenPending'
  <2> SUFFICES ASSUME saturated' = "seen" PROVE SeenPending'
    BY DEF SeenPending
  <2> QED BY <1>1, <1>4 DEF DropSub, See, Stage
<1>5. ASSUME NEW h \in Handle, UniqueCas(h) \/ DropFree(h) \/ UniqueStore(h) \/ EndMutation(h)
      PROVE  SeenPending'
  <2> SUFFICES ASSUME saturated' = "seen" PROVE SeenPending'
    BY DEF SeenPending
  <2> QED BY <1>1, <1>5 DEF UniqueCas, DropFree, UniqueStore, EndMutation, Stage
<1>6. ASSUME NEW h \in Handle, CloneSaturate(h) \/ DropSaturate(h) PROVE SeenPending'
  BY <1>6 DEF CloneSaturate, DropSaturate, SeenPending
<1> QED BY <1>2, <1>3, <1>4, <1>5, <1>6 DEF Next, Drop, DropCopied, Finish

\* A counter that was ever seen past MaxRefcount keeps its node for ever.
THEOREM SeenLeaks == ASSUME PromptStores PROVE Spec => []SeenIsLeaked
<1>1. Init => SeenPending
  BY DEF Init, SeenPending
<1>2. IInv /\ SeenPending /\ [Next]_vars => SeenPending'
  BY SeenStep
<1>3. IInv /\ SeenPending => SeenIsLeaked
  BY IInvSplit DEF ByHandle, FreedLast, PinsAlone, SeenPending, SeenIsLeaked, TypeOK
<1> QED BY <1>1, <1>2, <1>3, Invariance, PTL DEF Spec
===============================================================================
