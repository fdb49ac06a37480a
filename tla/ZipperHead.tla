------------------------------ MODULE ZipperHead ------------------------------
(***************************************************************************)
(* A zipper head (src/src/zipper_head.rs): readers and writers at several  *)
(* paths of one trie at the same time.  The trie is a heap of nodes shared *)
(* by reference count and copied before they are written.  A writer holds  *)
(* a mutable reference to a slot, the cell of its path's last byte in the  *)
(* parent node, which prepare_exclusive_write_path makes sure exists and   *)
(* is reached through nodes nobody else refers to.  A reader owns a share  *)
(* of the node below its path.                                             *)
(*                                                                         *)
(* A node stands for one byte: the several bytes that the node types keep  *)
(* in one key are a chain of nodes here.  Memory that nothing refers to is *)
(* gone at once.  The registry of locks is its specification PathLocks.    *)
(***************************************************************************)
EXTENDS PathTrie

CONSTANTS Zipper,    \* identities of zippers, and of maps made from them
          NoZipper,  \* state of an identity that is not in use
          Byte,      \* the bytes that paths are made of
          Val,       \* the values
          NoVal,     \* a cell without a value
          TriePath,  \* the paths the trie may come to have
          Heads      \* the heads, with their clients, that are considered

(***************************************************************************)
(* A head is a record: base, where it was created, the focus of its own    *)
(* zipper; threaded, is it a ZipperHeadOwned or a ZipperHead, which is not *)
(* Sync; ends, what becomes of its writers; converts, do clients call      *)
(* into_read_zipper; paths, where clients ask for zippers; and two bounds, *)
(* within, on the paths of the trie, and most, on zippers and maps.        *)
(***************************************************************************)
HeadType == [base : TriePath, threaded : BOOLEAN, ends : SUBSET {"drop", "cleanup"},
             converts : BOOLEAN, paths : SUBSET Path, within : SUBSET TriePath, most : Nat]

\* What is known of a zipper: stage says how far its call has come, path is relative to the
\* head, abs to the trie, slot is a node and the name of a cell in it.
Owner == Zipper \cup {"map"}
Roots == {<<"roots", <<>>>>}
NodeType == SUBSET ((Owner \cup {"new"}) \X Seq(Nat))
SlotType == ({Roots} \X Owner) \cup (NodeType \X Byte)
ZipType == [mode : {"read", "write"}, stage : {"asking", "open", "leaving", "map"},
            path : Path, abs : TriePath, slot : SlotType \cup {<<>>}]

ASSUME HeadAssumption ==
    /\ TriePath \subseteq Seq(Byte) /\ IsFiniteSet(TriePath)
    /\ \A p \in TriePath : Prefixes(p) \cup Suffixes(p) \subseteq TriePath
    /\ Byte \subseteq Nat /\ IsFiniteSet(Byte)
    /\ Path \subseteq TriePath
    /\ Heads \subseteq HeadType
    /\ \A h \in Heads : /\ \A p \in h.paths : h.base \o p \in h.within
                        /\ h.threaded => h.base = <<>>
    /\ NoVal \notin Val
    /\ IsFiniteSet(Zipper) /\ "map" \notin Zipper /\ "roots" \notin Zipper
    /\ NoZipper \notin [path : Path, mode : {"read", "write"}]
    /\ NoZipper \notin ZipType

\* No place and no contents are taken for those of an identity that is not in use.
ASSUME NothingAssumption ==
    /\ NoZipper \notin TriePath
    /\ \A V \in SUBSET TriePath : NoZipper \notin [V -> Val]

VARIABLES head,     \* one of Heads
          heap,     \* node id -> node, a function from bytes to cells
          zip,      \* Zipper -> NoZipper or what is known of it
          focus,    \* the path at which the head's own zipper stands
          panicked  \* has cleanup_write_zipper unwrapped a missing node?

vars == <<head, heap, zip, focus, panicked>>

(***************************************************************************)
(* A node is known by the ways that lead to it, an owner and a path each:  *)
(* node identities carry no other meaning, and so equal heaps are equal.   *)
(* Node Roots is no node of the trie: its cells are what the owners hold,  *)
(* the head (its root node and root value) and the readers and maps.       *)
(***************************************************************************)
NoNode == {}
NoSlot == <<>>
NoCell == [rec |-> NoNode, val |-> NoVal]
EmptyNode == <<>>
HeadSlot == <<Roots, "map">>

At(h, s) == h[s[1]][s[2]]
Slots(h) == UNION {{n} \X DOMAIN h[n] : n \in DOMAIN h}
Refs(h, n) == Cardinality({s \in Slots(h) : At(h, s).rec = n})
Attached(h, s) == s \in Slots(h)

Put(f, x, v) == [y \in DOMAIN f \cup {x} |-> IF y = x THEN v ELSE f[y]]
WithCell(h, s, c) == [h EXCEPT ![s[1]] = Put(@, s[2], c)]
WithoutCell(h, s) == [h EXCEPT ![s[1]] = Restrict(@, DOMAIN @ \ {s[2]})]

\* A new node, put into slot s.
Allocate(h, s, node) ==
    LET new(k) == {<<"new", <<k>>>>}
        k == CHOOSE k \in 0..Cardinality(DOMAIN h) : new(k) \notin DOMAIN h
    IN WithCell(Put(h, new(k), node), s, [At(h, s) EXCEPT !.rec = new(k)])

\* The cell, or the slot, at the end of a path below a cell, or in the head's trie.
CellBelow(h, c, p) ==
    LET cell[k \in 0..Len(p)] ==
            IF k = 0 THEN c
            ELSE LET n == cell[k - 1].rec
                 IN IF n # NoNode /\ p[k] \in DOMAIN h[n] THEN h[n][p[k]] ELSE NoCell
    IN cell[Len(p)]
Locate(h, p) ==
    LET n == CellBelow(h, At(h, HeadSlot), Front(p)).rec
    IN CASE p = <<>> -> HeadSlot
         [] p # <<>> /\ n # NoNode /\ Last(p) \in DOMAIN h[n] -> <<n, Last(p)>>
         [] OTHER -> NoSlot

IsEmpty(h, n) == n = NoNode \/ h[n] = EmptyNode

\* The values below a cell, and the paths that exist in the head's trie.
ValuesBelow(h, c) ==
    LET V == {p \in TriePath : CellBelow(h, c, p).val # NoVal}
    IN [p \in V |-> CellBelow(h, c, p).val]
PathsOf(h) == {p \in TriePath : Locate(h, p) # NoSlot}

\* The ways to a node; none is left when its last reference has gone.
Ways(h, n) ==
    IF n = Roots THEN Roots
    ELSE {w \in (DOMAIN h[Roots]) \X TriePath : CellBelow(h, h[Roots][w[1]], w[2]).rec = n}

\* The end of an action: h and z are the new heap and the new state of the zippers.
\* Nodes that nothing leads to are freed.
Settle(h, z) ==
    LET ways == [n \in DOMAIN h \cup {NoNode} |-> IF n = NoNode THEN NoNode ELSE Ways(h, n)]
        node(x) == h[CHOOSE n \in DOMAIN h : ways[n] = x]
        renamed(n) == [b \in DOMAIN n |-> [n[b] EXCEPT !.rec = ways[@]]]
    IN /\ heap' = [x \in {ways[n] : n \in DOMAIN h} \ {NoNode} |-> renamed(node(x))]
       /\ zip' = [i \in Zipper |->
                      IF z[i] = NoZipper \/ z[i].slot = NoSlot \/ z[i].slot[1] \notin DOMAIN h
                      THEN z[i] ELSE [z[i] EXCEPT !.slot[1] = ways[@]]]
-------------------------------------------------------------------------------
Is(i, stage) == zip[i] # NoZipper /\ zip[i].stage = stage
Open(i, mode) == Is(i, "open") /\ zip[i].mode = mode
Writers == {i \in Zipper : Open(i, "write")}
Readers == {i \in Zipper : Open(i, "read")}
CellOf(i) == At(heap, zip[i].slot)

\* What the tracker of each zipper holds; paths are relative to the head.
HeldLocks ==
    [i \in Zipper |-> IF Is(i, "asking") \/ Is(i, "open")
                      THEN [path |-> zip[i].path, mode |-> zip[i].mode] ELSE NoZipper]
L == INSTANCE PathLocks WITH Tracker <- Zipper, NoTracker <- NoZipper,
                             holds <- HeldLocks, refused <- [i \in Zipper |-> NoZipper]

\* A ZipperHead is used by one thread, a ZipperHeadOwned takes its mutex only
\* between the two halves of granting a zipper and of cleaning up after one.
HeadFree == head.threaded \/ \A i \in Zipper : ~Is(i, "asking") /\ ~Is(i, "leaving")

(* Mutated forms of definitions below; each is a mistake a property excludes. *)

\* writes to nodes whatever the number of references
MakeMut_NeverCopies(h, s) == IF At(h, s).rec = NoNode THEN Allocate(h, s, EmptyNode) ELSE h

\* leaves the cell of a new path without a node
EnsureNode_Never(h, s) == h
-------------------------------------------------------------------------------
\* make_unique and make_mut of the node in a slot; a missing one is created.
MakeMut(h, s) ==
    LET n == At(h, s).rec
    IN CASE n = NoNode -> Allocate(h, s, EmptyNode)
         [] n # NoNode /\ Refs(h, n) > 1 -> Allocate(h, s, h[n])
         [] OTHER -> h

\* prepare_cf: "A zipper can't be rooted at the empty sentinel".
EnsureNode(h, s) == IF At(h, s).rec = NoNode THEN Allocate(h, s, EmptyNode) ELSE h

\* One byte down for writing, and a whole path.
Descend(h, s, b) ==
    LET g == MakeMut(h, s)
        t == <<At(g, s).rec, b>>
    IN [heap |-> IF Attached(g, t) THEN g ELSE WithCell(g, t, NoCell), slot |-> t]
Walk(h, s, p) ==
    LET walk[k \in 0..Len(p)] ==
            IF k = 0 THEN [heap |-> h, slot |-> s]
            ELSE Descend(walk[k - 1].heap, walk[k - 1].slot, p[k])
    IN walk[Len(p)]

\* prepare_exclusive_write_path: the slot for a writer at p, below the focus.
Prepare(h, p) ==
    LET f == Walk(h, HeadSlot, focus)
        w == Walk(MakeMut(f.heap, f.slot), f.slot, p)
    IN [w EXCEPT !.heap = EnsureNode(@, w.slot)]

\* splitting_borrow_focus: a node of its own at the focus, for readers.
SplitAtFocus(h) ==
    LET s == Locate(h, focus)
        f == Walk(h, HeadSlot, focus)
    IN IF s # NoSlot /\ At(h, s).rec # NoNode THEN h ELSE EnsureNode(f.heap, f.slot)
-------------------------------------------------------------------------------
\* The map has a root node, ensure_root; its only way is from the head.
Init == /\ head \in Heads
        /\ heap = LET n == {<<"map", <<>>>>}
                  IN Put([r \in {Roots} |-> [m \in {"map"} |-> [rec |-> n, val |-> NoVal]]], n, EmptyNode)
        /\ zip = [i \in Zipper |-> NoZipper]
        /\ focus = head.base
        /\ panicked = FALSE

\* The bound on identities in use.
Room == Cardinality({i \in Zipper : zip[i] # NoZipper}) < head.most

Now(i, z) == [zip EXCEPT ![i] = z]

\* ZipperTracker::new for read_zipper_at_path, read_zipper_at_borrowed_path and
\* write_zipper_at_exclusive_path; a refused request changes nothing.
Request(i, p, mode) ==
    /\ HeadFree
    /\ zip[i] = NoZipper /\ Room
    /\ ~L!Blocked([path |-> p, mode |-> mode])
    /\ zip' = Now(i, [mode |-> mode, stage |-> "asking", path |-> p, abs |-> <<>>, slot |-> NoSlot])
    /\ UNCHANGED <<heap, focus, panicked>>

Opened(i, s) == [zip[i] EXCEPT !.stage = "open", !.abs = focus \o zip[i].path, !.slot = s]

(* Mutated forms, as above. *)

\* does not look at the value at the reader's path
EnterRead_NoVal(i) ==
    /\ Is(i, "asking") /\ zip[i].mode = "read"
    /\ LET h == SplitAtFocus(heap)
           c == CellBelow(h, At(h, HeadSlot), focus \o zip[i].path)
       IN Settle(WithCell(h, <<Roots, i>>, [c EXCEPT !.val = NoVal]),
                 Now(i, Opened(i, <<Roots, i>>)))
    /\ UNCHANGED <<focus, panicked>>

\* the path buffer of the head's zipper is not truncated
EnterWrite_LeavesFocus(i) ==
    /\ Is(i, "asking") /\ zip[i].mode = "write"
    /\ LET w == Prepare(heap, zip[i].path) IN Settle(w.heap, Now(i, Opened(i, w.slot)))
    /\ focus' = focus \o zip[i].path
    /\ UNCHANGED panicked
-------------------------------------------------------------------------------
\* new_isolated_in: the reader owns a share of the node below its path, and a
\* copy of the value.
EnterRead(i) ==
    /\ Is(i, "asking") /\ zip[i].mode = "read"
    /\ LET h == SplitAtFocus(heap)
           c == CellBelow(h, At(h, HeadSlot), focus \o zip[i].path)
       IN Settle(WithCell(h, <<Roots, i>>, c), Now(i, Opened(i, <<Roots, i>>)))
    /\ UNCHANGED <<focus, panicked>>

EnterWrite(i) ==
    /\ Is(i, "asking") /\ zip[i].mode = "write"
    /\ LET w == Prepare(heap, zip[i].path) IN Settle(w.heap, Now(i, Opened(i, w.slot)))
    /\ UNCHANGED <<focus, panicked>>

\* Operations of a writer: h is the heap afterwards.
WriterStep(i, h) ==
    /\ Settle(h, zip)
    /\ UNCHANGED <<focus, panicked>>
CanWrite(i) == i \in Writers /\ Attached(heap, zip[i].slot)

\* set_val, at the writer's root (r is empty) or one byte below it.
Set(i, r, v) ==
    /\ CanWrite(i)
    /\ zip[i].abs \o r \in head.within
    /\ LET w == Walk(heap, zip[i].slot, r)
       IN WriterStep(i, WithCell(w.heap, w.slot, [At(w.heap, w.slot) EXCEPT !.val = v]))

RemoveRootVal(i) ==
    /\ CanWrite(i)
    /\ WriterStep(i, WithCell(heap, zip[i].slot, [CellOf(i) EXCEPT !.val = NoVal]))

\* remove_val(true) one byte below the root.
RemoveValBelow(i, b) ==
    /\ CanWrite(i)
    /\ ~IsEmpty(heap, CellOf(i).rec) /\ b \in DOMAIN heap[CellOf(i).rec]
    /\ LET w == Walk(heap, zip[i].slot, <<b>>)
           c == [At(w.heap, w.slot) EXCEPT !.val = NoVal]
       IN WriterStep(i, IF IsEmpty(w.heap, c.rec) THEN WithoutCell(w.heap, w.slot)
                        ELSE WithCell(w.heap, w.slot, c))

\* The bound on what is put below a writer.
Fits(i, c) ==
    \A p \in TriePath : CellBelow(heap, c, p) # NoCell => zip[i].abs \o p \in head.within

\* graft at the writer's root: the node of the source is shared, not copied, and
\* its root value is copied (graft_root_vals).
Graft(i, j) ==
    /\ CanWrite(i)
    /\ i # j /\ (Is(j, "open") \/ Is(j, "map")) /\ Attached(heap, zip[j].slot)
    /\ Fits(i, CellOf(j))
    /\ LET src == CellOf(j)
           own == CellOf(i)
           h == CASE ~IsEmpty(heap, src.rec) ->
                        WithCell(heap, zip[i].slot, [own EXCEPT !.rec = src.rec])
                  [] IsEmpty(heap, src.rec) /\ ~IsEmpty(heap, own.rec) ->
                        Allocate(heap, zip[i].slot, EmptyNode)
                  [] OTHER -> heap
       IN WriterStep(i, WithCell(h, zip[i].slot, [At(h, zip[i].slot) EXCEPT !.val = src.val]))

\* make_map: the map shares the node below the zipper's root.
MakeMap(i, j) ==
    /\ Is(i, "open") /\ Attached(heap, zip[i].slot)
    /\ zip[j] = NoZipper /\ Room
    /\ Settle(WithCell(heap, <<Roots, j>>,
                       [CellOf(i) EXCEPT !.rec = IF IsEmpty(heap, @) THEN NoNode ELSE @]),
              Now(j, [mode |-> "read", stage |-> "map", path |-> <<>>, abs |-> <<>>,
                      slot |-> <<Roots, j>>]))
    /\ UNCHANGED <<focus, panicked>>

\* WriteZipperTracked::into_read_zipper: the reader keeps the writer's slot.
IntoReader(i) ==
    /\ head.converts
    /\ i \in Writers
    /\ zip' = Now(i, [zip[i] EXCEPT !.mode = "read"])
    /\ UNCHANGED <<heap, focus, panicked>>

\* Drop of a reader or a map.
DropShare(i) ==
    /\ i \in Readers \/ Is(i, "map")
    /\ Settle(IF zip[i].slot = <<Roots, i>> THEN WithoutCell(heap, <<Roots, i>>) ELSE heap,
              Now(i, NoZipper))
    /\ UNCHANGED <<focus, panicked>>

DropWriter(i) ==
    /\ "drop" \in head.ends
    /\ i \in Writers
    /\ zip' = Now(i, NoZipper)
    /\ UNCHANGED <<heap, focus, panicked>>

\* cleanup_write_zipper, first half: the zipper is dropped, and its lock with it.
Leave(i) ==
    /\ "cleanup" \in head.ends
    /\ HeadFree
    /\ i \in Writers
    /\ zip' = Now(i, [zip[i] EXCEPT !.stage = "leaving", !.slot = NoSlot])
    /\ UNCHANGED <<heap, focus, panicked>>

-------------------------------------------------------------------------------
(* Mutated forms, as above. *)

\* takes the value along with the empty node
PruneEnd_DropsValue(h, p) == WithoutCell(h, Locate(h, p))

\* does not climb
PruneEnd_OneLevel(h, p) ==
    LET s == Locate(h, p)
    IN IF At(h, s).val # NoVal THEN WithCell(h, s, [At(h, s) EXCEPT !.rec = NoNode])
       ELSE WithoutCell(h, s)

\* climbs past branches, up to the root
PruneEnd_IgnoresSiblings(h, p) ==
    IF At(h, Locate(h, p)).val # NoVal
    THEN WithCell(h, Locate(h, p), [At(h, Locate(h, p)) EXCEPT !.rec = NoNode])
    ELSE Allocate(h, HeadSlot, EmptyNode)
-------------------------------------------------------------------------------
\* prune_path at the end of p: an empty node below a value is taken off; else the
\* path is cut at the last cell above that has a value or a sibling.
PruneEnd(h, p) ==
    LET slot(k) == Locate(h, SubSeq(p, 1, k))
        cell(k) == At(h, slot(k))
        stops(k) == k = 0 \/ cell(k).val # NoVal \/ Cardinality(DOMAIN h[cell(k).rec]) > 1
        keep == Max({k \in 0..(Len(p) - 1) : stops(k)})
    IN IF cell(Len(p)).val # NoVal
       THEN WithCell(h, slot(Len(p)), [cell(Len(p)) EXCEPT !.rec = NoNode])
       ELSE WithoutCell(h, slot(keep + 1))

\* Second half, with the head's zipper: move_to_path counts from that zipper's
\* root, not from the head's focus, and reset leaves it at its root.
Cleanup(i) ==
    /\ Is(i, "leaving")
    /\ LET p == zip[i].path
           s == Locate(heap, p)
           h == Walk(heap, HeadSlot, p).heap
       IN IF s = NoSlot \/ At(heap, s).rec = NoNode
          THEN /\ panicked' = TRUE
               /\ zip' = Now(i, NoZipper)
               /\ UNCHANGED <<heap, focus>>
          ELSE /\ Settle(IF p # <<>> /\ IsEmpty(heap, At(heap, s).rec) THEN PruneEnd(h, p) ELSE h,
                         Now(i, NoZipper))
               /\ focus' = <<>>
               /\ UNCHANGED panicked

ZipperStep(i) ==
    \/ \E p \in head.paths, mode \in L!Mode : Request(i, p, mode)
    \/ EnterRead(i)
    \/ EnterWrite(i)
    \/ \E r \in {<<>>} \cup {<<b>> : b \in Byte}, v \in Val : Set(i, r, v)
    \/ RemoveRootVal(i)
    \/ \E b \in Byte : RemoveValBelow(i, b)
    \/ \E j \in Zipper : Graft(i, j) \/ MakeMap(i, j)
    \/ IntoReader(i)
    \/ DropShare(i)
    \/ DropWriter(i)
    \/ Leave(i)
    \/ Cleanup(i)

Next == (\E i \in Zipper : ZipperStep(i)) /\ UNCHANGED head

Spec == Init /\ [][Next]_vars
-------------------------------------------------------------------------------
TypeOK ==
    /\ \A n \in DOMAIN heap :
          /\ n = Ways(heap, n)
          /\ DOMAIN heap[n] \subseteq IF n = Roots THEN Owner ELSE Byte
          /\ \A b \in DOMAIN heap[n] :
                /\ heap[n][b].rec \in (DOMAIN heap \ {Roots}) \cup {NoNode}
                /\ heap[n][b].val \in Val \cup {NoVal}
    /\ zip \in [Zipper -> ZipType \cup {NoZipper}]
    /\ \A i \in Zipper : zip[i] # NoZipper => zip[i].slot \in Slots(heap) \cup {NoSlot}
    /\ focus \in TriePath
    /\ panicked \in BOOLEAN

\* The book on writers (1.03.00_multi_zipper.md): the path is "reserved strictly
\* for this zipper, while it exists".  The slot a writer holds is the one its path
\* leads to, and every node on the way is referred to once: no copy-on-write of
\* another zipper, cleanup or graft can leave the writer with memory that is no
\* longer part of the trie, or that something else can see.
WritersAttached ==
    \A i \in Writers :
        /\ Locate(heap, zip[i].abs) = zip[i].slot
        /\ CellOf(i).rec # NoNode
        /\ \A k \in 0..(Len(zip[i].abs) - 1) :
              Refs(heap, At(heap, Locate(heap, SubSeq(zip[i].abs, 1, k))).rec) = 1

Current(i) ==
    /\ Attached(heap, zip[i].slot)
    /\ ValuesBelow(heap, CellOf(i))
          = ValuesBelow(heap, CellBelow(heap, At(heap, HeadSlot), zip[i].abs))

\* A reader sees the trie as it is, for as long as it lives: what it holds exists,
\* and equals what is at its path now, although it owns its own copy.
ReadersCurrent == \A i \in Readers : zip[i].slot = <<Roots, i>> => Current(i)

\* into_read_zipper: "The returned read zipper will have the same root and focus as the
\* the consumed write zipper" (write_zipper.rs:534).  It owns no share, and has to see the
\* trie as it is, too.
ConvertedCurrent == \A i \in Readers : zip[i].slot # <<Roots, i>> => Current(i)

\* A writer has its part of the trie to itself: the exclusion the locks promise
\* for paths relative to the head holds for the places they stand for.
OpenExclusive ==
    \A i, j \in Readers \cup Writers :
        i # j /\ Comparable(zip[i].abs, zip[j].abs) => {i, j} \subseteq Readers

\* cleanup_write_zipper "May panic if `zipper` did not originate from the `self`
\* `ZipperHead`" (zipper_head.rs:82), and only then.
NoPanic == ~panicked

\* cleanup_write_zipper "is necessary because the act of creating a write zipper at
\* a path will create the parent path" (zipper_head.rs:79): when every writer ends
\* that way and prunes, no path is left that leads neither to a value nor to a
\* writer.
NoLitter ==
    head.ends = {"cleanup"} => \A p \in PathsOf(heap) \ {<<>>} :
        \/ \E v \in DOMAIN ValuesBelow(heap, At(heap, HeadSlot)) : IsPrefix(p, v)
        \/ \E i \in Zipper : (i \in Writers \/ Is(i, "leaving")) /\ IsPrefix(p, zip[i].abs)

\* What is in the trie, what readers and maps see of it, and where writers are.
Contents == ValuesBelow(heap, At(heap, HeadSlot))
Views == [i \in Zipper |-> IF (i \in Readers \/ Is(i, "map")) /\ Attached(heap, zip[i].slot)
                           THEN ValuesBelow(heap, CellOf(i)) ELSE NoZipper]
Places == [i \in Zipper |-> IF i \in Writers THEN zip[i].abs ELSE NoZipper]
Store == INSTANCE PathStore WITH
    StorePath <- TriePath, StoreVal <- Val, Client <- Zipper, Nothing <- NoZipper,
    store <- Contents, view <- Views, writing <- Places

\* Preparing and pruning paths, copying nodes and sharing them changes nothing
\* anybody can observe: the values are those that writers set below their own
\* paths while they had them to themselves, and no reader or map ever sees a write.
ImplementsStore == Store!StoreSpec
===============================================================================
