# PathMap: specifications, model checking and proofs

PathMap (Rust) is a key-value store over byte paths: a trie of shared, reference-counted nodes, read and
written through *zippers*. This directory holds TLA+ models of the parts of it where being right is hard to
test, the TLC runs that check them on small instances, and proofs, checked by TLAPS, of what matters most for
every instance.

Line numbers refer to the files under `src/src/`; `PROJECT.json` maps every definition to the lines it models.

## 1. The system

| component | state | operations | what makes it correct |
|---|---|---|---|
| Zipper registry (`zipper_tracking.rs`) | two tries behind one lock: write locks, reader counts | create, clone, downgrade and drop trackers; `path_status` | a writer excludes every zipper on a comparable path; the tries say exactly who is alive; refusals have a cause |
| Zipper heads (`zipper_head.rs`) | a write zipper at the head's root or focus, a registry; `ZipperHeadOwned` adds a mutex | grant readers and writers, prepare the writer's path, clean up | a writer's slot stays in the trie and is its own; readers are isolated yet current; nothing observable changes by preparing or pruning |
| Node references (`trie_node.rs`) | a 32-bit counter in each node | clone, drop, make_unique, make_mut | a node outlives its handles, is written only by a sole owner, is freed in the end unless its counter saturated |
| Maps (`trie_map.rs`, `trie_ref.rs`) | a root node and a root value | point operations, algebra, zippers | copies are independent |
| Write zippers (`write_zipper.rs`) | a stack of mutable nodes and a path buffer | set, remove, graft, join, meet, subtract, restrict, prefixes, pruning | the trie is the expected function of the operands; no dangling path where pruning was asked for |
| Read zippers (`zipper.rs`) | a stack of nodes and a path buffer | movement, iteration, k-paths | depth-first order, never outside the zipper's root |
| Node types (`line_list_node.rs`, `dense_byte_node.rs`, `tiny_node.rs`, `empty_node.rs`, `bridge_node.rs`) | keys, values, children in compact form | the `TrieNode` trait: about 60 operations | each is the trie it stands for |
| Lattice algebra (`ring.rs`) | none | join, meet, subtract, restrict, results with identity masks | `Identity` only when the result equals an operand |
| Zipper combinators (`product_`, `prefix_`, `overlay_`, `dependent_`, `subtract_`, `empty_zipper.rs`) | inner zippers, and what was found out about them (entered factors, probes, a witness) | the zipper interface | the zipper of the combined trie |
| Zipper algebra (`experimental/zipper_algebra.rs`) | the zippers of up to 64 tries and the one written to, grafts put off | join, meet, subtract, symmetric difference of n tries, disjunctions of conjunctions | the operation at each path, however the tries branch and share nodes |
| Morphisms, merkleization (`morphisms.rs`, `merkleization.rs`) | an explicit stack, a cache by node | catamorphisms, anamorphisms, hashing | the cached and the plain result are equal |
| Compact arena trie (`arena_compact.rs`) | an append-only run of nodes in memory or a file, a cache of lines; a zipper's frames | build, stream, merge, open, traverse | it reads as what it was built from and as what was merged since, and so do its older roots |
| Serialization (`experimental/serialization.rs`, `paths_serialization*.rs`) | the lines written so far with their file, an accumulator; the runs of an external sort | write a trie with equal subtries once, read it; streams of paths, sorted with little memory | what is read is what was written; the lines stay in step with the file |
| Support code, differential tests, the Lean model | - | - | not modelled, see section 7 |

How they interact. A zipper head asks the registry for a lock, then walks its own write zipper to the path, making
every node on the way unique, and hands out a raw mutable reference to one cell. Zippers are `Send`: the holders of
such references run on any thread, and never take the head's lock again. Readers own a share of a node, so
that only the reference counts stand between them and a writer. Maps, grafts and snapshots share nodes freely.
So the safety of the whole rests on three things that are each a model here: the registry is exact, the
preparation of a path leaves nothing shared, and the counter tells truly when a node is unshared. Its
correctness rests on a fourth: a write zipper keeps a stack of nodes while its own calls split, upgrade, prune and
replace them, and whatever shape the nodes have taken, the trie they stand for is the one the calls promise.

Reading is the other half. Every zipper, over nodes, over other zippers or over nothing, promises the same: a focus in a trie,
moved and read by some forty calls, many of which the traits provide in terms of others. What makes that hard is
what implementations keep between calls so as not to search again. The algebra works on the nodes themselves, in every pairing of
formats, and reports upwards whether a result is an operand; its callers believe the report and keep the operand.

Hard behaviours: critical sections of trackers that interleave (a downgrade is two of them); locks
taken before and released outside the head's mutex; atomic counter operations that interleave; a counter that
saturates; copy-on-write of a node to which somebody holds a raw reference; pruning of paths that others are
just creating; traversals that leave a subtrie; long sequences of calls on one zipper whose stack has to follow the
nodes; keys that meet the limit of a node's buffer or span the zipper's root. They are listed under `hazards` in `PROJECT.json`, each at its line with
the properties that cover it.

## 2. Modules

| module | what it is |
|---|---|
| `PathTrie` | a trie as a set of paths and a partial function to values: `SetVal`, `RemoveVal`, `PrunePath` of write zippers, and `ValsAfter`, what `to_next_val` can still reach |
| `PathLocks` | abstract: locks on paths, granted when nothing is in the way, refused only when something is |
| `ZipperTracking` | the registry: both tries, one action per critical section |
| `NodeRc` | the counter of one node: one action per atomic operation |
| `PathStore` | abstract: a store of values by path, written only by writers below their own paths, and immutable views of it |
| `ZipperHead` | heads, readers, writers and maps over a heap of nodes; uses `PathLocks` for the registry |
| `TrieNodes` | line-list nodes and byte nodes: each operation as an operator from a node to the node after it and what it returns |
| `ZipperSpec` | abstract: a map as a trie of paths and values, a zipper as an origin and a focus, and what each call promises |
| `WriteZipper` | a map of `TrieNodes` and the write zipper over it: its path buffer, its node stack, one action per call |
| `Cursor`, `CursorSpec` | abstract: what the zipper traits promise, as operators on a trie and a focus and as a state machine |
| `ZipperMoving`, `ZipperIteration`, `ZipperLastVal` | the methods the traits provide, in terms of those they require |
| `NodeIter` | what a read zipper asks of a node: places in it (iteration tokens), items, children, siblings |
| `ReadZipper` | `ReadZipperCore` over nodes |
| `PrefixZipper`, `OverlayZipper`, `SubtractZipper`, `EmptyZipper`, `ProductZipper`, `FactorZipper` | the combinators; `FactorZipper` is both generic products |
| `PolyZipper` | a zipper behind the derived enum: which methods are handed on, which are the traits' |
| `AnyZipper`, `ZipperCalls` | a zipper of any kind, and a client that calls it |
| `Morphism` | catamorphisms: the walk of a fold, with jumps or results kept for shared nodes |
| `Arena`, `ArenaBuild`, `ActZipper` | an arena and how it is written, the builders that walk a zipper, the zipper over it |
| `NodeAlgebra` | `pjoin`, `join_into`, `pmeet`, `psubtract`, `prestrict`, `drop_head` of nodes, with `AlgebraicResult` |
| `MapAlgebra` | the algebra of maps and of write zippers, over `NodeAlgebra` |
| `LatticeSpec` | abstract: the algebra on tries of paths and values, and what results and statuses may say |
| `ZipperMerge` | the zipper algebra: its entry points, its policies and its loops |
| `TrieRef` | references to a place in a trie, borrowed or owned, which do not move |
| `Serialization` | files of lines and streams of paths, written by a fold and read again; the external sort of a stream |
| `PathTrieProofs`, `ZipperTrackingProofs`, `NodeRcProofs` | theorems |
| `ZipperHeapProofs`, `ZipperHeadProofs`, `ZipperStoreProofs` | theorems about `ZipperHead`: lemmas on its heap, on its steps, and on the values that are seen and the paths that lead to them |
| `MCZipperTracking`, `MCZipperHead`, `MCWriteZipper`, `MCZipperCalls`, `MCMapAlgebra` | small instances for TLC |

`PathLocks` sits between two levels: `ZipperTracking` is proved to implement it, and `ZipperHead` uses it in
place of the registry; `ZipperHead` is proved to implement `PathStore`. `ZipperSpec` is built on `PathTrie`; `WriteZipper` on `TrieNodes`, and TLC checks that it
implements `ZipperSpec`. `ZipperCalls` composes all zippers and implements `CursorSpec`; `MapAlgebra` is built on `NodeAlgebra`,
which is built on `TrieNodes`, and implements `LatticeSpec`. `WriteZipper` and `ZipperHead` look at the same code from two sides: one zipper with its nodes in their
real formats and no sharing, many zippers over shared nodes of one simple format.

### ZipperTracking

`written` and `reads` are the tries `written_paths` and `read_paths` of `TrackerPaths`; `tracker` records what each
`ZipperTracker` object tracks; `conflict` is the last `Conflict` it was refused with. `NewWriter` and `NewReader` are the
constructors with `try_add_writer` and `try_add_reader`; `CloneReader` is `Clone`; `IntoReaderAdd` and
`IntoReaderRelease` are the two critical sections of `into_reader`; `DropTracker` is `Drop` with `remove_lock`. `PathStatus` is a
read-only section. The conflict check is modelled as the code does it: walk along the path to the first
value, and if the path exists to its end, ask `to_next_val` for the next value in the *whole* trie. That it
answers only with values below the path relies on there being no dangling paths (`NoDangling`). The panic
"Lock is missing" is the variable `panicked`.

The increment of a clone is unchecked in the code and at `u32::MAX` would make the `NonZeroU32` zero. `Room` in `CloneReader` bounds the clients instead:
nobody clones a reader of a path that has as many as can be counted, which takes 2^32 trackers. Checked requests do come at the limit. A
writer that is downgraded is alone at its path, so that its unchecked increment needs no bound.

The comment on `path_status` (225) says that the status is what a request at the same instant would have got. At the limit of the count it
is not: `try_add_reader` refuses (268-273) while the status is `AvailableForReading`. `StatusForetells` states what is true,
with that exception: a request for a writer is granted if and only if the status is `Available`, one for a reader if and only if it
is not `Unavailable` and there is `Room`.

### NodeRc

`count` is the `AtomicU32`, `stage[h]` what the owner of handle `h` is in the middle of. `CloneAdd`, `DropSub` and
`UniqueCas` are the atomic operations that begin `clone`, `drop` and `make_unique`; `CloneSaturate`, `DropSaturate`,
`DropFree`, `UniqueStore`, `DropCopied` and `EndMutation` finish them. `MaxRefcount`, `Saturation` and `Wrap` are constants, and
`NodeRcAssumption` states the two gaps the code's comment asks for, in terms of the number of threads.
`saturated` is a history variable. The memory orderings are not modelled: the model is sequentially consistent.

`PromptStores` is an assumption on scheduling, written as a guard. With it, no drop that has
subtracted from a saturated counter is held up before its store for so long that *all* other references go. In
the code this takes 2^31 - 1 drops in that window. Without it (`PromptStores = FALSE`) the comment's claim that a counter
once seen past the threshold is leaked (`SeenIsLeaked`) does not hold, a divergence of principle.

The counter is taken modulo `Wrap`, as an `AtomicU32` is, so its range says nothing. `NeverWraps` says that no `fetch_add` and no
`fetch_sub` ever goes around: each changes the counter by one.

### ZipperHead

`heap` maps node identities to nodes, functions from bytes to cells with a child (`rec`) and a value. A node
stands for one byte: the several bytes a line-list node keeps in a key are a chain here, so that more sharing
is possible in the model than in the code, never less. Identities carry no meaning: at the end of each action
`Settle` renames every node to the set of ways (owner and path) that lead to it, which makes equal heaps equal
states and frees what nothing leads to. `zip` holds the state of each zipper: *asking* (locked, not yet
granted), *open*, *leaving* (lock released, cleanup pending), or a *map*. `slot` is the cell a writer refers
to, or the cell of node `Roots` in which a reader or map keeps its own share. `focus` is where the head's own zipper stands.

| action | code |
|---|---|
| `Request` | `ZipperTracker::new` at the beginning of the granting methods |
| `EnterRead` | `splitting_borrow_focus`, `new_isolated_in` under the mutex |
| `EnterWrite` | `prepare_exclusive_write_path` with `prepare_node_at_path_end`, `prepare_cf` |
| `Set`, `RemoveRootVal`, `RemoveValBelow`, `Graft` | `set_val`, `remove_val`, `graft` of a writer |
| `MakeMap`, `IntoReader` | `make_map`, `into_read_zipper` |
| `DropShare`, `DropWriter` | drops |
| `Leave`, `Cleanup` | the two halves of `cleanup_write_zipper`: `drop(z)`, and the part under the mutex |

`head` records the head that is looked at, one of the constant `Heads`. `threaded` distinguishes `ZipperHeadOwned` (a
mutex, any number of threads: the halves interleave) from `ZipperHead` (not `Sync`: `HeadFree` makes each pair of halves
one operation of the head, while writers go on writing). `base` is the path at which the head was created; a
`ZipperHeadOwned` is always at the root of its own zipper. `paths`, `within` and `most` are bounds.
`ends` and `converts` say what clients do. Writers write at their root and one byte below it; how pruning
works at depth inside a writer is `PathTrie`'s `PrunePath`. The unchecked variants of the granting methods are left
out: their callers promise what the locks decide here. A step of a writer on memory that is no longer in the heap is undefined
behaviour in Rust and not taken; that such states are unreachable is `WritersAttached`.

### TrieNodes and WriteZipper

A list node is a sequence of at most two slots, each a key and a value or a child; the order of slots is the code's,
and `NodesOk` is `validate_node`. A byte node is a function from bytes to cells. `NoNode` is the empty sentinel a path
dangles from. Operations that answer in the code with a replacement node (`Err`) return it with `err`, and those that
report a created sub-node with `sub`, which is what makes the zipper mend its root and descend again. `KeyCap` is
`KEY_BYTES_CNT`, 42 in the code; a key that does not fit becomes a chain of nodes (`Chain`, `AddSlot`).

A zipper `z` has `buf` (`prefix_buf`), `origin` (the length of `origin_path`), `rks` (`root_key_start`) and `idx` (`prefix_idx`); the
node stack is not separate state: the code's pointers are replaced by the places at which the nodes begin, so that a stack
that no longer fits the trie shows as a place where no node begins (`StackOnNodes`). `Top` is the top of the stack. Each
call is one action, which makes all the calls the code makes: the node operation, the replacement of the top node,
`mend_root`, `descend_to_internal`, and with `prune` the walk up of `prune_path_internal` and the descent that ends it.

| definition | code |
|---|---|
| `InTop` | `in_zipper_mut_static_result`: an operation on the top node, retried on its replacement, then `mend_root` and `descend_to_internal` |
| `with_node_at_path` | its four branches, for operations at a path below the focus |
| `PruneStop`, `prune_path_internal` | the loop up to the first branch, value or root, and the cut |
| `node_prune_limit`, `preserve_prune_limit` | how much of a node's key lies above the zipper's root |
| `GraftNode`, `GraftWithVal`, `GraftChildren` | `graft_internal`, `graft_map`, both ways of `graft_child_maps` |
| `MapSetVal` | `PathMap::set_val_at`, between zippers |

`last` holds the last call and its result, `seen` the trie readers find (`TrieIn`, by the read operations of nodes); both exist
for the refinement and decide nothing, so the configurations leave them out of the fingerprint (`VIEW NoHistory`): every step
TLC generates is still judged with its results. Grafted maps come as they are built by `set_val_at`. The fourth
branch of `with_node_at_path`, for a focus and path longer together than `MAX_NODE_KEY_BYTES` (`MaxKey`, 48 in the code), is
reached by the clients `TightKeys` of `MCWriteZipper`, for which `MaxKey` and `KeyCap` are 2 (`Tight`, a second instance of the module;
the variable `tight` says which one a behaviour runs). `client` is what the zipper is called with, one of the
constant `Clients`; its field `within` bounds the paths of the map.

### ReadZipper and NodeIter

`ReadZipper`'s record is the code's struct: `prefix_buf` (empty until `prepare_buffers`, which several calls look at), `ancestors` with the
lengths at which each node ends, a `token` for the focus node and one for each on the stack. The focus node is regularized (the
linked one) between calls; `deregularize`, `regularize` and the calls in
between are explicit. A token is what the node's own format makes of it: an offset in the key buffer of a list node, with the bit for
a missed path, the next byte of a byte node. `Chunk` and `ChunkSize` are the sizes at which `descend_to_existing` cuts its
argument; `ChunkAssumption` is what its correctness needs.

`TokensCanonical`, a part of `CachesHold`, is the claim that makes tokens safe: one that was kept, adjusted by `reascend_iter_token` or handed
down, is the one a fresh search would give. `StackLeadsToFocus` relates the stack to the trie, and says that the focus node is regularized.

### The zipper kinds

A zipper is `[kind, of]`. Combinators stand on `Cursor`s, zippers that keep the promises of the traits: what the combinator does
wrong is then its own. `ProductZipper` is the exception: it pushes the roots of its factors onto the stack of one `ReadZipper`, so
it stands on nodes. `"poly"` is a read zipper seen through `PolyZipper`. `obs` is the path a client follows by return values and by the `PathObserver`
alone. `ProductOf` and `DependentOn` in `ZipperCalls`, and `TrieOver` in the combinators, say which trie a combinator is a zipper of; for `SubtractZipper` values are sets of atoms.

Each call of the interface is one action of `ZipperCalls`. Where a kind is known not to keep the promise the action is guarded
(`UntilKept`, `BranchKept`, `CheckKept`, `NextKKept`, `FirstKKept`, `OnPrefix`, `NextValKept`, `CountKept`); section 6 says what happens there, and with
`Everywhere = TRUE` the guards are off. `MaxDepth` and `ArchiveDepth` bound how far a client goes below the root of its zipper.

### Arena, ArenaBuild, ActZipper and Morphism

An arena is a sequence of objects (branches, lines, the bytes of lines, what a file ends with); an id is a place in it, where
the code has a byte offset. Nodes refer to what is before them, and a branch to the first of its children only, which lie side by
side. `Arena` has what writes to it: `push`, `add_path` with the line cache (`entries`: how many it keeps), `make_node`,
the frames of `ACTOutputStream`. `Morphism` is the loop of `cata_side_effect_body` and that of
`into_cata_cached_body`; the algebra and the zipper are its parameters. `ArenaBuild` uses it for `build_arena_tree`,
and has `build_arena_tree_cached` and `ZipperMerger`, which loop on their own. `shared_node_id` answers for the constant `SharedNodes`, nodes that are one
node wherever they occur.

In `ZipperCalls` the actions `FromZipper`, `FromZipperCached`, `Stream`, `Merge` and `OpenAt` end with a zipper over the arena
that they make or open, of kind `"act"`, on which the client calls everything else; `Cata` gives the four folds an algebra that makes the trie again. Its
record has two histories: `before`, the tries that the arena's roots are to read as, newest first, and `plain`, whether the
arena is as a fold without sharing makes it. A merge goes to the arena as it lies in the file; there the line cache is
empty. Folds are called at the root and one byte below it (`Near`); they begin with a reset.

### NodeAlgebra and MapAlgebra

A result is `[is, mask, of]`: none, identity with a mask, or a new node, as in `AlgebraicResult`. The two formats are merged in all
four pairings (`merge_list_nodes`, `merge_into_list_node`, `merge_from_list_node`, the byte node's cell loops), list entries
with keys that share a beginning, `pmeet_generic` with its grouping of requests by link, `FatAlgebraicResult`, and the
conversions that follow. Node identity, which the code compares before it looks into nodes (`ptr_eq`), is the variable `shares`: with it, equal
nodes are one node; without, all are copies. Both must give the same tries, and neither a false mask.

`MapAlgebra` has one action per call of `PathMap` and of the write zipper, with the value at the focus, the graft or removal that
follows, pruning, and the status that is returned. `Operands` are the maps; `Foci` what a read zipper may have at its focus besides; `Small`,
`Fits` and `MaxPaths` bound the map that results from steps. `call` is the last call, left out of the fingerprint as in the write zipper
runs.

### ZipperMerge

`stack` holds the calls that are under way, innermost first: each a loop with its operation (`op`), its zippers (`zs`), its depth (`k`),
the next byte of each zipper and the grafts put off. One action is one turn of a loop: `DescendAll` (all zippers have the byte),
`GraftSingle` (one has it), `DescendSome` (a call is made for those that have it), `LeaveLevel`, and the two of the disjunctive form. All
zippers of a call stand at `path`. The three unrolled functions and the array version run the same turns, and differ in whom `DescendSome`
calls and in which operand counts as the left one. `shared_node_id` answers where a node begins (`begins`) and no value lies over it.

`JoinPolicy` to `SymDiffPolicy` are the four implementations of `MergePolicy`, as the sets of arguments for which each method acts. `zipper_join`
to `zipper_sym_diff` give the calls an entry point makes for n zippers, as a tuple and as an array; `zipper_majority` is the formula of three clauses.
`Requests` is everything a client may ask of the module's traits.

### TrieRef and Serialization

`TrieRef` has the constructors of borrowed and owned references, the walk that keeps a node, a rest of a key of at most
`MAX_NODE_KEY_BYTES` bytes and a value, and every read. `Reads` of `ZipperCalls` checks it at the focus of every read zipper,
beside the iterators of maps and zippers; `Clone` and the isolated, owned and cloned constructors are actions of the client.

`Serialization` has the fold of `write_trie` (`line_alg`) with its file, in which a line that turns out to be known is taken back
(`serialize_with_rollback`), the compression of zeros, `deserialize_file` as the machine over bytes that it is, the streams of
`paths_serialization.rs` and the merge sort of `paths_serialization_sort.rs`. In `ZipperCalls` the actions `WriteTrie`, `StreamPaths` and
`SortPaths` write what the zipper stands on, read it again, and promise the same trie (`KeepsPromises`). Bounds: `OffsetDigits` (an
offset in the file has at most six digits that are not zero), `Levels` (eight levels of runs, 64 in the source), `SortMemory` (how many paths fit in memory).

## 3. Runs

All of them finish well within five minutes with two workers.

| run | instance | distinct states | checks |
|---|---|---|---|
| `tracking` | 3 trackers; 5 paths (a root, two branches, one with two leaves); counts up to 2 | 28,963 | type, `Exclusive`, `RegistryExact`, `NoDangling`, `StatusForetells`, `ConflictIsReal`, implementation of `PathLocks` |
| `node_rc` | 6 handles, 3 threads, threshold 2, saturation 6, wrap 10 | 22,419 | use after free, exclusive mutation, exact count, saturation, no wrap, eventual release |
| `head` | four heads: at the root with 2 zippers over 4 paths (depth 2) or 3 over 3 paths, writers cleaned up; at `<<1>>` with 2 zippers, writers dropped; used by threads, writers dropped or turned into readers | 77,247 | type, `WritersAttached`, `ReadersCurrent`, `OpenExclusive`, `NoPanic`, `NoLitter`, implementation of `PathStore` |
| `write_zipper` | five clients: zippers at the root and at `<<1,2>>` and `<<2>>` with keys of 3 bytes; with keys of 2 bytes, grafts of maps and of child maps, relative paths and prefixes, and one path of up to 5 bytes | 34,227 | type, `NodesOk`, `StackOnNodes`, `StackDescended`, implementation of `ZipperSpec` |
| `zippers` | a zipper of each of ten kinds over small maps with nodes of every shape, up to 4 bytes deep (3 in archives), keys of 3 bytes; archives of three maps and of products, two updates, up to 2 merges; files and streams of what they hold | 21,255 | type, `ObserverInStep`, `Reads`, `StackLeadsToFocus`, `SourcesAligned`, `CachesHold`, `ArenaHolds`, `SameArchive`, implementation of `CursorSpec` |
| `algebra` | 18 maps in every pairing, shared or copied, and what calls make of them; 6 tries merged by two, three, four and five, through every entry point, with the majority of three and four more formulas | 44,372 | `NodesOk`, `MergesOnce`, `ZipperAtNode`, `MergesSources`, implementation of `LatticeSpec` |

and six runs in which TLC finds a property violated that the code's documentation states (section 6).

Why the bounds are enough. Conflicts are between two paths, so five paths contain every relation two paths can
have (equal, above, below, siblings, cousins), and every position of a further lock that a traversal can run into;
three trackers are two that conflict and one that a mistake could harm, or two readers that fill a count and one too many. The counter's behaviour depends on `count`
being 0, 1, beyond 1, beyond the threshold, or saturated: six handles and three threads pass the threshold with
several operations under way, and the counter can come within one of wrapping. In the head, damage needs a writer, a second owner of one of its nodes, and
somebody who shares or frees it: three identities; pruning that climbs needs a path of two bytes below a
branch: the head over four paths. A node of the write zipper runs is restructured by the third key, by two keys with
a common beginning, or by a key longer than its buffer; with keys of up to three bytes and buffers of three or two,
all of these happen in every combination, list nodes become byte nodes and pruning climbs over several nodes (up to chains of three).
In `zippers` a map is there for each shape a node can have (one key, two that part at once, one below the other, a value and a link at one key, a
byte node, an empty sentinel), at depths at which zippers cross two and three nodes; every call is made from every
reachable state of each of them. The archives are of a map with one node at four places under values, links and longer keys, of a product whose factor is shared, and of
one with dangling paths; what is merged into them parts from a line, ends in one, goes on below its end, and adds a child beside old ones; `MaxMerges` of two makes a
root history of three, and a merge of what is there already. In `algebra` the operands are there for the pairings of formats, for keys that share a byte and do not,
for values over links and for dangling paths, and the merges have values at the root and below, common and lone branches, branches of some,
and equal subtries with a value over them. `within` bounds the paths clients ask for, never what a call does with them. One value suffices for writing because no code there looks at values; values are sets of atoms for the algebra, where it does. Symmetry is used for trackers and zippers, which are
interchangeable; no run with symmetry checks liveness.

Deadlock is checked, except in the `NodeRc` runs, where every handle may be gone and the node freed, the proper end, and in the
`WriteZipper` and algebra runs, where nothing waits, and a merge ends: each call is enabled whenever the zipper is open, and the bounds alone refuse some.

Fairness is assumed in one place: `FairSpec` of `NodeRc` has weak fairness of `Finish(h)`, the steps a thread takes when
it is already inside `clone`, `drop` or `make_unique`. These are straight-line code without waiting, so that a thread the
scheduler does not abandon takes them. Nothing is assumed about clients: `EventuallyFreed` speaks of nodes whose last
handle has been given up.

Every property of every passing run comes with a mutant: a small mistake in a definition that
models code, under which the run reports the property. The mutated forms stand in the modules before
the definitions they replace, and no action uses them.

## 4. Abstract specifications

* `PathLocks` (from `ZipperTracking`, property `ImplementsLocks`): `holds` is read off the trackers, where a tracker that is
  being downgraded counts as a writer until its write lock is gone, so that the two critical sections of
  `into_reader` map to a stutter and a `Downgrade`. The specification allows a refusal only when there
  is a clash, or for a reader when there already is one at the same path (the limit of the count).
* `PathStore` (from `ZipperHead`, property `ImplementsStore`): `store` is the values reachable from the head's root, `view` the
  values below what readers and maps hold, `writing` the absolute paths of open writers. Requests, preparation
  and cleanup map to stutters or to the beginning and end of a writer; a change of the store needs an open writer
  above it, and a view never changes. This is where a preparation that writes to a shared node, a cleanup that takes
  a value along, or a graft that aliases would show.

* `ZipperSpec` (from `WriteZipper`, property `ImplementsSpec`): every call with its result, on a trie of paths and values. A path may
  exist without a value (dangling), and pruning removes exactly the paths above the focus that hold no value, no other branch, and are
  below the zipper's root. What the implementation has to get right is that the trie never depends on how nodes happen to be
  laid out. `sets` is kept to paths of one byte, because longer ones break it (finding 4), and child maps have a node
  and a value each (section 6).

* `CursorSpec` (from `ZipperCalls`, property `KeepsPromises`): every call, as the documentation of the traits states it, from any focus,
  whether it exists or not. The refinement is `focus <- path(z)`.
* `LatticeSpec` (from `MapAlgebra`, property `ImplementsLattice`): results have exactly the lattice's values. A join has exactly the
  paths of both operands; of the others the documentation does not say which dangling paths remain, so these may be kept or not.
  Masks and statuses must be true (`Honest`, `Reported`). Three of its definitions say where the code is known not to do so: `Orphans`
  (finding 6), `Widened` (a value at the focus of `meet_into`), and k > 0 in the k-path calls (section 6).

## 5. Proofs

`ZipperTrackingProofs`, over any finite set of trackers, any prefix-closed set of paths and any bound on counts. The
inductive invariant is `TypeOK` with the tries given as functions of the trackers: `RegistryExact` (values) and
`NoDangling` (paths are the closure of the values), together with `Exclusive`. None is inductive alone: exclusion needs the tries to
contain the locks of all trackers; exactness of a release needs exclusion (a writer's entry is its own
because no other writer can be at its path); and the answer of the conflict check needs both tries to be pruned.
The heart is a lemma on `ConflictAt`: in a pruned trie it is empty exactly when no value is comparable with the path,
and otherwise names a comparable one. `PathTrieProofs` has the facts it rests on: what `PrunePath` leaves, that setting and
removing with pruning keep a trie pruned and that depth-first order is total on it. From the invariant follow `WritersExclusive`,
`RegistryIsExact`, `NothingDangles`, `StatusForetellsRequests` and `ConflictsAreReal` (action properties) and
`RegistryImplementsLocks` (refinement).

`NodeRcProofs`, for any number of handles and threads within `NodeRcAssumption` and under `PromptStores`. The inductive invariant
ties `count` to the number of counted handles until the counter is pinned, bounds from below how far it can have fallen
since (by the operations under way, of which there are at most `Threads`), and says when the node is freed. `Prompt` is
used only to keep a counter seen past the threshold from reaching 1 before it is pinned. The theorems are `NodesOutliveHandles`,
`MutationIsExclusive`, `CounterIsExact`, `SaturationIsFinal`, `CounterNeverWraps` and `SeenLeaks`. `NodeRcAssumption`'s upper gap is what
`CounterNeverWraps` rests on: each thread that has added to a pinned counter and not pinned it again accounts for one step above `Saturation`.

`ZipperHeadProofs`, over any number of zippers and maps, any finite set of bytes and of paths closed under parts, and any
set of heads. Proved for every head that is `Disciplined`: `TypeOK`, `WritersAttached`, `OpenExclusive` and `NoPanic`
(theorems `HeadTypes`, `WritersStayAttached`, `OpenZippersExclude`, `CleanupNeverPanics`); and in `ZipperStoreProofs`, from these, `ReadersCurrent`,
`ImplementsStore` and `NoLitter` (`ReadersSeeTrie`, `HeadImplementsStore`, `NoLitterLeft`).

* *The hypothesis.* `Disciplined(head)` says that clients do not call `into_read_zipper` and that, where they clean up after
  writers, the head is at the root of its own zipper and not used by several threads. Writers that are merely
  dropped are covered at any focus and with any number of threads. The hypothesis is what the code needs, not what the prover needs:
  findings 1 to 3 are heads that lack one part of it each, and TLC shows `OpenExclusive`, `WritersAttached` and a third property violated there. In the runs, three of
  the four heads of `head` are disciplined. The fourth converts writers, with two identities; with more, such a
  reader keeps a slot that nothing owns, and a graft from it shares what may be another writer's node by then, so that no theorem about it can be hoped for.
* *The invariant.* `HeadInv` has three parts. `Granted`: zippers that hold or await a path have paths that do not compare
  unless all of them are readers, an unthreaded head is in the middle of one call at most, and what a zipper records agrees with its
  lock. `Secure`: the heap is well formed (`HeapOK`: finitely many
  nodes, whose cells lead to nodes there are), each writer has a *chain*, the slots from the head's down to its own, in which each next node is referred to only by
  the cell before it, and at whose end there is a node; each reader and map has its own cell in `Roots`. `Tidy`: nodes are named by the ways to them.
* *Why each part.* `WritersAttached` is not inductive. A writer that is *leaving* has no slot any more, but the head still has to find its node, so
  chains belong to paths and not to slots. A chain survives a copy-on-write because `make_unique` copies only nodes referred to twice, and
  none in a chain is; it survives another writer's graft or prune because these touch slots below that writer's path, which by
  `Granted` parts from the chain's. That shares (readers, maps, grafts) never lead into a chain needs the chain to end
  *above* what is shared: the node at its end may be shared, the slot not.
* *The argument.* `ZipperHeapProofs` has what each operator does to a heap and to chains in it: `Put` and `Allocate`; `MakeMut`, of
  which every chain is kept or, if it goes through the slot, made; `Walk`, by induction on its length (a set of naturals, as
  the induction theorem with an operator cannot be used), which ends in a chain to the path walked; removal of a cell off the chain; and
  `Settle`, which renames the nodes that something leads to one to one, and thereby maps chains to chains.
  `ZipperHeadProofs` has one lemma for each action, and `Settles` for the end of each.
* *Values.* `Seen` is added to the invariant: what an open reader's cell leads to is, path by path, what the trie has below the reader's path,
  and no value is beyond `TriePath`. `ZipperStoreProofs` has one lemma for each action on what becomes of the values that each owner sees
  (`SameSeen`, `Assigned`, `Grafted`). Copying a node, walking and preparing keep every lookup from every cell (`MirrorsBelow`: two cells
  mirror each other if they are equal or one was copied from the other, and so do those below them by the same byte); `Settle` keeps those from the owners'. A write at the end
  of a chain is seen along that chain only, because every other lookup ends off it (`WriteLookup`); a cut by `PruneEnd` takes off cells that
  lead to no value, since below the cut nothing branches and the chain's cells have none (`LoneChain`). A reader keeps agreeing with the trie because, by `OpenExclusive`, no writer's path compares with the reader's.
* *The refinement.* `Contents`, `Views` and `Places` are the variables of `PathStore`. Requests and clean-ups are steps nobody sees, granting a reader
  and making a map are `Look`, granting a writer is `Begin` (its guard is `OpenExclusive` of the next state), and a value removed where the trie can have none changes nothing. A
  graft from a reader or a map replaces by its view, one from a writer by the part of the store below that writer's path. `NothingAssumption`
  says that no place or contents are mistaken for `NoZipper`.
* *No litter.* `NoLitter` is not inductive: a graft brings the paths of its source along, and a reader or a map that kept a path without a value
  would bring litter back after the trie was rid of it. The invariant (`TendInv`) says of every *owner* (the head, each reader, each map) that a path it has
  leads on to a value it sees or, for the head, to a writer that is open or leaving (`Tended`); and that nodes are functions, so that a node that is not
  `EmptyNode` has a cell (`Shaped`). `Leads` and `Adds` say which paths an operator brings: a copy, a rename, a value or a cut bring none
  (`MakeMutAdds`, `SettledAdds`, `CutAdds`), a walk the beginnings of the path it walks (`WalkAdds`), a cell written those below the new
  one (`WriteLeads`); that no path is brought is a simulation between the slots of the two heaps (`Simulated`). What a step of a writer leaves without fruit begins the writer's own path (`TendWritten`).
  The step that matters is `Cleanup`, after which that excuse is gone (`PrunedFruit`): a path to the writer's place has fruit below it if the node there has cells,
  since nobody else writes there; or has the value there; or is as long as the cut and gone (`CutLeads`); or it ends above the cut, where `prune_path` stopped at
  a value or at a branch, and the *other* branch had fruit before (`ForkFruit`). A writer that is merely dropped leaves
  its path behind, which is why the property is about heads all of whose writers are cleaned up (`head.ends = {"cleanup"}`); of those, about the disciplined ones.

Only model-checked: the heads of `ZipperHead` that are not disciplined; everything about `WriteZipper`, `ZipperCalls` (arenas and folds included), `MapAlgebra`
and `ZipperMerge` (their operators on nodes are recursive); `EventuallyFreed` (liveness under fairness is beyond the prover). What
recursive definitions compute for all inputs is beyond it as well.

## 6. Disagreements found while modelling

Each is a run whose single property states what the quoted text says and which TLC violates; `findings` has the quotes.

1. `head_nested_cleanup`: `cleanup_write_zipper` on a head at a non-root focus moves relative to its zipper's root instead of its
   focus and leaves the head re-rooted; live zippers may then overlap.
2. `head_owned_cleanup`: with a `ZipperHeadOwned` the path's lock is released before the mutex is taken for pruning; a writer granted in
   between loses its cell. In the same window another thread can remove the path, and cleanup panics with the mutex held.
3. `head_convert`: a reader made by `into_read_zipper` borrows a cell of a node that copy-on-write can replace and free.
4. `write_far`: `set_val_at` with a relative path of two bytes can put a value next to a link that hides it.
5. `subtract_search`: `SubtractZipper::subtree_has_difference` loses its place when it comes back from a branch with several paths, and misses a
   difference below the next one: the zipper hides paths it should show.
6. `join_dangling`: the join of two byte nodes counts a `None` of each of two children for a `None` of the node: joining maps that leave the same two
   children dangling loses a third child with its values.

Others have no run of their own; the configurations leave the calls out, by the guards named in section 2, or the property names the exception.

* `path_status` says `AvailableForReading` of a path whose reader count is at `u32::MAX`, at which a request for a reader is refused
  (zipper_tracking.rs:225, 268-273).
* `meet_into` keeps the value at the focus when the meet is the source's value (write_zipper.rs:2059); `meet_k_path_into(0)` moves to a sibling of the focus.
* `restrict` of a write zipper does not look at the source's root value, which `PathMap::restrict` honours.
* `graft_child_maps` keeps the old value or children of a byte where the map given for it has none (write_zipper.rs:1757).
* `ReadZipperCore`: `to_next_k_path(0)` leaves the zipper unregularized at a node boundary (zipper.rs:3204); with an empty buffer and a root key, `path_len` underflows
  (zipper.rs:2894).
* `OverlayZipper`: `ascend_until` does not stop at a branch that only the union forms (overlay_zipper.rs:343); `descend_until` stops
  early at a path that dangles in one source; `val_count` is `todo!()`.
* `PrefixZipper` off its prefix: `val_count`, siblings and `to_next_k_path` answer for another place.
* `SubtractZipper`: a path that dangles in the minuend only is shown as a leaf; `to_next_k_path(k)` with k beyond the depth does not reset;
  a failing `descend_first_k_path` (subtract_zipper.rs:1483) leaves probes that `descend_to` then believes.
* `ProductZipper`: `descend_to_check("")` is true where the focus does not exist; `path_indices` at a join is one shorter than the documentation says
  (product_zipper.rs:869, dependent_zipper.rs:78).
* `EmptyZipper::to_next_val` does not reset the zipper.
* `ACTZipper::val_count` counts from the zipper's root; its documentation says "at and below the zipper's focus" (arena_compact.rs:3033).
* Zipper algebra: the mask `(1 << N) - 1` overflows for 64 zippers or clauses, which the assertion allows (zipper_algebra.rs:2499), and so does
  the shift in the assertion of `Clause::from_mask` for N = 64.
* `serialize_with_rollback` writes a line before it can know its hash, and goes back in the file when the line is known (serialization.rs:323,
  339). The file is never cut, so bytes of that line may remain behind the last one, and `deserialize_file` then answers "Malformed": for instance with the
  keys `00`, `01` and `1` (as digits of bytes). The guard `FileKept` leaves those files out.
* A file keeps values only: dangling paths are lost. The count of paths among its metadata is always 0.
* `serialize_paths` begins after the value at the focus, goes on beyond the focus's subtrie, and does not write the origin path of the focus where it passes the root through.

## 7. Not modelled, and why

* The unchecked constructors (`*_unchecked`): their contract is the callers'.
* Memory orderings weaker than sequential consistency; allocators; the `Arc` variant without `slim_ptrs`, which is the standard library's.
* Arenas: the encoding of nodes, masks and varints in bytes, collisions of line hashes, errors of files, a crash in the middle of a merge; zippers with `()` for values.
* Anamorphisms and `TrieBuilder`, hashing and merkleization; folds whose algebra fails, which return at once.
* Of serialization: zlib, collisions of hashes, errors of files. Drawing, counters, timers, random generators, macros: no state of the system's own.
* Tiny, bridge and cell nodes; nodes of `all_dense_nodes` builds.
* Of merged tries (`ZipperMerge`) and of meets and differences: which dangling paths remain.
* `ZipperAbsolutePath`, `ZipperPathBuffer` and the witness types, which are bookkeeping of the path buffer and of lifetimes.

## 8. Plan

In this order; each step adds its runs, mutants and theorems.

1. `PathTrie`, `PathLocks`, `ZipperTracking` with proofs. *Done.*
2. `NodeRc` with proofs. *Done.*
3. `ZipperHead`, `PathStore`. *Done, with proofs that writers stay attached and exclude others, that readers stay current, and that
   `ZipperHead` implements `PathStore`, and that no litter is left.*
4. `TrieNodes`, `ZipperSpec`, `WriteZipper`. *Done for TLC.* To prove: the laws of `ZipperSpec`'s operators on tries, and that pruning never
   leaves the zipper's root.
5. `NodeAlgebra`, `MapAlgebra`, `LatticeSpec`. *Done for TLC.* To prove: that `Join` is a lattice's join.
6. `NodeIter`, `ReadZipper`, `Cursor`, `CursorSpec`, `ZipperCalls`. *Done for TLC.*
7. The combinators, `ZipperMerge`, `TrieRef`, `Serialization`. *Done for TLC.*
8. `Morphism`, `Arena`, `ArenaBuild`, `ActZipper`. *Done for TLC.* To come: anamorphisms, merkleization.
