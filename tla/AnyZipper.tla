------------------------------ MODULE AnyZipper ------------------------------
(***************************************************************************)
(* A zipper of any of the kinds there are: a record of its kind and its    *)
(* state.  Each method is that of the kind.  "poly" is a read zipper       *)
(* behind the enum of PolyZipper (src/pathmap-derive).                     *)
(***************************************************************************)
EXTENDS Integers, SequencesExt

CONSTANTS KeyCap, NoVal, ChunkSize, Path, Panicked, Chunk, SharedNodes, MAX_NODE_KEY_BYTES

\* A chunk of descend_to_existing holds the longest key of a node.
ASSUME ChunkAssumption == ChunkSize \in Nat /\ ChunkSize >= KeyCap
\* So does the buffer of a reference.
ASSUME MaxKeyAssumption == MAX_NODE_KEY_BYTES \in Nat /\ MAX_NODE_KEY_BYTES >= KeyCap

C == INSTANCE Cursor
R == INSTANCE ReadZipper
TR == INSTANCE TrieRef
X == INSTANCE PrefixZipper
O == INSTANCE OverlayZipper
S == INSTANCE SubtractZipper
P == INSTANCE ProductZipper
E == INSTANCE EmptyZipper
Z == INSTANCE ActZipper

\* ProductZipperG has all its factors from the start.
ListHas(f) == Len(f.factor_paths) < Len(f.secondary)
ListSame(f) == f.secondary
ListKept(f, n) == f.secondary
ListReset(f) == [i \in DOMAIN f.secondary |-> C!reset(f.secondary[i])]
G == INSTANCE FactorZipper WITH has_factor <- ListHas, enrolled <- ListSame, kept <- ListKept, at_start <- ListReset

\* DependentProductZipperG asks for the factor after a path when it is at its
\* end, and drops it when it leaves it.
EnrollHas(f) == C!path(f.primary) \in DOMAIN f.enroll
EnrollPush(f) == Append(f.secondary, f.enroll[C!path(f.primary)])
EnrollKept(f, n) == SubSeq(f.secondary, 1, n)
EnrollNone(f) == <<>>
D == INSTANCE FactorZipper WITH has_factor <- EnrollHas, enrolled <- EnrollPush, kept <- EnrollKept, at_start <- EnrollNone

\* What the enum hands on, it hands on to a read zipper here.
Y == INSTANCE PolyZipper WITH path <- R!path, path_exists <- R!path_exists, is_val <- R!is_val, child_mask <- R!child_mask,
         child_count <- R!child_count, depth <- R!depth, at_root <- R!at_root, focus_byte <- R!focus_byte,
         descend_to <- R!descend_to, descend_to_byte <- R!descend_to_byte, ascend <- R!ascend,
         descend_last_path <- R!descend_last_path
ByNodes == {"read", "poly"}

Same(y, of) == [y EXCEPT !.of = of]
Ret(y, r) == [z |-> Same(y, r.z), ret |-> r.ret]
Told(y, r) == [z |-> Same(y, r.z), ret |-> r.ret, obs |-> r.obs]

----------------------------------------------------------------------------

path(y) ==
    CASE y.kind \in ByNodes -> R!path(y.of)      [] y.kind = "prefix" -> X!path(y.of)
      [] y.kind = "overlay" -> O!path(y.of)   [] y.kind = "subtract" -> S!path(y.of)
      [] y.kind = "product" -> P!path(y.of)   [] y.kind = "generic" -> G!path(y.of)
      [] y.kind = "dependent" -> D!path(y.of) [] y.kind = "act" -> Z!path(y.of)   [] y.kind = "empty" -> E!path(y.of)
path_exists(y) ==
    CASE y.kind \in ByNodes -> R!path_exists(y.of)      [] y.kind = "prefix" -> X!path_exists(y.of)
      [] y.kind = "overlay" -> O!path_exists(y.of)   [] y.kind = "subtract" -> S!path_exists(y.of)
      [] y.kind = "product" -> P!path_exists(y.of)   [] y.kind = "generic" -> G!path_exists(y.of)
      [] y.kind = "dependent" -> D!path_exists(y.of) [] y.kind = "act" -> Z!path_exists(y.of)   [] y.kind = "empty" -> E!path_exists(y.of)
is_val(y) ==
    CASE y.kind \in ByNodes -> R!is_val(y.of)      [] y.kind = "prefix" -> X!is_val(y.of)
      [] y.kind = "overlay" -> O!is_val(y.of)   [] y.kind = "subtract" -> S!is_val(y.of)
      [] y.kind = "product" -> P!is_val(y.of)   [] y.kind = "generic" -> G!is_val(y.of)
      [] y.kind = "dependent" -> D!is_val(y.of) [] y.kind = "act" -> Z!is_val(y.of)   [] y.kind = "empty" -> E!is_val(y.of)
child_mask(y) ==
    CASE y.kind \in ByNodes -> R!child_mask(y.of)      [] y.kind = "prefix" -> X!child_mask(y.of)
      [] y.kind = "overlay" -> O!child_mask(y.of)   [] y.kind = "subtract" -> S!child_mask(y.of)
      [] y.kind = "product" -> P!child_mask(y.of)   [] y.kind = "generic" -> G!child_mask(y.of)
      [] y.kind = "dependent" -> D!child_mask(y.of) [] y.kind = "act" -> Z!child_mask(y.of)   [] y.kind = "empty" -> E!child_mask(y.of)
child_count(y) ==
    CASE y.kind \in ByNodes -> R!child_count(y.of)      [] y.kind = "prefix" -> X!child_count(y.of)
      [] y.kind = "overlay" -> O!child_count(y.of)   [] y.kind = "subtract" -> S!child_count(y.of)
      [] y.kind = "product" -> P!child_count(y.of)   [] y.kind = "generic" -> G!child_count(y.of)
      [] y.kind = "dependent" -> D!child_count(y.of) [] y.kind = "act" -> Z!child_count(y.of)   [] y.kind = "empty" -> E!child_count(y.of)
focus_byte(y) ==
    CASE y.kind \in ByNodes -> R!focus_byte(y.of)      [] y.kind = "prefix" -> X!focus_byte(y.of)
      [] y.kind = "overlay" -> O!focus_byte(y.of)   [] y.kind = "subtract" -> S!focus_byte(y.of)
      [] y.kind = "product" -> P!focus_byte(y.of)   [] y.kind = "generic" -> G!focus_byte(y.of)
      [] y.kind = "dependent" -> D!focus_byte(y.of) [] y.kind = "act" -> Z!focus_byte(y.of)   [] y.kind = "empty" -> E!focus_byte(y.of)
at_root(y) ==
    CASE y.kind \in ByNodes -> R!at_root(y.of)      [] y.kind = "prefix" -> X!at_root(y.of)
      [] y.kind = "overlay" -> O!at_root(y.of)   [] y.kind = "subtract" -> S!at_root(y.of)
      [] y.kind = "product" -> P!at_root(y.of)   [] y.kind = "generic" -> G!at_root(y.of)
      [] y.kind = "dependent" -> D!at_root(y.of) [] y.kind = "act" -> Z!at_root(y.of)   [] y.kind = "empty" -> E!at_root(y.of)
depth(y) ==
    CASE y.kind \in ByNodes -> R!depth(y.of)      [] y.kind = "prefix" -> X!depth(y.of)
      [] y.kind = "overlay" -> O!depth(y.of)   [] y.kind = "subtract" -> S!depth(y.of)
      [] y.kind = "product" -> P!depth(y.of)   [] y.kind = "generic" -> G!depth(y.of)
      [] y.kind = "dependent" -> D!depth(y.of) [] y.kind = "act" -> Z!depth(y.of)   [] y.kind = "empty" -> E!depth(y.of)
SourceVal(x) == IF X!is_val(x) THEN x.source.trie.val[x.source.focus] ELSE NoVal
get_val(y) ==
    CASE y.kind \in ByNodes -> R!get_val(y.of)      [] y.kind = "prefix" -> SourceVal(y.of)
      [] y.kind = "overlay" -> O!get_val(y.of)   [] y.kind = "subtract" -> S!get_val(y.of)
      [] y.kind = "product" -> P!get_val(y.of)   [] y.kind = "generic" -> G!get_val(y.of)
      [] y.kind = "dependent" -> D!get_val(y.of) [] y.kind = "act" -> Z!get_val(y.of)   [] y.kind = "empty" -> NoVal

----------------------------------------------------------------------------

descend_to(y, k) == Same(y,
    CASE y.kind \in ByNodes -> R!descend_to(y.of, k)      [] y.kind = "prefix" -> X!descend_to(y.of, k)
      [] y.kind = "overlay" -> O!descend_to(y.of, k)   [] y.kind = "subtract" -> S!descend_to(y.of, k)
      [] y.kind = "product" -> P!descend_to(y.of, k)   [] y.kind = "generic" -> G!descend_to(y.of, k)
      [] y.kind = "dependent" -> D!descend_to(y.of, k) [] y.kind = "act" -> Z!descend_to(y.of, k)   [] y.kind = "empty" -> E!descend_to(y.of, k))
descend_to_check(y, k) == Ret(y,
    CASE y.kind \in ByNodes -> R!descend_to_check(y.of, k)      [] y.kind = "prefix" -> X!descend_to_check(y.of, k)
      [] y.kind = "overlay" -> O!descend_to_check(y.of, k)   [] y.kind = "subtract" -> S!descend_to_check(y.of, k)
      [] y.kind = "product" -> P!descend_to_check(y.of, k)   [] y.kind = "generic" -> G!descend_to_check(y.of, k)
      [] y.kind = "dependent" -> D!descend_to_check(y.of, k) [] y.kind = "act" -> Z!descend_to_check(y.of, k)   [] y.kind = "empty" -> E!descend_to_check(y.of, k))
descend_to_existing(y, k) == Ret(y,
    CASE y.kind = "read" -> R!descend_to_existing(y.of, k)  [] y.kind = "poly" -> Y!descend_to_existing(y.of, k)
      [] y.kind = "prefix" -> X!descend_to_existing(y.of, k)
      [] y.kind = "overlay" -> O!descend_to_existing(y.of, k)   [] y.kind = "subtract" -> S!descend_to_existing(y.of, k)
      [] y.kind = "product" -> P!descend_to_existing(y.of, k)   [] y.kind = "generic" -> G!descend_to_existing(y.of, k)
      [] y.kind = "dependent" -> D!descend_to_existing(y.of, k) [] y.kind = "act" -> Z!descend_to_existing(y.of, k)   [] y.kind = "empty" -> E!descend_to_existing(y.of, k))
descend_to_val(y, k) == Ret(y,
    CASE y.kind = "read" -> R!descend_to_val(y.of, k)  [] y.kind = "poly" -> Y!descend_to_val(y.of, k)
      [] y.kind = "prefix" -> X!descend_to_val(y.of, k)
      [] y.kind = "overlay" -> O!descend_to_val(y.of, k)   [] y.kind = "subtract" -> S!descend_to_val(y.of, k)
      [] y.kind = "product" -> P!descend_to_val(y.of, k)   [] y.kind = "generic" -> G!descend_to_val(y.of, k)
      [] y.kind = "dependent" -> D!descend_to_val(y.of, k) [] y.kind = "act" -> Z!descend_to_val(y.of, k)   [] y.kind = "empty" -> E!descend_to_val(y.of, k))
move_to_path(y, k) == Ret(y,
    CASE y.kind = "read" -> R!move_to_path(y.of, k)  [] y.kind = "poly" -> Y!move_to_path(y.of, k)
      [] y.kind = "prefix" -> X!move_to_path(y.of, k)
      [] y.kind = "overlay" -> O!move_to_path(y.of, k)   [] y.kind = "subtract" -> S!move_to_path(y.of, k)
      [] y.kind = "product" -> P!move_to_path(y.of, k)   [] y.kind = "generic" -> G!move_to_path(y.of, k)
      [] y.kind = "dependent" -> D!move_to_path(y.of, k) [] y.kind = "act" -> Z!move_to_path(y.of, k)   [] y.kind = "empty" -> E!move_to_path(y.of, k))
descend_to_byte(y, b) == Same(y,
    CASE y.kind \in ByNodes -> R!descend_to_byte(y.of, b)      [] y.kind = "prefix" -> X!descend_to_byte(y.of, b)
      [] y.kind = "overlay" -> O!descend_to_byte(y.of, b)   [] y.kind = "subtract" -> S!descend_to_byte(y.of, b)
      [] y.kind = "product" -> P!descend_to_byte(y.of, b)   [] y.kind = "generic" -> G!descend_to_byte(y.of, b)
      [] y.kind = "dependent" -> D!descend_to_byte(y.of, b) [] y.kind = "act" -> Z!descend_to_byte(y.of, b)   [] y.kind = "empty" -> E!descend_to_byte(y.of, b))
descend_to_existing_byte(y, b) == Ret(y,
    CASE y.kind \in ByNodes -> R!descend_to_existing_byte(y.of, b)      [] y.kind = "prefix" -> X!descend_to_existing_byte(y.of, b)
      [] y.kind = "overlay" -> O!descend_to_existing_byte(y.of, b)   [] y.kind = "subtract" -> S!descend_to_existing_byte(y.of, b)
      [] y.kind = "product" -> P!descend_to_existing_byte(y.of, b)   [] y.kind = "generic" -> G!descend_to_existing_byte(y.of, b)
      [] y.kind = "dependent" -> D!descend_to_existing_byte(y.of, b) [] y.kind = "act" -> Z!descend_to_existing_byte(y.of, b)   [] y.kind = "empty" -> E!descend_to_existing_byte(y.of, b))
descend_indexed_byte(y, n) == Ret(y,
    CASE y.kind = "read" -> R!descend_indexed_byte(y.of, n)  [] y.kind = "poly" -> Y!descend_indexed_byte(y.of, n)
      [] y.kind = "prefix" -> X!descend_indexed_byte(y.of, n)
      [] y.kind = "overlay" -> O!descend_indexed_byte(y.of, n)   [] y.kind = "subtract" -> S!descend_indexed_byte(y.of, n)
      [] y.kind = "product" -> P!descend_indexed_byte(y.of, n)   [] y.kind = "generic" -> G!descend_indexed_byte(y.of, n)
      [] y.kind = "dependent" -> D!descend_indexed_byte(y.of, n) [] y.kind = "act" -> Z!descend_indexed_byte(y.of, n)   [] y.kind = "empty" -> E!descend_indexed_byte(y.of, n))
descend_first_byte(y) == Ret(y,
    CASE y.kind = "read" -> R!descend_first_byte(y.of)  [] y.kind = "poly" -> Y!descend_first_byte(y.of)
      [] y.kind = "prefix" -> X!descend_first_byte(y.of)
      [] y.kind = "overlay" -> O!descend_first_byte(y.of)   [] y.kind = "subtract" -> S!descend_first_byte(y.of)
      [] y.kind = "product" -> P!descend_first_byte(y.of)   [] y.kind = "generic" -> G!descend_first_byte(y.of)
      [] y.kind = "dependent" -> D!descend_first_byte(y.of) [] y.kind = "act" -> Z!descend_first_byte(y.of)   [] y.kind = "empty" -> E!descend_first_byte(y.of))
descend_last_byte(y) == Ret(y,
    CASE y.kind = "read" -> R!descend_last_byte(y.of)  [] y.kind = "poly" -> Y!descend_last_byte(y.of)
      [] y.kind = "prefix" -> X!descend_last_byte(y.of)
      [] y.kind = "overlay" -> O!descend_last_byte(y.of)   [] y.kind = "subtract" -> S!descend_last_byte(y.of)
      [] y.kind = "product" -> P!descend_last_byte(y.of)   [] y.kind = "generic" -> G!descend_last_byte(y.of)
      [] y.kind = "dependent" -> D!descend_last_byte(y.of) [] y.kind = "act" -> Z!descend_last_byte(y.of)   [] y.kind = "empty" -> E!descend_last_byte(y.of))
ascend(y, n) == Ret(y,
    CASE y.kind \in ByNodes -> R!ascend(y.of, n)      [] y.kind = "prefix" -> X!ascend(y.of, n)
      [] y.kind = "overlay" -> O!ascend(y.of, n)   [] y.kind = "subtract" -> S!ascend(y.of, n)
      [] y.kind = "product" -> P!ascend(y.of, n)   [] y.kind = "generic" -> G!ascend(y.of, n)
      [] y.kind = "dependent" -> D!ascend(y.of, n) [] y.kind = "act" -> Z!ascend(y.of, n)   [] y.kind = "empty" -> E!ascend(y.of, n))
ascend_byte(y) == Ret(y,
    CASE y.kind = "read" -> R!ascend_byte(y.of)  [] y.kind = "poly" -> Y!ascend_byte(y.of)
      [] y.kind = "prefix" -> X!ascend_byte(y.of)
      [] y.kind = "overlay" -> O!ascend_byte(y.of)   [] y.kind = "subtract" -> S!ascend_byte(y.of)
      [] y.kind = "product" -> P!ascend_byte(y.of)   [] y.kind = "generic" -> G!ascend_byte(y.of)
      [] y.kind = "dependent" -> D!ascend_byte(y.of) [] y.kind = "act" -> Z!ascend_byte(y.of)   [] y.kind = "empty" -> E!ascend_byte(y.of))
ascend_until(y) == Ret(y,
    CASE y.kind \in ByNodes -> R!ascend_until(y.of)      [] y.kind = "prefix" -> X!ascend_until(y.of)
      [] y.kind = "overlay" -> O!ascend_until(y.of)   [] y.kind = "subtract" -> S!ascend_until(y.of)
      [] y.kind = "product" -> P!ascend_until(y.of)   [] y.kind = "generic" -> G!ascend_until(y.of)
      [] y.kind = "dependent" -> D!ascend_until(y.of) [] y.kind = "act" -> Z!ascend_until(y.of)   [] y.kind = "empty" -> E!ascend_until(y.of))
ascend_until_branch(y) == Ret(y,
    CASE y.kind \in ByNodes -> R!ascend_until_branch(y.of)      [] y.kind = "prefix" -> X!ascend_until_branch(y.of)
      [] y.kind = "overlay" -> O!ascend_until_branch(y.of)   [] y.kind = "subtract" -> S!ascend_until_branch(y.of)
      [] y.kind = "product" -> P!ascend_until_branch(y.of)   [] y.kind = "generic" -> G!ascend_until_branch(y.of)
      [] y.kind = "dependent" -> D!ascend_until_branch(y.of) [] y.kind = "act" -> Z!ascend_until_branch(y.of)   [] y.kind = "empty" -> E!ascend_until_branch(y.of))
to_next_sibling_byte(y) == Ret(y,
    CASE y.kind = "read" -> R!to_next_sibling_byte(y.of)  [] y.kind = "poly" -> Y!to_next_sibling_byte(y.of)
      [] y.kind = "prefix" -> X!to_next_sibling_byte(y.of)
      [] y.kind = "overlay" -> O!to_next_sibling_byte(y.of)   [] y.kind = "subtract" -> S!to_next_sibling_byte(y.of)
      [] y.kind = "product" -> P!to_next_sibling_byte(y.of)   [] y.kind = "generic" -> G!to_next_sibling_byte(y.of)
      [] y.kind = "dependent" -> D!to_next_sibling_byte(y.of) [] y.kind = "act" -> Z!to_next_sibling_byte(y.of)   [] y.kind = "empty" -> E!to_next_sibling_byte(y.of))
to_prev_sibling_byte(y) == Ret(y,
    CASE y.kind = "read" -> R!to_prev_sibling_byte(y.of)  [] y.kind = "poly" -> Y!to_prev_sibling_byte(y.of)
      [] y.kind = "prefix" -> X!to_prev_sibling_byte(y.of)
      [] y.kind = "overlay" -> O!to_prev_sibling_byte(y.of)   [] y.kind = "subtract" -> S!to_prev_sibling_byte(y.of)
      [] y.kind = "product" -> P!to_prev_sibling_byte(y.of)   [] y.kind = "generic" -> G!to_prev_sibling_byte(y.of)
      [] y.kind = "dependent" -> D!to_prev_sibling_byte(y.of) [] y.kind = "act" -> Z!to_prev_sibling_byte(y.of)   [] y.kind = "empty" -> E!to_prev_sibling_byte(y.of))
reset(y) == Same(y,
    CASE y.kind = "read" -> R!reset(y.of)  [] y.kind = "poly" -> Y!reset(y.of)
      [] y.kind = "prefix" -> X!reset(y.of)
      [] y.kind = "overlay" -> O!reset(y.of)   [] y.kind = "subtract" -> S!reset(y.of)
      [] y.kind = "product" -> P!reset(y.of)   [] y.kind = "generic" -> G!reset(y.of)
      [] y.kind = "dependent" -> D!reset(y.of) [] y.kind = "act" -> Z!reset(y.of)   [] y.kind = "empty" -> E!reset(y.of))
descend_until(y, o) == Told(y,
    CASE y.kind = "read" -> R!descend_until(y.of, o)  [] y.kind = "poly" -> Y!descend_until(y.of, o)
      [] y.kind = "prefix" -> X!descend_until(y.of, o)
      [] y.kind = "overlay" -> O!descend_until(y.of, o)   [] y.kind = "subtract" -> S!descend_until(y.of, o)
      [] y.kind = "product" -> P!descend_until(y.of, o)   [] y.kind = "generic" -> G!descend_until(y.of, o)
      [] y.kind = "dependent" -> D!descend_until(y.of, o) [] y.kind = "act" -> Z!descend_until(y.of, o)   [] y.kind = "empty" -> E!descend_until(y.of, o))
descend_until_max_bytes(y, n, o) == Told(y,
    CASE y.kind = "read" -> R!descend_until_max_bytes(y.of, n, o)  [] y.kind = "poly" -> Y!descend_until_max_bytes(y.of, n, o)
      [] y.kind = "prefix" -> X!descend_until_max_bytes(y.of, n, o)
      [] y.kind = "overlay" -> O!descend_until_max_bytes(y.of, n, o)   [] y.kind = "subtract" -> S!descend_until_max_bytes(y.of, n, o)
      [] y.kind = "product" -> P!descend_until_max_bytes(y.of, n, o)   [] y.kind = "generic" -> G!descend_until_max_bytes(y.of, n, o)
      [] y.kind = "dependent" -> D!descend_until_max_bytes(y.of, n, o) [] y.kind = "act" -> Z!descend_until_max_bytes(y.of, n, o)   [] y.kind = "empty" -> E!descend_until_max_bytes(y.of, n, o))
to_next_step(y, o) == Told(y,
    CASE y.kind = "read" -> R!to_next_step(y.of, o)  [] y.kind = "poly" -> Y!to_next_step(y.of, o)
      [] y.kind = "prefix" -> X!to_next_step(y.of, o)
      [] y.kind = "overlay" -> O!to_next_step(y.of, o)   [] y.kind = "subtract" -> S!to_next_step(y.of, o)
      [] y.kind = "product" -> P!to_next_step(y.of, o)   [] y.kind = "generic" -> G!to_next_step(y.of, o)
      [] y.kind = "dependent" -> D!to_next_step(y.of, o) [] y.kind = "act" -> Z!to_next_step(y.of, o)   [] y.kind = "empty" -> E!to_next_step(y.of, o))
to_next_val(y, o) == Told(y,
    CASE y.kind \in ByNodes -> R!to_next_val(y.of, o)      [] y.kind = "prefix" -> X!to_next_val(y.of, o)
      [] y.kind = "overlay" -> O!to_next_val(y.of, o)   [] y.kind = "subtract" -> S!to_next_val(y.of, o)
      [] y.kind = "product" -> P!to_next_val(y.of, o)   [] y.kind = "generic" -> G!to_next_val(y.of, o)
      [] y.kind = "dependent" -> D!to_next_val(y.of, o) [] y.kind = "act" -> Z!to_next_val(y.of, o)   [] y.kind = "empty" -> E!to_next_val(y.of, o))
descend_last_path(y, o) == Told(y,
    CASE y.kind \in ByNodes -> R!descend_last_path(y.of, o)      [] y.kind = "prefix" -> X!descend_last_path(y.of, o)
      [] y.kind = "overlay" -> O!descend_last_path(y.of, o)   [] y.kind = "subtract" -> S!descend_last_path(y.of, o)
      [] y.kind = "product" -> P!descend_last_path(y.of, o)   [] y.kind = "generic" -> G!descend_last_path(y.of, o)
      [] y.kind = "dependent" -> D!descend_last_path(y.of, o) [] y.kind = "act" -> Z!descend_last_path(y.of, o)   [] y.kind = "empty" -> E!descend_last_path(y.of, o))
descend_last_val(y, o) == Told(y,
    CASE y.kind = "read" -> R!descend_last_val(y.of, o)  [] y.kind = "poly" -> Y!descend_last_val(y.of, o)
      [] y.kind = "prefix" -> X!descend_last_val(y.of, o)
      [] y.kind = "overlay" -> O!descend_last_val(y.of, o)   [] y.kind = "subtract" -> S!descend_last_val(y.of, o)
      [] y.kind = "product" -> P!descend_last_val(y.of, o)   [] y.kind = "generic" -> G!descend_last_val(y.of, o)
      [] y.kind = "dependent" -> D!descend_last_val(y.of, o) [] y.kind = "act" -> Z!descend_last_val(y.of, o)   [] y.kind = "empty" -> E!descend_last_val(y.of, o))
descend_first_k_path(y, n, o) == Told(y,
    CASE y.kind \in ByNodes -> R!descend_first_k_path(y.of, n, o)      [] y.kind = "prefix" -> X!descend_first_k_path(y.of, n, o)
      [] y.kind = "overlay" -> O!descend_first_k_path(y.of, n, o)   [] y.kind = "subtract" -> S!descend_first_k_path(y.of, n, o)
      [] y.kind = "product" -> P!descend_first_k_path(y.of, n, o)   [] y.kind = "generic" -> G!descend_first_k_path(y.of, n, o)
      [] y.kind = "dependent" -> D!descend_first_k_path(y.of, n, o) [] y.kind = "act" -> Z!descend_first_k_path(y.of, n, o)   [] y.kind = "empty" -> E!descend_first_k_path(y.of, n, o))
to_next_k_path(y, n, o) == Told(y,
    CASE y.kind \in ByNodes -> R!to_next_k_path(y.of, n, o)      [] y.kind = "prefix" -> X!to_next_k_path(y.of, n, o)
      [] y.kind = "overlay" -> O!to_next_k_path(y.of, n, o)   [] y.kind = "subtract" -> S!to_next_k_path(y.of, n, o)
      [] y.kind = "product" -> P!to_next_k_path(y.of, n, o)   [] y.kind = "generic" -> G!to_next_k_path(y.of, n, o)
      [] y.kind = "dependent" -> D!to_next_k_path(y.of, n, o) [] y.kind = "act" -> Z!to_next_k_path(y.of, n, o)   [] y.kind = "empty" -> E!to_next_k_path(y.of, n, o))

\* Not every kind counts its values; counting keeps the count in a subtract zipper.
Counts == {"read", "poly", "prefix", "subtract", "act", "empty"}
val_count(y) ==
    CASE y.kind \in ByNodes -> [z |-> y, ret |-> R!val_count(y.of)]
      [] y.kind = "prefix" -> [z |-> y, ret |-> X!val_count(y.of)]
      [] y.kind = "subtract" -> Ret(y, S!val_count(y.of))
      [] y.kind = "act" -> [z |-> y, ret |-> Z!val_count(y.of)]
      [] y.kind = "empty" -> [z |-> y, ret |-> E!val_count(y.of)]

\* Forking, where a kind can be forked and something is: elsewhere there is nothing to fork.
forkable(y) == y.kind \in {"read", "prefix", "act"} /\ path_exists(y)
fork_read_zipper(y) == Same(y,
    CASE y.kind = "read" -> R!fork_read_zipper(y.of) [] y.kind = "prefix" -> X!Fork(y.of)
      [] y.kind = "act" -> Z!fork_read_zipper(y.of))

\* How long the path from the origin is.
Depth(y) ==
    CASE y.kind \in ByNodes -> Len(y.of.origin_path) + R!depth(y.of)
      [] y.kind = "product" -> Len(y.of.core.origin_path) + P!depth(y.of)
      [] y.kind = "prefix" -> Len(y.of.path)
      [] y.kind = "subtract" -> Len(y.of.lhs.focus)
      [] y.kind \in {"empty", "act"} -> Len(y.of.path)
      [] OTHER -> depth(y)

----------------------------------------------------------------------------
(* Archives: an arena is made of what is below a zipper's root, by a fold  *)
(* over the zipper; only some kinds can be folded, and fewer know of       *)
(* shared nodes.                                                           *)

\* A client's encoding of the values, which are sets: their members in order.
serialize_value(val) == SetToSortSeq(val, <)
de(bytes) == ToSet(bytes)

FoldRead == INSTANCE ArenaBuild WITH child_count <- R!child_count, child_mask <- R!child_mask, is_val <- R!is_val,
    get_val <- R!get_val, at_root <- R!at_root, origin_path <- R!origin_path, shared_node_id <- R!shared_node_id,
    reset <- R!reset, descend_first_byte <- R!descend_first_byte, descend_indexed_byte <- R!descend_indexed_byte,
    descend_until <- R!descend_until, descend_to_byte <- R!descend_to_byte,
    ascend_byte <- R!ascend_byte, ascend_until <- R!ascend_until
FoldProduct == INSTANCE ArenaBuild WITH child_count <- P!child_count, child_mask <- P!child_mask, is_val <- P!is_val,
    get_val <- P!get_val, at_root <- P!at_root, origin_path <- P!origin_path, shared_node_id <- P!shared_node_id,
    reset <- P!reset, descend_first_byte <- P!descend_first_byte, descend_indexed_byte <- P!descend_indexed_byte,
    descend_until <- P!descend_until, descend_to_byte <- P!descend_to_byte,
    ascend_byte <- P!ascend_byte, ascend_until <- P!ascend_until
FoldAct == INSTANCE ArenaBuild WITH child_count <- Z!child_count, child_mask <- Z!child_mask, is_val <- Z!is_val,
    get_val <- Z!get_val, at_root <- Z!at_root, origin_path <- Z!origin_path, shared_node_id <- Z!shared_node_id,
    reset <- Z!reset, descend_first_byte <- Z!descend_first_byte, descend_indexed_byte <- Z!descend_indexed_byte,
    descend_until <- Z!descend_until, descend_to_byte <- Z!descend_to_byte,
    ascend_byte <- Z!ascend_byte, ascend_until <- Z!ascend_until

foldable(y) == y.kind \in {"read", "product", "act"}
from_zipper(y) ==
    CASE y.kind = "read" -> FoldRead!build_arena_tree(y.of) [] y.kind = "product" -> FoldProduct!build_arena_tree(y.of)
      [] y.kind = "act" -> FoldAct!build_arena_tree(y.of)
from_zipper_cached(y) ==
    CASE y.kind = "read" -> FoldRead!build_arena_tree_cached(y.of)
      [] y.kind = "product" -> FoldProduct!build_arena_tree_cached(y.of)
      [] y.kind = "act" -> FoldAct!build_arena_tree_cached(y.of)
\* The four folds: with results kept for shared nodes or not, by jumps or by bytes.
cata(y, cached, jumping) ==
    CASE y.kind = "read" -> FoldRead!Folds(y.of, cached, jumping) [] y.kind = "product" -> FoldProduct!Folds(y.of, cached, jumping)
      [] y.kind = "act" -> FoldAct!Folds(y.of, cached, jumping)
write_trie(y) ==
    CASE y.kind = "read" -> FoldRead!write_trie(y.of) [] y.kind = "product" -> FoldProduct!write_trie(y.of)
      [] y.kind = "act" -> FoldAct!write_trie(y.of)

File == INSTANCE Serialization
\* What serialize_paths comes to.
RECURSIVE ValsFrom(_)
ValsOnward(r) == IF r.ret THEN << <<path(r.z), get_val(r.z)>> >> \o ValsFrom(r.z) ELSE <<>>
ValsFrom(y) == ValsOnward(to_next_val(y, path(y)))
serialize_paths_with_auxdata(y) == File!serialize_paths_with_auxdata(ValsFrom(y))
==============================================================================
