---------------------------- MODULE ProductZipper ----------------------------
(***************************************************************************)
(* ProductZipper (src/src/product_zipper.rs): a read zipper over the       *)
(* product of several maps.  Where a path of one factor ends the next      *)
(* factor begins: its root node is pushed onto the stack of the one read   *)
(* zipper, as if the node where the path ends had a link to it.  The       *)
(* depths at which factors were entered are kept beside.                   *)
(***************************************************************************)
EXTENDS Integers, SequencesExt

CONSTANTS KeyCap, NoVal, ChunkSize, SharedNodes, Panicked

R == INSTANCE ReadZipper

None == -1
Ans(z, ret) == [z |-> z, ret |-> ret]
Obs(z, ret, obs) == [z |-> z, ret |-> ret, obs |-> obs]
Drop(k, n) == SubSeq(k, n + 1, Len(k))

\* new: the primary's core, and the root nodes of the others.
new(core, roots) == [core |-> core, secondaries |-> roots, factor_paths |-> <<>>]

path(z) == R!path(z.core)
depth(z) == R!depth(z.core)
at_root(z) == depth(z) = 0
focus_byte(z) == R!focus_byte(z.core)
path_exists(z) == R!path_exists(z.core)
is_val(z) == R!is_val(z.core)
get_val(z) == R!get_val(z.core)
child_mask(z) == R!child_mask(z.core)
child_count(z) == R!child_count(z.core)
origin_path(z) == R!origin_path(z.core)
shared_node_id(z) == IF z.factor_paths = <<>> THEN R!shared_node_id(z.core) ELSE 0

LastFactor(z) == IF z.factor_paths = <<>> THEN 0 ELSE Last(z.factor_paths)
has_next_factor(z) == Len(z.factor_paths) < Len(z.secondaries)

\* The place where the factors join is left without its own link, if it has one.
PushRoot(z, core) ==
    [z EXCEPT !.core = R!Enter(core, z.secondaries[Len(z.factor_paths) + 1]), !.factor_paths = Append(@, R!depth(core))]
enroll_next_factor(z) == PushRoot(z, R!deregularize(z.core))

\* At the end of a path, in a factor that was not entered right here.
AtEnd(z) ==
    /\ has_next_factor(z) /\ child_count(z) = 0 /\ path_exists(z)
    /\ z.factor_paths # <<>> => LastFactor(z) # depth(z)
ensure_descend_next_factor(z) == IF AtEnd(z) THEN enroll_next_factor(z) ELSE z

\* The factors that the focus has left.
fix_after_ascend(z) == [z EXCEPT !.factor_paths = SelectSeq(@, LAMBDA start : start <= depth(z))]

Core(z, core) == [z EXCEPT !.core = core]
Then(z, r) == Ans(ensure_descend_next_factor(Core(z, r.z)), r.ret)
Up(z, r) == Ans(fix_after_ascend(Core(z, r.z)), r.ret)

----------------------------------------------------------------------------

reset(z) == [z EXCEPT !.core = R!reset(@), !.factor_paths = <<>>]

RECURSIVE ExistingFrom(_, _, _)
Onward(z) == IF child_count(z) = 0 /\ LastFactor(z) < depth(z) THEN enroll_next_factor(z) ELSE z
Entering(z, k, done) == IF has_next_factor(z) THEN ExistingFrom(Onward(z), k, done) ELSE Ans(z, done)
OneFactor(z, r, k, done) == IF r.ret = 0 THEN Ans(Core(z, r.z), done) ELSE Entering(Core(z, r.z), k, done + r.ret)
ExistingFrom(z, k, done) ==
    IF done = Len(k) THEN Ans(z, done) ELSE OneFactor(z, R!descend_to_existing(z.core, Drop(k, done)), k, done)
descend_to_existing(z, k) == ExistingFrom(z, k, 0)

Rest(a, k) == IF a.ret = Len(k) THEN a.z ELSE Core(a.z, R!descend_to(a.z.core, Drop(k, a.ret)))
descend_to(z, k) == Rest(descend_to_existing(z, k), k)
CheckedRest(a, k) == Ans(Rest(a, k), a.ret = Len(k))
descend_to_check(z, k) == CheckedRest(descend_to_existing(z, k), k)

AfterByte(z) ==
    IF child_count(z) = 0 /\ has_next_factor(z) /\ path_exists(z)
    THEN [enroll_next_factor(z) EXCEPT !.core = R!regularize(@)] ELSE z
descend_to_byte(z, b) == AfterByte(Core(z, R!descend_to_byte(z.core, b)))
IfDescended(z, r) == IF r.ret THEN Ans(AfterByte(Core(z, r.z)), TRUE) ELSE Ans(Core(z, r.z), FALSE)
descend_to_existing_byte(z, b) == IfDescended(z, R!descend_to_existing_byte(z.core, b))
descend_indexed_byte(z, n) == Then(z, R!descend_indexed_byte(z.core, n))
descend_first_byte(z) == Then(z, R!descend_first_byte(z.core))

\* From one factor into the next as long as there is one way.
RECURSIVE UntilFrom(_, _, _)
PastJoin(z, moved, obs) == IF is_val(z) THEN Obs(z, moved, obs) ELSE UntilFrom(z, moved, obs)
AlongFactor(z, u, moved) == PastJoin(ensure_descend_next_factor(Core(z, u.z)), moved \/ u.ret, u.obs)
UntilFrom(z, moved, obs) ==
    IF child_count(z) = 1 THEN AlongFactor(z, R!descend_until(z.core, obs), moved) ELSE Obs(z, moved, obs)
descend_until(z, obs) == UntilFrom(z, FALSE, obs)

ascend(z, n) == Up(z, R!ascend(z.core, n))
ascend_byte(z) == Up(z, R!ascend_byte(z.core))
ascend_until(z) == Up(z, R!ascend_until(z.core))
ascend_until_branch(z) == Up(z, R!ascend_until_branch(z.core))

\* A mutated form of Leaving: a factor entered here is kept.
Leaving_Not(z) == z

\* Stepping sideways leaves a factor entered at this depth.
Leaving(z) ==
    IF z.factor_paths # <<>> /\ LastFactor(z) = depth(z)
    THEN [z EXCEPT !.factor_paths = Front(@), !.core = R!regularize(R!deregularize(@))] ELSE z
NextOf(z) == Then(z, R!to_next_sibling_byte(z.core))
PrevOf(z) == Then(z, R!to_prev_sibling_byte(z.core))
to_next_sibling_byte(z) == IF depth(z) = 0 THEN Ans(z, None) ELSE NextOf(Leaving(z))
to_prev_sibling_byte(z) == IF depth(z) = 0 THEN Ans(z, None) ELSE PrevOf(Leaving(z))

focus_factor(z) ==
    IF z.factor_paths # <<>> /\ LastFactor(z) = depth(z) THEN Len(z.factor_paths) - 1 ELSE Len(z.factor_paths)
path_indices(z) == z.factor_paths

----------------------------------------------------------------------------
(* What it takes from the traits as they provide it.                       *)

Moving == INSTANCE ZipperMoving
descend_to_val(z, k) == Moving!descend_to_val(z, k)
descend_last_byte(z) == Moving!descend_last_byte(z)
move_to_path(z, q) == Moving!move_to_path(z, q)
Iteration == INSTANCE ZipperIteration
descend_until_max_bytes(z, n, obs) == Iteration!provided_descend_until_max_bytes(z, n, obs)
to_next_step(z, obs) == Iteration!provided_to_next_step(z, obs)
to_next_val(z, obs) == Iteration!provided_to_next_val(z, obs)
descend_last_path(z, obs) == Iteration!provided_descend_last_path(z, obs)
LastVal == INSTANCE ZipperLastVal
descend_last_val(z, obs) == LastVal!provided_descend_last_val(z, obs)
descend_first_k_path(z, k, obs) == Iteration!provided_descend_first_k_path(z, k, obs)
to_next_k_path(z, k, obs) == Iteration!provided_to_next_k_path(z, k, obs)
==============================================================================
