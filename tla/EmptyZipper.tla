----------------------------- MODULE EmptyZipper -----------------------------
(***************************************************************************)
(* EmptyZipper (src/src/empty_zipper.rs): a zipper over nothing.  It keeps *)
(* a path, and no path exists, not even the one to its root.               *)
(***************************************************************************)
EXTENDS Integers, SequencesExt

None == -1
Ans(z, ret) == [z |-> z, ret |-> ret]
Obs(z, ret, obs) == [z |-> z, ret |-> ret, obs |-> obs]

new_at_path(p) == [path |-> p, path_start |-> Len(p)]
path(z) == SubSeq(z.path, z.path_start + 1, Len(z.path))
origin_path(z) == z.path
depth(z) == Len(z.path) - z.path_start
at_root(z) == depth(z) = 0
focus_byte(z) == IF z.path = <<>> THEN None ELSE Last(z.path)
path_exists(z) == FALSE
is_val(z) == FALSE
child_mask(z) == {}
child_count(z) == 0
val_count(z) == 0

reset(z) == [z EXCEPT !.path = SubSeq(@, 1, z.path_start)]
descend_to(z, k) == [z EXCEPT !.path = @ \o k]
descend_to_byte(z, b) == descend_to(z, <<b>>)
Nowhere(z) == Ans(z, None)
descend_indexed_byte(z, n) == Nowhere(z)
descend_first_byte(z) == Nowhere(z)
to_next_sibling_byte(z) == Nowhere(z)
to_prev_sibling_byte(z) == Nowhere(z)
descend_until(z, obs) == Obs(z, FALSE, obs)
Up(z, n) == Ans([z EXCEPT !.path = SubSeq(@, 1, Len(@) - n)], n)
ascend(z, steps) == Up(z, Min({steps, depth(z)}))
ascend_byte(z) == Ans(ascend(z, 1).z, depth(z) > 0)
ascend_until(z) == Up(z, depth(z))
ascend_until_branch(z) == ascend_until(z)

to_next_val(z, obs) == Obs(z, FALSE, obs)
descend_last_path(z, obs) == Obs(z, FALSE, obs)
descend_first_k_path(z, k, obs) == Obs(z, FALSE, obs)
Ascended(u, obs) == Obs(u.z, FALSE, SubSeq(obs, 1, Len(obs) - u.ret))
to_next_k_path(z, k, obs) == Ascended(ascend(z, k), obs)

Moving == INSTANCE ZipperMoving
descend_to_check(z, k) == Moving!descend_to_check(z, k)
descend_to_existing(z, k) == Moving!descend_to_existing(z, k)
descend_to_val(z, k) == Moving!descend_to_val(z, k)
descend_to_existing_byte(z, b) == Moving!descend_to_existing_byte(z, b)
descend_last_byte(z) == Moving!descend_last_byte(z)
move_to_path(z, q) == Moving!move_to_path(z, q)
Iteration == INSTANCE ZipperIteration
descend_until_max_bytes(z, n, obs) == Iteration!provided_descend_until_max_bytes(z, n, obs)
to_next_step(z, obs) == Iteration!provided_to_next_step(z, obs)
LastVal == INSTANCE ZipperLastVal
descend_last_val(z, obs) == LastVal!provided_descend_last_val(z, obs)
==============================================================================
