------------------------------ MODULE PolyZipper ------------------------------
(***************************************************************************)
(* A zipper behind the enum of the derive macro PolyZipper                 *)
(* (src/pathmap-derive/src/lib.rs).  The methods that are parameters here  *)
(* go to the zipper in the enum; the macro generates none of the others,   *)
(* so they are what the traits provide (src/src/zipper.rs), whatever the   *)
(* zipper has of its own.                                                  *)
(***************************************************************************)
EXTENDS Integers, SequencesExt

CONSTANTS path(_), path_exists(_), is_val(_), child_mask(_), child_count(_), depth(_), at_root(_), focus_byte(_),
          descend_to(_, _), descend_to_byte(_, _), ascend(_, _), descend_last_path(_, _)

None == -1
Ans(z, ret) == [z |-> z, ret |-> ret]
Obs(z, ret, obs) == [z |-> z, ret |-> ret, obs |-> obs]

OneUp(r) == Ans(r.z, r.ret = 1)
ascend_byte(z) == OneUp(ascend(z, 1))
RECURSIVE reset(_)
reset(z) == IF at_root(z) THEN z ELSE reset(ascend_byte(z).z)

Moving == INSTANCE ZipperMoving
descend_to_existing(z, k) == Moving!descend_to_existing(z, k)
descend_to_val(z, k) == Moving!descend_to_val(z, k)
descend_indexed_byte(z, n) == Moving!descend_indexed_byte(z, n)
descend_first_byte(z) == Moving!descend_first_byte(z)
descend_last_byte(z) == Moving!descend_last_byte(z)
move_to_path(z, q) == Moving!move_to_path(z, q)

RECURSIVE UntilFrom(_, _, _)
OneDown(d, obs) == IF is_val(d.z) THEN Obs(d.z, TRUE, Append(obs, d.ret)) ELSE UntilFrom(d.z, TRUE, Append(obs, d.ret))
UntilFrom(z, moved, obs) == IF child_count(z) = 1 THEN OneDown(descend_first_byte(z), obs) ELSE Obs(z, moved, obs)
descend_until(z, obs) == UntilFrom(z, FALSE, obs)

\* A mutated form of Beside: where there is no sibling the zipper is left at the parent.
Beside_Up(up, last, b) == IF b = None THEN Ans(up, None) ELSE Ans(descend_to_byte(up, b), b)

\* Up, and down by the next byte of the mask, or back down by the same.
NextBit(mask, b) == IF \E c \in mask : c > b THEN Min({c \in mask : c > b}) ELSE None
PrevBit(mask, b) == IF \E c \in mask : c < b THEN Max({c \in mask : c < b}) ELSE None
Beside(up, last, b) == IF b = None THEN Ans(descend_to_byte(up, last), None) ELSE Ans(descend_to_byte(up, b), b)
NextOf(up, last) == IF up.ret THEN Beside(up.z, last, NextBit(child_mask(up.z), last)) ELSE Ans(up.z, None)
PrevOf(up, last) == IF up.ret THEN Beside(up.z, last, PrevBit(child_mask(up.z), last)) ELSE Ans(up.z, None)
to_next_sibling_byte(z) == IF focus_byte(z) = None THEN Ans(z, None) ELSE NextOf(ascend_byte(z), focus_byte(z))
to_prev_sibling_byte(z) == IF focus_byte(z) = None THEN Ans(z, None) ELSE PrevOf(ascend_byte(z), focus_byte(z))

Iteration == INSTANCE ZipperIteration
descend_until_max_bytes(z, n, obs) == Iteration!provided_descend_until_max_bytes(z, n, obs)
to_next_step(z, obs) == Iteration!provided_to_next_step(z, obs)
LastVal == INSTANCE ZipperLastVal
descend_last_val(z, obs) == LastVal!provided_descend_last_val(z, obs)
===============================================================================
