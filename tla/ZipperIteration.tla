---------------------------- MODULE ZipperIteration ----------------------------
(***************************************************************************)
(* The walks that the traits ZipperMoving and ZipperIteration provide      *)
(* (src/src/zipper.rs), in terms of the steps of a zipper.  Each walk      *)
(* tells an observer every movement it makes, so a caller knows the focus  *)
(* of a zipper that keeps no path.  The observer is a path here            *)
(* (PathObserver for Vec<u8>), and a walk returns [z, ret, obs].           *)
(***************************************************************************)
EXTENDS Integers, SequencesExt

CONSTANTS is_val(_), child_mask(_), depth(_), ascend(_, _), ascend_byte(_), reset(_), descend_to(_, _),
          descend_first_byte(_), descend_last_byte(_), to_next_sibling_byte(_),
          descend_until(_, _)     \* the zipper's descend_until_observed

Nowhere == -1             \* the byte that is not there
Seen(z, ret, obs) == [z |-> z, ret |-> ret, obs |-> obs]

\* PathObserver for Vec<u8>.
Extend(obs, k) == obs \o k
Truncate(obs, n) == SubSeq(obs, 1, Len(obs) - n)
\* A sibling step replaces the last byte.
Replace(obs, b) == Append(Truncate(obs, 1), b)

at_root(z) == depth(z) = 0

\* A mutated form of Limited: what the limit cuts off is reported.
Limited_Reported(d, obs, limit) ==
    IF Len(d.obs) > limit THEN Seen(ascend(d.z, Len(d.obs) - limit).z, d.ret, obs \o d.obs)
    ELSE Seen(d.z, d.ret, obs \o d.obs)

\* TruncatingObserver: it forwards `limit` bytes of the descent and counts the
\* rest, which the zipper then goes back by.
Limited(d, obs, limit) ==
    IF Len(d.obs) > limit THEN Seen(ascend(d.z, Len(d.obs) - limit).z, d.ret, obs \o SubSeq(d.obs, 1, limit))
    ELSE Seen(d.z, d.ret, obs \o d.obs)
provided_descend_until_max_bytes(z, limit, obs) ==
    IF limit = 0 THEN Seen(z, FALSE, obs) ELSE Limited(descend_until(z, <<>>), obs, limit)

\* to_next_step_observed: down if there is a way, else to the first sibling on the way up.
RECURSIVE SiblingOrUp(_, _, _)
UpFrom(up, obs) == IF up.ret THEN SiblingOrUp(up.z, to_next_sibling_byte(up.z), Truncate(obs, 1)) ELSE Seen(up.z, FALSE, obs)
SiblingOrUp(z, s, obs) == IF s.ret # Nowhere THEN Seen(s.z, TRUE, Replace(obs, s.ret)) ELSE UpFrom(ascend_byte(s.z), obs)
FirstStep(d, obs) == IF d.ret = Nowhere THEN Seen(d.z, FALSE, obs) ELSE Seen(d.z, TRUE, Append(obs, d.ret))
provided_to_next_step(z, obs) ==
    IF child_mask(z) = {} THEN SiblingOrUp(z, to_next_sibling_byte(z), obs) ELSE FirstStep(descend_first_byte(z), obs)

\* to_next_val_observed
RECURSIVE DownToVal(_, _, _), AcrossToVal(_, _)
UntilVal(u) == IF u.ret /\ is_val(u.z) THEN u ELSE DownToVal(u.z, descend_first_byte(u.z), u.obs)
DownToVal(z, d, obs) ==
    CASE d.ret = Nowhere -> AcrossToVal(to_next_sibling_byte(d.z), obs)
      [] d.ret # Nowhere /\ is_val(d.z) -> Seen(d.z, TRUE, Append(obs, d.ret))
      [] OTHER -> UntilVal(descend_until(d.z, Append(obs, d.ret)))
AtVal(z, obs) == IF is_val(z) THEN Seen(z, TRUE, obs) ELSE DownToVal(z, descend_first_byte(z), obs)
UpToVal(up, obs) == IF at_root(up.z) THEN Seen(up.z, FALSE, obs) ELSE AcrossToVal(to_next_sibling_byte(up.z), obs)
AcrossToVal(s, obs) ==
    IF s.ret # Nowhere THEN AtVal(s.z, Replace(obs, s.ret))
    ELSE UpToVal(ascend_byte(s.z), IF at_root(s.z) THEN obs ELSE Truncate(obs, 1))
provided_to_next_val(z, obs) == DownToVal(z, descend_first_byte(z), obs)

\* descend_last_path_observed
RECURSIVE LastPathFrom(_, _, _)
LastPathUntil(u) == LastPathFrom(descend_last_byte(u.z), TRUE, u.obs)
LastPathFrom(d, any, obs) ==
    IF d.ret = Nowhere THEN Seen(d.z, any, obs) ELSE LastPathUntil(descend_until(d.z, Append(obs, d.ret)))
provided_descend_last_path(z, obs) == LastPathFrom(descend_last_byte(z), FALSE, obs)

\* k_path_default_internal: the next path of `base + k` bytes, up to the root of the walk at `base`.
RECURSIVE KDown(_, _, _, _), KAcross(_, _, _, _)
KStep(d, base, k, obs) ==
    CASE d.ret = Nowhere -> KAcross(d.z, base, k, obs)
      [] d.ret # Nowhere /\ depth(d.z) = base + k -> Seen(d.z, TRUE, Append(obs, d.ret))
      [] OTHER -> KDown(d.z, base, k, Append(obs, d.ret))
KDown(z, base, k, obs) ==
    IF depth(z) < base + k THEN KStep(descend_first_byte(z), base, k, obs) ELSE KAcross(z, base, k, obs)
KUp(z, base, k, obs) == KAcross(ascend_byte(z).z, base, k, Truncate(obs, 1))
KSibling(s, base, k, obs) ==
    CASE s.ret = Nowhere -> KUp(s.z, base, k, obs)
      [] s.ret # Nowhere /\ depth(s.z) = base + k -> Seen(s.z, TRUE, Replace(obs, s.ret))
      [] OTHER -> KDown(s.z, base, k, Replace(obs, s.ret))
KAcross(z, base, k, obs) ==
    IF depth(z) = base THEN Seen(z, FALSE, obs) ELSE KSibling(to_next_sibling_byte(z), base, k, obs)

k_path_depth_exceeded(z, obs) == Seen(reset(z), FALSE, Truncate(obs, depth(z)))
provided_descend_first_k_path(z, k, obs) ==
    IF k = 0 THEN Seen(z, FALSE, obs) ELSE KDown(z, depth(z), k, obs)
provided_to_next_k_path(z, k, obs) ==
    IF depth(z) < k THEN k_path_depth_exceeded(z, obs) ELSE KDown(z, depth(z) - k, k, obs)
===============================================================================
