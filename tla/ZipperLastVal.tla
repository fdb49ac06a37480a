----------------------------- MODULE ZipperLastVal -----------------------------
(***************************************************************************)
(* ZipperIteration::descend_last_val_observed as the trait provides it     *)
(* (src/src/zipper.rs): to the last path, by the zipper's own              *)
(* descend_last_path_observed, and from there backwards to a value.        *)
(***************************************************************************)
EXTENDS Integers, SequencesExt

CONSTANTS is_val(_), depth(_), ascend_byte(_), to_prev_sibling_byte(_), descend_last_path(_, _)

LOCAL Seen(z, ret, obs) == [z |-> z, ret |-> ret, obs |-> obs]
LOCAL Up(obs) == SubSeq(obs, 1, Len(obs) - 1)

RECURSIVE LastValFrom(_, _)
BackFrom(s, start, obs) ==
    IF s.ret # -1 THEN LastValFrom(descend_last_path(s.z, Append(Up(obs), s.ret)), start)
    ELSE LastValFrom(Seen(ascend_byte(s.z).z, FALSE, Up(obs)), start)
LastValFrom(d, start) ==
    CASE is_val(d.z) -> Seen(d.z, TRUE, d.obs)
      [] ~is_val(d.z) /\ depth(d.z) = start -> Seen(d.z, FALSE, d.obs)
      [] OTHER -> BackFrom(to_prev_sibling_byte(d.z), start, d.obs)
provided_descend_last_val(z, obs) == LastValFrom(descend_last_path(z, obs), depth(z))
================================================================================
