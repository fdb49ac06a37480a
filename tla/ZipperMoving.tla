----------------------------- MODULE ZipperMoving -----------------------------
(***************************************************************************)
(* The methods that the trait ZipperMoving provides (src/src/zipper.rs),   *)
(* in terms of the ones it requires, which are the parameters.  A zipper   *)
(* is a record that a method returns changed; a method that also answers   *)
(* returns [z, ret].  A byte that is not there is NoByte, the code's None. *)
(***************************************************************************)
EXTENDS Integers, SequencesExt

CONSTANTS path_exists(_), is_val(_), child_mask(_),
          descend_to(_, _), ascend_byte(_), ascend(_, _), reset(_), path(_)

NoByte == -1
Moved(z, ret) == [z |-> z, ret |-> ret]

\* ByteMask::indexed_bit: the n-th byte of a mask, from 0.
IndexedBit(mask, n) ==
    IF \E b \in mask : Cardinality({c \in mask : c < b}) = n
    THEN CHOOSE b \in mask : Cardinality({c \in mask : c < b}) = n ELSE NoByte

descend_to_byte(z, b) == descend_to(z, <<b>>)

Checked(z) == Moved(z, path_exists(z))
descend_to_check(z, k) == Checked(descend_to(z, k))

\* One byte at a time along k, from the i-th on, while the path exists.
RECURSIVE ExistingFrom(_, _, _)
StepExisting(d, k, i) == IF path_exists(d) THEN ExistingFrom(d, k, i + 1) ELSE Moved(ascend_byte(d).z, i)
ExistingFrom(z, k, i) == IF i < Len(k) THEN StepExisting(descend_to_byte(z, k[i + 1]), k, i) ELSE Moved(z, i)
descend_to_existing(z, k) == ExistingFrom(z, k, 0)

RECURSIVE ValFrom(_, _, _)
StepVal(d, k, i) ==
    CASE ~path_exists(d) -> Moved(ascend_byte(d).z, i)
      [] path_exists(d) /\ is_val(d) -> Moved(d, i + 1)
      [] OTHER -> ValFrom(d, k, i + 1)
ValFrom(z, k, i) == IF i < Len(k) THEN StepVal(descend_to_byte(z, k[i + 1]), k, i) ELSE Moved(z, i)
descend_to_val(z, k) == ValFrom(z, k, 0)

KeepExisting(d) == IF path_exists(d) THEN Moved(d, TRUE) ELSE Moved(ascend_byte(d).z, FALSE)
descend_to_existing_byte(z, b) == KeepExisting(descend_to_byte(z, b))

\* Nothing moves when the byte asked for is not there.
IfByte(z, b) == IF b = NoByte THEN Moved(z, NoByte) ELSE Moved(descend_to_byte(z, b), b)
descend_indexed_byte(z, n) == IfByte(z, IndexedBit(child_mask(z), n))
descend_first_byte(z) == descend_indexed_byte(z, 0)
LastOf(z, count) == IF count = 0 THEN Moved(z, NoByte) ELSE descend_indexed_byte(z, count - 1)
descend_last_byte(z) == LastOf(z, Cardinality(child_mask(z)))

\* ZipperPath::move_to_path, from where the two paths part.
PartFrom(p, q) == Max({n \in 0..Min({Len(p), Len(q)}) : SubSeq(p, 1, n) = SubSeq(q, 1, n)})
Rejoin(z, q, shared) ==
    IF shared = 0 THEN descend_to(reset(z), q)
    ELSE descend_to(ascend(z, Len(path(z)) - shared).z, SubSeq(q, shared + 1, Len(q)))
move_to_path(z, q) == Moved(Rejoin(z, q, PartFrom(q, path(z))), PartFrom(q, path(z)))
===============================================================================
