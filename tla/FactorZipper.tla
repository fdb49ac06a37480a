----------------------------- MODULE FactorZipper -----------------------------
(***************************************************************************)
(* ProductZipperG (src/src/product_zipper.rs) and, almost the same,        *)
(* DependentProductZipperG (src/src/dependent_zipper.rs): the product of   *)
(* tries over zippers of any kind.  The primary carries the whole path,    *)
(* also where it does not exist in the primary; each factor that was       *)
(* entered stands where the part of the path that is its own leads.  The   *)
(* two differ in where the next factor comes from, which are parameters.   *)
(***************************************************************************)
EXTENDS Integers, SequencesExt

CONSTANTS
    Path, NoVal,
    has_factor(_),     \* is there a factor to enter at the focus?
    enrolled(_),       \* the factors once it is entered
    kept(_, _),        \* the factors that remain when the first n are still entered
    at_start(_)        \* and when the zipper is reset

S == INSTANCE Cursor

None == -1
Ans(z, ret) == [z |-> z, ret |-> ret]
Obs(z, ret, obs) == [z |-> z, ret |-> ret, obs |-> obs]
Take(k, n) == SubSeq(k, 1, n)
Drop(k, n) == SubSeq(k, n + 1, Len(k))

new(primary, secondary, enroll) ==
    [primary |-> primary, secondary |-> secondary, enroll |-> enroll, factor_paths |-> <<>>]

path(z) == S!path(z.primary)
depth(z) == S!depth(z.primary)
at_root(z) == depth(z) = 0
focus_byte(z) == S!focus_byte(z.primary)

\* factor_idx: the last factor entered, or with `up` the last one entered above the focus.
Entered(z) == Len(z.factor_paths)
EnteredAbove(z) == Cardinality({i \in DOMAIN z.factor_paths : z.factor_paths[i] # depth(z)})
FactorAt(z, i) == IF i = 0 THEN z.primary ELSE z.secondary[i]
Inner(z) == FactorAt(z, Entered(z))
InnerAbove(z) == FactorAt(z, EnteredAbove(z))
path_exists(z) == S!path_exists(InnerAbove(z))
is_val(z) == S!is_val(InnerAbove(z))
get_val(z) == IF is_val(z) THEN InnerAbove(z).trie.val[InnerAbove(z).focus] ELSE NoVal
child_mask(z) == S!child_mask(Inner(z))
child_count(z) == S!child_count(Inner(z))
focus_factor(z) == EnteredAbove(z)
path_indices(z) == z.factor_paths

is_path_end(z) == S!child_count(Inner(z)) = 0 /\ S!path_exists(Inner(z))
\* A mutated form of enter_factors: the factor before need not be at the end of a path.
enter_factors_Early(z) ==
    IF has_factor(z) /\ S!path_exists(Inner(z))
    THEN [z EXCEPT !.secondary = enrolled(z), !.factor_paths = Append(@, depth(z))] ELSE z

enter_factors(z) ==
    IF is_path_end(z) /\ has_factor(z)
    THEN [z EXCEPT !.secondary = enrolled(z), !.factor_paths = Append(@, depth(z))] ELSE z
exit_factors(z) ==
    [z EXCEPT !.factor_paths = Take(@, EnteredAbove(z)), !.secondary = kept(z, EnteredAbove(z))]

\* The innermost factor in a new place, and the primary, which carries the whole path, after it.
Factor(z, c) == [z EXCEPT !.secondary[Entered(z)] = c]
Carried(z, k) == [z EXCEPT !.primary = S!descend_to(@, k)]
MoveIn(z, c, k) == IF Entered(z) = 0 THEN [z EXCEPT !.primary = c] ELSE Carried(Factor(z, c), k)

----------------------------------------------------------------------------

reset(z) == [z EXCEPT !.primary = S!reset(@), !.factor_paths = <<>>, !.secondary = at_start(z)]

RECURSIVE ExistingFrom(_, _, _)
OneFactor(z, r, k, done) ==
    IF r.ret = 0 THEN Ans(enter_factors(z), done)
    ELSE ExistingFrom(MoveIn(z, r.z, Take(Drop(k, done), r.ret)), k, done + r.ret)
InFactor(z, k, done) == OneFactor(z, S!descend_to_existing(Inner(z), Drop(k, done)), k, done)
ExistingFrom(z, k, done) == IF done = Len(k) THEN Ans(enter_factors(z), done) ELSE InFactor(enter_factors(z), k, done)
descend_to_existing(z, k) == ExistingFrom(z, k, 0)

Beyond(z, k) == MoveIn(z, S!descend_to(Inner(z), k), k)
Rest(a, k) == IF a.ret = Len(k) THEN a.z ELSE Beyond(a.z, Drop(k, a.ret))
descend_to(z, k) == Rest(descend_to_existing(z, k), k)
descend_to_byte(z, b) == descend_to(z, <<b>>)
descend_indexed_byte(z, n) ==
    IF n < child_count(z) THEN Ans(descend_to_byte(z, S!Nth(child_mask(z), n)), S!Nth(child_mask(z), n)) ELSE Ans(z, None)
descend_first_byte(z) == descend_indexed_byte(z, 0)

\* MirrorPathObserver: what a secondary tells the observer moves the primary too.
RECURSIVE UntilFrom(_, _, _)
PastJoin(z, obs) == IF is_val(z) THEN Obs(z, TRUE, obs) ELSE UntilFrom(z, TRUE, obs)
Along(z, r, k, obs) == PastJoin(enter_factors(MoveIn(z, r.z, k)), obs \o k)
AlongFactor(z, r, obs) == Along(z, r, Drop(r.z.focus, S!depth(Inner(z))), obs)
UntilFrom(z, moved, obs) ==
    IF child_count(z) = 1 THEN AlongFactor(z, S!descend_until(Inner(z)), obs) ELSE Obs(z, moved, obs)
descend_until(z, obs) == UntilFrom(enter_factors(z), FALSE, obs)

\* Out of the factors that were entered here, and up in the one that is left.
RECURSIVE AscendFrom(_, _, _)
InPrimary(z, r, done) == Ans([z EXCEPT !.primary = r.z], done + r.ret)
BothUp(z, n) == [Factor(z, S!ascend(Inner(z), n).z) EXCEPT !.primary = S!ascend(@, n).z]
UpIn(z, n, left, done) == AscendFrom(BothUp(z, n), left - n, done + n)
AscendIn(z, left, done) ==
    IF Entered(z) = 0 THEN InPrimary(z, S!ascend(z.primary, left), done)
    ELSE UpIn(z, Min({left, depth(z) - Last(z.factor_paths)}), left, done)
AscendFrom(z, left, done) == IF left = 0 THEN Ans(z, done) ELSE AscendIn(exit_factors(z), left, done)
ascend(z, n) == AscendFrom(z, n, 0)
Moves(r) == Ans(r.z, r.ret = 1)
ascend_byte(z) == Moves(ascend(z, 1))

\* ascend_cond
RECURSIVE AscendCond(_, _, _)
AscendFactor(c, vals) == IF vals THEN S!ascend_until(c) ELSE S!ascend_until_branch(c)
StopOrGo(z, delta, vals, done) ==
    IF delta > 0 /\ (child_count(z) # 1 \/ (vals /\ is_val(z))) THEN Ans(z, done) ELSE AscendCond(z, vals, done)
CondIn(z, r, vals, done) ==
    IF Entered(z) = 0 THEN InPrimary(z, r, done)
    ELSE StopOrGo([Factor(z, r.z) EXCEPT !.primary = S!ascend(@, r.ret).z], r.ret, vals, done + r.ret)
CondFrom(z, vals, done) == CondIn(z, AscendFactor(Inner(z), vals), vals, done)
AscendCond(z, vals, done) == CondFrom(exit_factors(z), vals, done)
ascend_until(z) == AscendCond(z, TRUE, 0)
ascend_until_branch(z) == AscendCond(z, FALSE, 0)

NextBit(mask, b) == IF \E c \in mask : c > b THEN Min({c \in mask : c > b}) ELSE None
PrevBit(mask, b) == IF \E c \in mask : c < b THEN Max({c \in mask : c < b}) ELSE None
Beside(up, last, b) == IF b = None THEN Ans(descend_to_byte(up, last), None) ELSE Ans(descend_to_byte(up, b), b)
NextOf(up, last) == Beside(up, last, NextBit(child_mask(up), last))
PrevOf(up, last) == Beside(up, last, PrevBit(child_mask(up), last))
to_next_sibling_byte(z) == IF depth(z) = 0 THEN Ans(z, None) ELSE NextOf(ascend(z, 1).z, focus_byte(z))
to_prev_sibling_byte(z) == IF depth(z) = 0 THEN Ans(z, None) ELSE PrevOf(ascend(z, 1).z, focus_byte(z))

----------------------------------------------------------------------------
(* What it takes from the traits as they provide it.                       *)

Moving == INSTANCE ZipperMoving
descend_to_check(z, k) == Moving!descend_to_check(z, k)
descend_to_val(z, k) == Moving!descend_to_val(z, k)
descend_to_existing_byte(z, b) == Moving!descend_to_existing_byte(z, b)
descend_last_byte(z) == Moving!descend_last_byte(z)
move_to_path(z, q) == Moving!move_to_path(z, q)
Iteration == INSTANCE ZipperIteration
descend_until_max_bytes(z, n, obs) == Iteration!provided_descend_until_max_bytes(z, n, obs)
to_next_step(z, obs) == Iteration!provided_to_next_step(z, obs)
to_next_val(z, obs) == Iteration!provided_to_next_val(z, obs)
descend_last_path(z, obs) == Iteration!provided_descend_last_path(z, obs)
LastVal == INSTANCE ZipperLastVal
descend_last_val(z, obs) == LastVal!provided_descend_last_val(z, obs)
descend_first_k_path(z, k, obs) == Iteration!provided_descend_first_k_path(z, k, obs)
to_next_k_path(z, k, obs) == Iteration!provided_to_next_k_path(z, k, obs)

----------------------------------------------------------------------------

\* Each factor that was entered stands where its part of the path leads, the others at their roots.
PartFor(z, i) ==
    SubSeq(path(z), z.factor_paths[i] + 1, IF i < Entered(z) THEN z.factor_paths[i + 1] ELSE depth(z))
FactorsAligned(z) ==
    \A i \in DOMAIN z.secondary :
        z.secondary[i].focus = IF i <= Entered(z) THEN PartFor(z, i) ELSE <<>>
===============================================================================
