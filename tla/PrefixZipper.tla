---------------------------- MODULE PrefixZipper ----------------------------
(***************************************************************************)
(* PrefixZipper (src/src/prefix_zipper.rs): a zipper whose trie is that of *)
(* another, the source, with a path put before it.  The focus is along the *)
(* prefix, off it, or in the source; while it is not in the source the     *)
(* source stays at its root.  Part of the prefix may be above the root.    *)
(***************************************************************************)
EXTENDS Integers, SequencesExt

CONSTANT Path

S == INSTANCE Cursor

None == -1
Ans(z, ret) == [z |-> z, ret |-> ret]
Obs(z, ret, obs) == [z |-> z, ret |-> ret, obs |-> obs]
Take(k, n) == SubSeq(k, 1, n)
Drop(k, n) == SubSeq(k, n + 1, Len(k))

InPrefix(valid) == [at |-> "prefix", valid |-> valid, invalid |-> 0]
OffPrefix(valid, invalid) == [at |-> "off", valid |-> valid, invalid |-> invalid]
InSource == [at |-> "source", valid |-> 0, invalid |-> 0]
is_source(z) == z.position = InSource
is_invalid(z) == z.position.at = "off"
prefixed_depth(z) == z.position.valid + z.position.invalid

\* How much of the prefix is below the zipper's root, and the part of it below the focus.
Below(z) == Len(z.prefix) - z.origin_depth
RestOfPrefix(z) == Drop(z.prefix, z.origin_depth + prefixed_depth(z))
SetPath(z, p) == [z EXCEPT !.path = p]
Longer(z, k) == [z EXCEPT !.path = @ \o k]
Shorter(z, n) == [z EXCEPT !.path = Take(@, Len(@) - n)]
Truncate(obs, n) == Take(obs, Len(obs) - n)

set_valid(z, valid) == [z EXCEPT !.position = IF valid = Below(z) THEN InSource ELSE InPrefix(valid)]
reset(z) ==
    set_valid([z EXCEPT !.path = Take(z.prefix, z.origin_depth), !.source = S!reset(@)], 0)
\* new, and set_root_prefix_path with the first `origin` bytes of the prefix.
new(prefix, source, origin) ==
    reset([path |-> <<>>, source |-> S!reset(source), prefix |-> prefix, origin_depth |-> origin,
           position |-> IF prefix = <<>> THEN InSource ELSE InPrefix(0)])

path(z) == Drop(z.path, z.origin_depth)
origin_path(z) == z.path
depth(z) == Len(z.path) - z.origin_depth
at_root(z) ==
    CASE z.position.at = "prefix" -> z.position.valid = 0
      [] z.position.at = "off" -> FALSE
      [] OTHER -> Below(z) <= 0 /\ S!at_root(z.source)
focus_byte(z) == IF z.path = <<>> THEN None ELSE Last(z.path)
path_exists(z) == ~is_invalid(z) /\ S!path_exists(z.source)
is_val(z) == is_source(z) /\ S!is_val(z.source)
child_mask(z) ==
    CASE z.position.at = "prefix" ->
           IF S!path_exists(z.source) THEN {z.prefix[z.origin_depth + z.position.valid + 1]} ELSE {}
      [] z.position.at = "off" -> {}
      [] OTHER -> S!child_mask(z.source)
child_count(z) ==
    CASE z.position.at = "prefix" -> IF S!path_exists(z.source) THEN 1 ELSE 0
      [] z.position.at = "off" -> 0
      [] OTHER -> S!child_count(z.source)
val_count(z) == S!val_count(z.source)

----------------------------------------------------------------------------

ToSource(z, obs) ==
    Obs([Longer(z, RestOfPrefix(z)) EXCEPT !.position = InSource], TRUE, obs \o RestOfPrefix(z))
consume_prefix(z, obs) == IF S!path_exists(z.source) /\ ~is_source(z) THEN ToSource(z, obs) ELSE Obs(z, FALSE, obs)

\* Along the prefix as far as it agrees, then in the source.
OverlapIn(z, k) == IF S!path_exists(z.source) THEN S!CommonLen(RestOfPrefix(z), k) ELSE 0
AlongPrefix(z, k) ==
    IF z.position.at = "prefix" THEN Ans(set_valid(z, z.position.valid + OverlapIn(z, k)), OverlapIn(z, k)) ELSE Ans(z, 0)
IntoSource(z, r, done) == Ans([z EXCEPT !.source = r.z], done + r.ret)
ThenSource(a, k) ==
    IF is_source(a.z) THEN IntoSource(a.z, S!descend_to_existing(a.z.source, Drop(k, a.ret)), a.ret) ELSE a
Recorded(a, k) == Ans(Longer(a.z, Take(k, a.ret)), a.ret)
descend_to_existing(z, k) == IF is_invalid(z) THEN Ans(z, 0) ELSE Recorded(ThenSource(AlongPrefix(z, k), k), k)

\* What does not exist leads off the prefix, or is the source's to follow.
Beyond(z, k) ==
    IF is_source(z) THEN [Longer(z, k) EXCEPT !.source = S!descend_to(@, k)]
    ELSE [Longer(z, k) EXCEPT !.position = OffPrefix(@.valid, @.invalid + Len(k))]
AfterExisting(a, k) == IF a.ret = Len(k) THEN a.z ELSE Beyond(a.z, Drop(k, a.ret))
descend_to(z, k) == AfterExisting(descend_to_existing(z, k), k)
descend_to_byte(z, b) == descend_to(z, <<b>>)
descend_indexed_byte(z, n) ==
    IF n < Cardinality(child_mask(z)) THEN Ans(descend_to_byte(z, S!Nth(child_mask(z), n)), S!Nth(child_mask(z), n)) ELSE Ans(z, None)
descend_first_byte(z) == descend_indexed_byte(z, 0)

\* The source tells the zipper's own path of its movement as it tells the observer.
CarryBy(p, from, to, n) == Truncate(p, Len(from) - n) \o Drop(to, n)
Carry(p, from, to) == CarryBy(p, from, to, S!CommonLen(from, to))
Follow(c, r, also) ==
    Obs([c.z EXCEPT !.source = r.z, !.path = Carry(@, c.z.source.focus, r.z.focus)], r.ret \/ also,
        Carry(c.obs, c.z.source.focus, r.z.focus))

\* To the end of the prefix is a movement too.
AfterPrefix(c, r) == Follow(c, r, c.ret)
UntilIn(c) == AfterPrefix(c, S!descend_until(c.z.source))
LastPathIn(c) == AfterPrefix(c, S!descend_last_path(c.z.source))
descend_until(z, obs) == IF is_invalid(z) THEN Obs(z, FALSE, obs) ELSE UntilIn(consume_prefix(z, obs))
descend_last_path(z, obs) == IF is_invalid(z) THEN Obs(z, FALSE, obs) ELSE LastPathIn(consume_prefix(z, obs))

----------------------------------------------------------------------------
(* Going up and across.                                                    *)

\* A mutated form of OverPrefix: what was off the prefix is not counted.
OverPrefix_Short(z, valid, steps) == Ans(set_valid(z, Max({0, valid - steps})), valid)

\* ascend_n: how many of the steps are made, by a focus `valid` bytes into the prefix.
OverPrefix(z, valid, steps) == Ans(set_valid(z, Max({0, valid - steps})), Min({valid, steps}))
AndBefore(a, before) == Ans(a.z, a.ret + before)
OffBy(z, steps) ==
    IF z.position.invalid > steps THEN Ans([z EXCEPT !.position.invalid = @ - steps], steps)
    ELSE AndBefore(OverPrefix(z, z.position.valid, steps - z.position.invalid), z.position.invalid)
OutOfSource(z, r, steps) ==
    IF r.ret = steps THEN Ans([z EXCEPT !.source = r.z], steps)
    ELSE AndBefore(OverPrefix([z EXCEPT !.source = r.z], Below(z), steps - r.ret), r.ret)
ascend_n(z, steps) ==
    CASE is_invalid(z) -> OffBy(z, steps)
      [] is_source(z) -> OutOfSource(z, S!ascend(z.source, steps), steps)
      [] OTHER -> OverPrefix(z, z.position.valid, steps)
Shortened(a) == Ans(Shorter(a.z, a.ret), a.ret)
ascend(z, steps) == Shortened(ascend_n(z, steps))
Moves(a) == Ans(a.z, a.ret = 1)
ascend_byte(z) == Moves(ascend(z, 1))

\* The prefix has no branch and no value: out of the source it is left altogether.
ToStart(z, done) == Ans(set_valid(z, 0), done + prefixed_depth(z))
UntilFromSource(z, r, vals) ==
    IF r.ret > 0 /\ ((vals /\ S!is_val(r.z)) \/ S!child_count(r.z) > 1) THEN Ans([z EXCEPT !.source = r.z], r.ret)
    ELSE ToStart([z EXCEPT !.source = r.z, !.position = InPrefix(Below(z))], r.ret)
ascend_until_n(z, r, vals) ==
    CASE at_root(z) -> Ans(z, 0)
      [] ~at_root(z) /\ is_source(z) -> UntilFromSource(z, r, vals)
      [] OTHER -> ToStart(z, 0)
ascend_until(z) == Shortened(ascend_until_n(z, S!ascend_until(z.source), TRUE))
ascend_until_branch(z) == Shortened(ascend_until_n(z, S!ascend_until_branch(z.source), FALSE))

Beside(z, r) ==
    IF r.ret = None THEN Ans(z, None)
    ELSE Ans([z EXCEPT !.source = r.z, !.path = Append(Front(@), r.ret)], r.ret)
to_next_sibling_byte(z) == IF is_source(z) THEN Beside(z, S!to_next_sibling_byte(z.source)) ELSE Ans(z, None)
to_prev_sibling_byte(z) == IF is_source(z) THEN Beside(z, S!to_prev_sibling_byte(z.source)) ELSE Ans(z, None)

----------------------------------------------------------------------------
(* Iteration.                                                              *)

GiveUp(z, obs) == Obs(reset(z), FALSE, Truncate(obs, depth(z)))
OrGiveUp(c) == IF c.ret THEN c ELSE GiveUp(c.z, c.obs)
InSourceNext(c) == OrGiveUp(Follow(c, S!to_next_val(c.z.source), FALSE))
\* The value at the end of the prefix comes first.
EndOfPrefix(c) == IF c.ret /\ S!is_val(c.z.source) THEN c ELSE InSourceNext(c)
\* Off the prefix, the source is after the focus or before it.
Mismatch(z) == z.origin_depth + z.position.valid + 1
Retracted(z, obs) == Obs(ascend(z, z.position.invalid).z, FALSE, Truncate(obs, z.position.invalid))
FromPrefix(c) == EndOfPrefix(consume_prefix(c.z, c.obs))
to_next_val(z, obs) ==
    CASE is_source(z) -> InSourceNext(Obs(z, FALSE, obs))
      [] is_invalid(z) /\ z.path[Mismatch(z)] >= z.prefix[Mismatch(z)] -> GiveUp(z, obs)
      [] is_invalid(z) /\ z.path[Mismatch(z)] < z.prefix[Mismatch(z)] -> FromPrefix(Retracted(z, obs))
      [] OTHER -> FromPrefix(Obs(z, FALSE, obs))

UpBy(c, n) == Obs(ascend(c.z, n).z, FALSE, Truncate(c.obs, n))
OrBack(c, n) == IF c.ret \/ n = 0 THEN c ELSE UpBy(c, n)
FirstKIn(c, k, rest) == OrBack(Follow(c, S!descend_first_k_path(c.z.source, k - rest), FALSE), rest)
WithinPrefix(z, k, obs) ==
    Obs(set_valid(Longer(z, Take(RestOfPrefix(z), k)), depth(z) + k), TRUE, obs \o Take(RestOfPrefix(z), k))
PrefixLeft(z) == IF is_source(z) THEN 0 ELSE Len(RestOfPrefix(z))
descend_first_k_path(z, k, obs) ==
    CASE k = 0 \/ ~path_exists(z) -> Obs(z, FALSE, obs)
      [] k > 0 /\ path_exists(z) /\ k <= PrefixLeft(z) -> WithinPrefix(z, k, obs)
      [] OTHER -> FirstKIn(consume_prefix(z, obs), k, PrefixLeft(z))

\* Only the part of k that is in the source has anything beside it.
NextKIn(z, k, clamped, obs) ==
    OrBack(Follow(Obs(z, FALSE, obs), S!to_next_k_path(z.source, clamped), FALSE), k - clamped)
to_next_k_path(z, k, obs) ==
    CASE depth(z) < k -> GiveUp(z, obs)
      [] depth(z) >= k /\ (is_invalid(z) \/ S!at_root(z.source)) -> UpBy(Obs(z, FALSE, obs), k)
      [] OTHER -> NextKIn(z, k, Min({k, S!depth(z.source)}), obs)

\* fork_read_zipper: what is left of the prefix is before a fork of the source.
Fork(z) ==
    [path |-> z.path, source |-> S!fork_read_zipper(z.source), origin_depth |-> Len(z.path),
     prefix |-> IF is_source(z) THEN z.path ELSE z.prefix,
     position |-> IF is_source(z) THEN InSource ELSE InPrefix(0)]

----------------------------------------------------------------------------
(* What it takes from the traits as they provide it.                       *)

Moving == INSTANCE ZipperMoving
descend_to_check(z, k) == Moving!descend_to_check(z, k)
descend_to_val(z, k) == Moving!descend_to_val(z, k)
descend_to_existing_byte(z, b) == Moving!descend_to_existing_byte(z, b)
descend_last_byte(z) == Moving!descend_last_byte(z)
move_to_path(z, q) == Moving!move_to_path(z, q)
Iteration == INSTANCE ZipperIteration
descend_until_max_bytes(z, n, obs) == Iteration!provided_descend_until_max_bytes(z, n, obs)
to_next_step(z, obs) == Iteration!provided_to_next_step(z, obs)
LastVal == INSTANCE ZipperLastVal
descend_last_val(z, obs) == LastVal!provided_descend_last_val(z, obs)

\* The trie it stands for: the source's behind the prefix.
Lifted(p, t) ==
    [paths |-> IF t.paths = {} THEN {} ELSE Prefixes(p) \cup {p \o q : q \in t.paths},
     val   |-> [q \in {p \o r : r \in DOMAIN t.val} |-> t.val[Drop(q, Len(p))]]]
TrieOver(prefix, t, origin) == S!SubtrieAt(Lifted(prefix, t), Take(prefix, origin))

\* The source stands at its root until the focus is in it, and the path is the prefix so far.
PositionOk(z) ==
    /\ ~is_source(z) => S!at_root(z.source) /\ z.position.valid < Below(z)
    /\ is_source(z) => z.path = z.prefix \o z.source.focus
    /\ z.position.at = "prefix" => z.path = Take(z.prefix, Len(z.path)) /\ depth(z) = z.position.valid
    /\ is_invalid(z) => depth(z) = prefixed_depth(z) /\ z.position.invalid > 0
=============================================================================
