----------------------------- MODULE ZipperMerge ------------------------------
(***************************************************************************)
(* The algebra of zippers (src/src/experimental/zipper_algebra.rs): tries  *)
(* under two, three, four or an array of zippers are merged in one walk,   *)
(* in lockstep, into a zipper that writes.  A branch that only one of them *)
(* has is grafted whole, grafts of one level being put off and made        *)
(* together; where all have a branch the walk goes on inside it, counting  *)
(* its depth; where some have it a call for these takes over.  Tries that  *)
(* are one node are not walked at all.                                     *)
(*                                                                         *)
(* The zippers of a call, and the output, stand at the same path.  A value *)
(* is a nonempty set under union, intersection and difference; {} stands   *)
(* for none.  Of the output only its values are told: which of its paths   *)
(* dangle is up to graft_masked_branches.                                  *)
(***************************************************************************)
EXTENDS PathTrie, FiniteSets

CONSTANTS
    Inputs,    \* arrays of tries to be merged
    Formulas,  \* sequences of clauses, sets of indices, for zipper_merge_dnf
    Layouts,   \* sets of paths: where nodes begin
    LastByte   \* 255

VARIABLES
    src,       \* the tries under the zippers
    begins,    \* the paths where nodes begin; equal tries below one of them are one node
    request,   \* the call of the client
    stack,     \* the calls under way, the innermost first
    path,      \* where the zippers of the innermost call stand
    out        \* path -> value: what has been written

mergeVars == <<src, begins, request, stack, path, out>>

NoByte == -1
next_bit(mask, b) == LET later == {c \in mask : c > b} IN IF later = {} THEN NoByte ELSE Min(later)
first_bit(mask) == IF mask = {} THEN NoByte ELSE Min(mask)
from_range(first, end) == IF end = NoByte THEN first..LastByte ELSE first..(end - 1)

\* The zippers' side: child_mask and val at the path p, what is below p.
child_mask(i, p) == {Last(q) : q \in {r \in src[i].paths : r # <<>> /\ Front(r) = p}}
val(i, p) == IF IsVal(src[i], p) THEN src[i].val[p] ELSE {}
ValsBelow(i, p) == Restrict(src[i].val, {q \in DOMAIN src[i].val : IsStrictPrefix(p, q)})
PathsBelow(i, p) == {q \in src[i].paths : IsStrictPrefix(p, q)}

----------------------------------------------------------------------------
(* Policies.  zs is the sequence of the indices of a call's zippers.       *)

Mask(S, a, b) == {x \in {"self", "counter"} : S = IF x = "self" THEN a ELSE b}
join_impl(a, b) == a \cup b
meet_impl(a, b) == a \cap b
subtract_impl(a, b) == a \ b
sym_diff(a, b) ==
    LET join == Mask(a \cup b, a, b)
        meet == Mask(a \cap b, a, b)
    IN CASE a = {} \/ b = {} \/ a \cap b = {} -> a \cup b
         [] a \cap b # {} /\ join # {} /\ join = meet -> {}
         [] a \cap b # {} /\ join # meet /\ "self" \in join -> subtract_impl(a, b)
         [] a \cap b # {} /\ join # meet /\ "self" \notin join /\ "counter" \in join -> subtract_impl(b, a)
         [] OTHER -> subtract_impl(join_impl(a, b), meet_impl(a, b))
combine_impl(op, a, b) ==
    CASE op = "join" -> join_impl(a, b)
      [] op = "meet" -> meet_impl(a, b)
      [] op = "subtract" -> subtract_impl(a, b)
      [] op = "sym_diff" -> sym_diff(a, b)
combine(op, zs, p) == FoldLeft(LAMBDA v, i : combine_impl(op, v, val(i, p)), val(zs[1], p), Tail(zs))

Odd(n) == n % 2 = 1
combine_n_times(op, v, n) == IF op = "subtract" \/ (op = "sym_diff" /\ ~Odd(n)) THEN {} ELSE v
\* What a policy makes of a branch that one zipper has (TRUE: the leftmost), of one that some
\* have, and of n tries that are one node, where n is odd or even.
JoinPolicy == [on_single |-> BOOLEAN, descend_on_some_equal |-> BOOLEAN, on_id |-> BOOLEAN]
MeetPolicy == [on_single |-> {}, descend_on_some_equal |-> {}, on_id |-> BOOLEAN]
SubtractPolicy == [on_single |-> {TRUE}, descend_on_some_equal |-> {TRUE}, on_id |-> {}]
SymDiffPolicy == [on_single |-> BOOLEAN, descend_on_some_equal |-> BOOLEAN, on_id |-> {TRUE}]
Policy(op) ==
    CASE op = "join" -> JoinPolicy [] op = "meet" -> MeetPolicy [] op = "subtract" -> SubtractPolicy [] op = "sym_diff" -> SymDiffPolicy
OnIdGrafts(op, n) == Odd(n) \in Policy(op).on_id
OnSingleGrafts(op, leftmost) == leftmost \in Policy(op).on_single
descend_on_some_equal(op, leftmost) == leftmost \in Policy(op).descend_on_some_equal

----------------------------------------------------------------------------
(* The output.                                                             *)

set_val(o, p, v) == IF v = {} THEN o ELSE [q \in DOMAIN o \cup {p} |-> IF q = p THEN v ELSE o[q]]
graft(o, p, i) == Restrict(o, {q \in DOMAIN o : ~IsStrictPrefix(p, q)}) @@ ValsBelow(i, p)
graft_masked_branches(o, p, i, mask) ==
    LET in(q) == \E b \in mask : IsPrefix(Append(p, b), q)
    IN Restrict(o, {q \in DOMAIN o : ~in(q)}) @@ Restrict(src[i].val, {q \in DOMAIN src[i].val : in(q)})

----------------------------------------------------------------------------
(* Calls.                                                                  *)

\* A mutated form of all_share: the value of a node is kept outside of it.
all_share_AnyValue(zs, p) ==
    /\ p \in begins
    /\ \A i \in Range(zs) : PathsBelow(i, p) # {} /\ PathsBelow(i, p) = PathsBelow(zs[1], p)
                            /\ ValsBelow(i, p) = ValsBelow(zs[1], p)
\* shared_node_id answers where a node begins that has no value over it.
all_share(zs, p) ==
    /\ p \in begins
    /\ \A i \in Range(zs) : PathsBelow(i, p) # {} /\ PathsBelow(i, p) = PathsBelow(zs[1], p)
                            /\ ValsBelow(i, p) = ValsBelow(zs[1], p) /\ val(i, p) = {}

OnShared(op, zs, p, o) ==
    set_val(IF OnIdGrafts(op, Len(zs)) THEN graft(o, p, zs[1]) ELSE o,
            p, combine_n_times(op, val(zs[1], p), Len(zs)))
OnValues(op, zs, p, o) == set_val(o, p, combine(op, zs, p))

FirstBytes(zs, p) == [i \in Range(zs) |-> first_bit(child_mask(i, p))]
Frame(fn, op, zs, p) ==
    [fn |-> fn, op |-> op, zs |-> zs, k |-> 0, next |-> FirstBytes(zs, p), grafts |-> [i \in Range(zs) |-> {}]]
\* What a call with its zippers at p does before its loop: the loop it leaves to be run,
\* if any, and the output.
Enter(fn, op, zs, p, o) ==
    IF all_share(zs, p) THEN [calls |-> <<>>, out |-> OnShared(op, zs, p, o)]
    ELSE [calls |-> <<Frame(fn, op, zs, p)>>, out |-> OnValues(op, zs, p, o)]
ForSome(n) == CASE n = 2 -> "merge" [] n = 3 -> "merge3" [] n = 4 -> "merge4" [] OTHER -> "merge_n"

Top == stack[1]
Rest == Tail(stack)
ZS == Range(Top.zs)

\* The inner call returns, and its caller moves the zippers up again.
Return == path' = IF Rest = <<>> THEN path ELSE Front(path)

flush_grafts == FoldLeft(LAMBDA o, i : graft_masked_branches(o, path, i, Top.grafts[i] \cap child_mask(i, path)), out, Top.zs)
Flushed == [Top EXCEPT !.grafts = [i \in ZS |-> {}]]
\* The bytes after b of the level p.
After(f, p, b) == [f EXCEPT !.next = [i \in Range(f.zs) |-> next_bit(child_mask(i, p), b)]]

----------------------------------------------------------------------------
(* The loop of a merge, one action for each way through it.                *)

Bytes == {Top.next[i] : i \in ZS} \ {NoByte}
Least == Min(Bytes)
Frontier == {i \in ZS : Top.next[i] = Least}
\* The index of the left operand: zipper_merge_n_mono hands on its array.
Leftmost == IF Top.fn = "merge_n" THEN 1 ELSE Top.zs[1]

\* All have it: into it, unless it is one node.
DescendAll ==
    /\ Frontier = ZS
    /\ LET p == Append(path, Least) IN
       IF all_share(Top.zs, p)
       THEN /\ out' = OnShared(Top.op, Top.zs, p, flush_grafts)
            /\ stack' = <<After(Flushed, path, Least)>> \o Rest
            /\ UNCHANGED path
       ELSE /\ out' = OnValues(Top.op, Top.zs, p, flush_grafts)
            /\ stack' = <<[Flushed EXCEPT !.k = @ + 1, !.next = FirstBytes(Top.zs, p)]>> \o Rest
            /\ path' = p

\* One has it, and what follows up to the next byte of another.
GraftSingle ==
    /\ Frontier # ZS
    /\ \E i \in ZS :
        /\ Frontier = {i}
        /\ LET end == first_bit(Bytes \ {Least}) IN
           stack' = <<[Top EXCEPT
                !.grafts[i] = IF OnSingleGrafts(Top.op, i = Leftmost) THEN @ \cup from_range(Least, end) ELSE @,
                !.next[i] = IF end = NoByte THEN NoByte
                            ELSE next_bit(child_mask(i, path) \cap from_range(end, NoByte), 0)]>> \o Rest
    /\ UNCHANGED <<path, out>>

\* Some have it: a call for these.
DescendSome ==
    /\ Frontier # ZS /\ Cardinality(Frontier) > 1
    /\ LET zs == SelectSeq(Top.zs, LAMBDA i : i \in Frontier)
           p == Append(path, Least)
           call == IF descend_on_some_equal(Top.op, Leftmost \in Frontier)
                   THEN Enter(ForSome(Len(zs)), Top.op, zs, p, out) ELSE [calls |-> <<>>, out |-> out]
           advanced == [Top EXCEPT !.next = [i \in ZS |->
                            IF i \in Frontier THEN next_bit(child_mask(i, path), Least) ELSE @[i]]]
       IN /\ out' = call.out
          /\ stack' = call.calls \o <<advanced>> \o Rest
          /\ path' = IF call.calls = <<>> THEN path ELSE p

LeaveLevel ==
    /\ out' = flush_grafts
    /\ IF Top.k = 0 THEN stack' = Rest /\ Return
       ELSE /\ stack' = <<[After(Flushed, Front(path), Last(path)) EXCEPT !.k = @ - 1]>> \o Rest
            /\ path' = Front(path)

Step == IF Bytes = {} THEN LeaveLevel ELSE DescendAll \/ GraftSingle \/ DescendSome

Runs(fn) == stack # <<>> /\ Top.fn = fn
zipper_merge == Runs("merge") /\ Step
zipper_merge3 == Runs("merge3") /\ Step
zipper_merge4 == Runs("merge4") /\ Step
zipper_merge_n_mono == Runs("merge_n") /\ Step

----------------------------------------------------------------------------
(* A disjunction of conjunctions of the zippers.                           *)

Clauses == request.clauses
clause_mask(c, p) == IF Clauses[c] = {} THEN {} ELSE {b \in 0..LastByte : \A i \in Clauses[c] : b \in child_mask(i, p)}
compute_masks(cs, p) == UNION {clause_mask(c, p) : c \in cs}
Sorted(S) == SetToSortSeq(S, LAMBDA i, j : i < j)
clause_value(c, p) == IF Clauses[c] = {} THEN {} ELSE combine("meet", Sorted(Clauses[c]), p)
active_clauses_value(cs, p) == UNION {clause_value(c, p) : c \in cs}

Branch(cs, p, o) ==
    LET only == CHOOSE c \in cs : TRUE
        zs == Sorted(Clauses[only])
    IN CASE Cardinality(cs) = 1 /\ Len(zs) = 1 ->
                [calls |-> <<>>, out |-> set_val(graft(o, p, zs[1]), p, val(zs[1], p))]
         [] Cardinality(cs) = 1 /\ Len(zs) \in 2..4 -> Enter(ForSome(Len(zs)), "meet", zs, p, o)
         [] OTHER ->
                [calls |-> << [fn |-> "dnf", cs |-> cs, k |-> 0, next |-> first_bit(compute_masks(cs, p))] >>,
                 out |-> set_val(o, p, active_clauses_value(cs, p))]

\* All clauses go on below the byte, or a call is made for those that do.
DnfDescend ==
    /\ Top.next # NoByte
    /\ LET p == Append(path, Top.next)
           cs == {c \in Top.cs : Top.next \in clause_mask(c, path)}
           call == Branch(cs, p, out)
           advanced == [Top EXCEPT !.next = next_bit(compute_masks(Top.cs, path), @)]
       IN IF cs = Top.cs
          THEN /\ stack' = <<[Top EXCEPT !.k = @ + 1, !.next = first_bit(compute_masks(cs, p))]>> \o Rest
               /\ out' = set_val(out, p, active_clauses_value(cs, p))
               /\ path' = p
          ELSE /\ stack' = call.calls \o <<advanced>> \o Rest
               /\ out' = call.out
               /\ path' = IF call.calls = <<>> THEN path ELSE p

DnfAscend ==
    /\ Top.next = NoByte
    /\ IF Top.k = 0 THEN stack' = Rest /\ Return
       ELSE /\ stack' = <<[Top EXCEPT !.k = @ - 1, !.next = next_bit(compute_masks(Top.cs, Front(path)), Last(path))]>> \o Rest
            /\ path' = Front(path)
    /\ UNCHANGED out

zipper_merge_dnf == Runs("dnf") /\ (DnfDescend \/ DnfAscend)

----------------------------------------------------------------------------

All == [i \in DOMAIN src |-> i]
Begin ==
    /\ Runs("client")
    /\ LET call == IF request.op = "dnf" THEN Branch(DOMAIN Clauses, path, out)
                   ELSE Enter(request.fn, request.op, All, path, out)
       IN stack' = call.calls /\ out' = call.out
    /\ UNCHANGED path

\* The entry points: functions for two zippers and for three, an array, and a tuple of
\* references, which goes to the function of its arity, or becomes an array.
Tuples(op, n) == [op : {op}, fn : IF n \in 2..4 THEN {ForSome(n)} ELSE {"merge_n"}]
Arrays(op) == [op : {op}, fn : {"merge_n"}]
zipper_join(n) == Tuples("join", n) \cup Arrays("join")
zipper_meet(n) == Tuples("meet", n) \cup Arrays("meet")
zipper_subtract(n) == Tuples("subtract", n) \cup Arrays("subtract")
zipper_sym_diff(n) == Tuples("sym_diff", n) \cup Arrays("sym_diff")
Majority == << {1, 2}, {1, 3}, {2, 3} >>
zipper_majority(n) == [op : {"dnf"}, clauses : IF n = 3 THEN {Majority} ELSE {}]
Formulae(n) == [op : {"dnf"}, clauses : {cs \in Formulas : UNION Range(cs) \subseteq 1..n}]
Requests(n) ==
    zipper_join(n) \cup zipper_meet(n) \cup zipper_subtract(n) \cup zipper_sym_diff(n) \cup
    zipper_majority(n) \cup Formulae(n)

MergeInit ==
    /\ src \in Inputs
    /\ begins \in Layouts
    /\ request \in Requests(Len(src))
    /\ stack = << [fn |-> "client"] >> /\ path = <<>> /\ out = <<>>

MergeNext ==
    /\ Begin \/ zipper_merge \/ zipper_merge3 \/ zipper_merge4 \/ zipper_merge_n_mono \/ zipper_merge_dnf
    /\ UNCHANGED <<src, begins, request>>

MergeSpec == MergeInit /\ [][MergeNext]_mergeVars

----------------------------------------------------------------------------
(* Properties.                                                             *)

Elements(p) == UNION {val(i, p) : i \in DOMAIN src}
Holds(x, p) ==
    CASE request.op = "join" -> TRUE
      [] request.op = "meet" -> \A i \in DOMAIN src : x \in val(i, p)
      [] request.op = "subtract" -> x \in val(1, p) /\ \A i \in DOMAIN src \ {1} : x \notin val(i, p)
      [] request.op = "sym_diff" -> Odd(Cardinality({i \in DOMAIN src : x \in val(i, p)}))
      [] request.op = "dnf" -> \E c \in DOMAIN Clauses : Clauses[c] # {} /\ \A i \in Clauses[c] : x \in val(i, p)
Merged(p) == {x \in Elements(p) : Holds(x, p)}

\* zipper_algebra.rs:126 and its likes: the operation on all values at each path.  However
\* the tries branch, whichever of them share nodes, and however grafts are put off over
\* descents, what has been written at a path is right at once, and in the end nothing is
\* missing.
MergesSources ==
    /\ \A p \in DOMAIN out : out[p] = Merged(p)
    /\ stack = <<>> => \A i \in DOMAIN src : \A p \in DOMAIN src[i].val : Merged(p) # {} => p \in DOMAIN out
===============================================================================
