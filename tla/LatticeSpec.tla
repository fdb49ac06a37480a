----------------------------- MODULE LatticeSpec ------------------------------
(***************************************************************************)
(* What the algebra of maps promises, with no nodes: a trie of paths and   *)
(* values, a write zipper rooted at origin that stands at focus (Nil when  *)
(* there is none), and the last call.  A value is a nonempty set under     *)
(* union, intersection and difference.                                     *)
(*                                                                         *)
(* The values of a result are exactly the lattice's.  A join has exactly   *)
(* the paths of both operands; of the other results the documentation says *)
(* nothing about paths that dangle, so a result may keep them or not, but  *)
(* it makes none up.                                                       *)
(***************************************************************************)
EXTENDS PathTrie, FiniteSets

CONSTANT Nil

VARIABLES trie, origin, focus, call

latticeVars == <<trie, origin, focus, call>>

From(p, q) == SubSeq(q, Len(p) + 1, Len(q))
SetAt(t, p) == IF IsVal(t, p) THEN t.val[p] ELSE {}

\* What is at and below p; what is below it only; everything else.
Below(t, p) == [paths |-> {<<>>} \cup {From(p, q) : q \in {r \in t.paths : IsPrefix(p, r)}},
                val   |-> [r \in {From(p, q) : q \in {s \in DOMAIN t.val : IsPrefix(p, s)}} |-> t.val[p \o r]]]
NoRoot(t) == [t EXCEPT !.val = Restrict(@, DOMAIN @ \ {<<>>})]
Without(t, p) == [paths |-> {q \in t.paths : ~IsStrictPrefix(p, q)},
                  val   |-> Restrict(t.val, {q \in DOMAIN t.val : ~IsPrefix(p, q)})]
IsBlank(t) == t = EmptyTrie

----------------------------------------------------------------------------
(* The operations on whole tries.  w is a result of t and u.               *)

Values(P, f(_)) == [p \in {q \in P : f(q) # {}} |-> f(p)]

Join(t, u) == [paths |-> t.paths \cup u.paths,
               val   |-> Values(DOMAIN t.val \cup DOMAIN u.val, LAMBDA p : SetAt(t, p) \cup SetAt(u, p))]

\* Paths that dangle may go; no other may, and none comes.
SomeOf(w, P) == Closure(DOMAIN w.val) \subseteq w.paths /\ w.paths \subseteq P

IsMeet(w, t, u) ==
    /\ w.val = Values(DOMAIN t.val, LAMBDA p : SetAt(t, p) \cap SetAt(u, p))
    /\ SomeOf(w, t.paths \cap u.paths)
IsDifference(w, t, u) ==
    /\ w.val = Values(DOMAIN t.val, LAMBDA p : SetAt(t, p) \ SetAt(u, p))
    /\ SomeOf(w, t.paths)
    /\ t.paths \ u.paths \subseteq w.paths

\* A path is kept that a value of u leads to.
Validated(u, p) == \E v \in DOMAIN u.val : IsPrefix(v, p)
IsRestricted(w, t, u) ==
    /\ w.val = Values(DOMAIN t.val, LAMBDA p : IF Validated(u, p) THEN t.val[p] ELSE {})
    /\ SomeOf(w, t.paths)

\* The tries below the paths of k bytes.
Heads(t, k) == {p \in t.paths : Len(p) = k}
JoinBelow(t, k) ==
    LET tails == UNION {{From(p, q) : q \in {r \in t.paths : IsPrefix(p, r)}} : p \in Heads(t, k)}
    IN [paths |-> {<<>>} \cup tails,
        val   |-> Values(tails \ {<<>>}, LAMBDA q : UNION {SetAt(t, p \o q) : p \in Heads(t, k)})]
IsMeetBelow(w, t, k) ==
    /\ Heads(t, k) = {} => IsBlank(w)
    /\ \A q \in w.paths \ {<<>>} : \A p \in Heads(t, k) : p \o q \in t.paths
    /\ \A p \in Heads(t, k) :
         w.val = Values({From(p, q) : q \in {r \in DOMAIN t.val : IsPrefix(p, r)}},
                        LAMBDA q : {v \in SetAt(t, p \o q) : \A o \in Heads(t, k) : v \in SetAt(t, o \o q)})
    /\ Closure(DOMAIN w.val) \subseteq w.paths

\* Two children of a path that both tries have and that lead no further in either, one
\* of which leaves them both dangling.  What is said of joins here is said of the others
\* (see JoinsAreUnions).
Childless(t, p) == p \in t.paths /\ \A q \in t.paths : IsPrefix(p, q) => q = p
Dangles(t, p) == Childless(t, p) /\ ~IsVal(t, p)
Orphans(t, u) ==
    \E p, q \in t.paths \cap u.paths :
        /\ p # q /\ Len(p) = Len(q) /\ p # <<>> /\ Front(p) = Front(q)
        /\ \A r \in {p, q} : Childless(t, r) /\ Childless(u, r)
        /\ \E x \in {t, u} : Dangles(x, p) /\ Dangles(x, q)
IsJoin(w, t, u) == Orphans(t, u) \/ w = Join(t, u)

\* A zipper's meet leaves the value at its focus when the meet is the other one:
\* it is the meet with a trie that has the larger value there.
Widened(t, u) ==
    IF SetAt(u, <<>>) # {} /\ SetAt(u, <<>>) \subseteq SetAt(t, <<>>)
    THEN [u EXCEPT !.val = [@ EXCEPT ![<<>>] = t.val[<<>>]]] ELSE u

----------------------------------------------------------------------------
(* Answers.                                                                *)

\* AlgebraicResult: the mask of Identity names operands that the result equals.
Honest(r, w, t, u) ==
    /\ r.is = "none" => IsBlank(w)
    /\ r.is = "identity" => /\ r.mask # {}
                            /\ "self" \in r.mask => w = t
                            /\ "counter" \in r.mask => w = u

\* AlgebraicStatus: Identity when the operand in place is as it was.
Reported(s, w, t) ==
    /\ s = "none" => IsBlank(w)
    /\ s = "identity" => w = t

----------------------------------------------------------------------------
(* The calls of PathMap, and of a write zipper.                            *)

OnMap(op, R(_, _, _)) ==
    /\ call'.op = op
    /\ origin = Nil
    /\ R(trie', trie, call'.with)
    /\ UNCHANGED <<origin, focus>>
AnswersFor(R(_, _, _), w, t, u) == R(w, t, u) /\ Honest(call'.ret, w, t, u)
MapCall ==
    \/ OnMap("join", LAMBDA w, t, u : Orphans(t, u) \/ AnswersFor(IsJoin, w, t, u))
    \/ OnMap("meet", LAMBDA w, t, u : AnswersFor(IsMeet, w, t, u))
    \/ OnMap("subtract", LAMBDA w, t, u : AnswersFor(IsDifference, w, t, u))
    \/ OnMap("restrict", LAMBDA w, t, u : AnswersFor(IsRestricted, w, t, u))
    \/ OnMap("map.join_into", LAMBDA w, t, u : Orphans(t, u) \/ (w = Join(t, u) /\ Reported(call'.ret, w, t)))

\* What is at and below the focus becomes w.  With prune, a focus that is left
\* dangling goes, with what it leaves dangling, up to the zipper's root.
Around(w, prune) ==
    LET rest == Without(trie, focus)
    IN CASE ~IsBlank(w) -> rest.paths \cup Prefixes(focus)
         [] IsBlank(w) /\ prune /\ focus \in trie.paths -> PrunePath(rest, focus, Len(origin)).paths
         [] OTHER -> rest.paths
Becomes(w, prune) ==
    /\ Without(trie', focus) = [Without(trie, focus) EXCEPT !.paths = Around(w, prune)]
    /\ UNCHANGED <<origin, focus>>

AtFocus(op, R(_, _, _, _)) ==
    /\ call'.op = op
    /\ origin # Nil
    /\ Becomes(Below(trie', focus), call'.prune)
    /\ \E w \in {Below(trie', focus)}, t \in {Below(trie, focus)} : R(w, t, call'.with, call'.ret)

\* The value at the focus has no part in it.
BelowFocus(op, R(_, _, _, _)) ==
    AtFocus(op, LAMBDA w, t, u, s :
        /\ SetAt(w, <<>>) = SetAt(t, <<>>)
        /\ \E x \in {NoRoot(w)}, y \in {NoRoot(t)}, v \in {NoRoot(u)} : R(x, y, v, s))

\* restrict answers None, and does nothing, where the zipper's path does not exist.
ZipperCall ==
    \/ BelowFocus("join_into", LAMBDA w, t, u, s : Orphans(t, u) \/ (w = Join(t, u) /\ Reported(s, w, t)))
    \/ AtFocus("join_map_into", LAMBDA w, t, u, s : Orphans(t, u) \/ (w = Join(t, u) /\ Reported(s, w, t)))
    \/ BelowFocus("join_into_take", LAMBDA w, t, u, s : Orphans(t, u) \/ (w = Join(t, u) /\ Reported(s, w, t)))
    \/ AtFocus("meet_into", LAMBDA w, t, u, s : IsMeet(w, t, Widened(t, u)) /\ Reported(s, w, t))
    \/ AtFocus("subtract_into", LAMBDA w, t, u, s : IsDifference(w, t, u) /\ Reported(s, w, t))
    \/ BelowFocus("restrict", LAMBDA w, t, u, s : IsRestricted(w, t, u) /\ Reported(s, w, t))
    \/ BelowFocus("restricting", LAMBDA w, t, u, s : IF s THEN IsRestricted(w, u, t) ELSE w = t)
    \/ BelowFocus("meet_2", LAMBDA w, t, u, s :
                    IsMeet(w, u, NoRoot(call'.also)) /\ s # "identity" /\ (s = "none" => IsBlank(w)))
    \/ BelowFocus("join_k_path_into", LAMBDA w, t, u, s : w = JoinBelow(t, call'.k) /\ s = ~IsBlank(w))
    \/ AtFocus("meet_k_path_into", LAMBDA w, t, u, s :
                    IF s THEN IsMeetBelow(w, t, call'.k) /\ ~IsBlank(w)
                    ELSE NoRoot(w) = EmptyTrie /\ SetAt(w, <<>>) = SetAt(t, <<>>) /\ IsMeetBelow(EmptyTrie, t, call'.k))

MoveTo(o, f) == origin' = o /\ focus' = f /\ UNCHANGED trie
Moving ==
    \/ origin = Nil /\ call'.op = "open" /\ \E f, o \in Path : IsPrefix(o, f) /\ MoveTo(o, f)
    \/ origin # Nil /\ call'.op = "close" /\ MoveTo(Nil, <<>>)

LatticeNext == MapCall \/ ZipperCall \/ Moving
LatticeInit == origin = Nil /\ focus = <<>>
Lattice == LatticeInit /\ [][LatticeNext]_latticeVars
===============================================================================
