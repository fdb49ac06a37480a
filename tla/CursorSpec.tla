------------------------------ MODULE CursorSpec ------------------------------
(***************************************************************************)
(* The promises of Cursor as a state machine: any zipper, of any kind,     *)
(* behaves like a focus that moves in a trie it cannot change.  A call is  *)
(* answered with what it returned; the calls are those that clients make.  *)
(***************************************************************************)
EXTENDS Cursor

CONSTANTS
    Keys,      \* the keys clients descend by
    Steps      \* the numbers of bytes they move by

VARIABLES
    trie, focus,
    answer,    \* the last call and what it returned
    turn       \* alternates, so that a call that leaves everything as it is is a step too

cursorVars == <<turn, trie, focus, answer>>
Here == [trie |-> trie, focus |-> focus]

Nothing == [none |-> TRUE]      \* what a call answers that returns nothing
Byte == {Last(k) : k \in Keys \ {<<>>}}

CursorInit ==
    /\ trie.paths \subseteq Path
    /\ focus = <<>>
    /\ answer = [op |-> "new", arg |-> Nothing, ret |-> Nothing]
    /\ turn = FALSE

Answered(op, arg, ret) == answer' = [op |-> op, arg |-> arg, ret |-> ret] /\ turn' = ~turn
To(c) == trie' = c.trie /\ focus' = c.focus

\* The promise is looked at once it is known which call was made.
Called(op, arg) == answer'.op = op /\ answer'.arg = arg
Moves(op, arg, c) == Answered(op, arg, Nothing) /\ To(c)
Gives(op, arg, r) == Answered(op, arg, r.ret) /\ To(r.z)

Down(k) ==
    \/ Called("descend_to", k) /\ Moves("descend_to", k, descend_to(Here, k))
    \/ Called("descend_to_check", k) /\ Gives("descend_to_check", k, descend_to_check(Here, k))
    \/ Called("descend_to_existing", k) /\ Gives("descend_to_existing", k, descend_to_existing(Here, k))
    \/ Called("descend_to_val", k) /\ Gives("descend_to_val", k, descend_to_val(Here, k))
    \/ Called("move_to_path", k) /\ Gives("move_to_path", k, move_to_path(Here, k))
DownByte(b) ==
    \/ Called("descend_to_byte", b) /\ Moves("descend_to_byte", b, descend_to(Here, <<b>>))
    \/ Called("descend_to_existing_byte", b) /\ Gives("descend_to_existing_byte", b, descend_to_existing_byte(Here, b))
By(n) ==
    \/ Called("descend_indexed_byte", n) /\ Gives("descend_indexed_byte", n, descend_indexed_byte(Here, n))
    \/ Called("descend_until_max_bytes", n) /\ Gives("descend_until_max_bytes", n, descend_until_max_bytes(Here, n))
    \/ Called("ascend", n) /\ Gives("ascend", n, ascend(Here, n))
    \/ Called("descend_first_k_path", n) /\ Gives("descend_first_k_path", n, descend_first_k_path(Here, n))
    \/ Called("to_next_k_path", n) /\ Gives("to_next_k_path", n, to_next_k_path(Here, n))
Plain(op, r) == Called(op, Nothing) /\ Gives(op, Nothing, r)
OneStep ==
    \/ Plain("descend_first_byte", descend_first_byte(Here))
    \/ Plain("descend_last_byte", descend_last_byte(Here))
    \/ Plain("descend_until", descend_until(Here))
    \/ Plain("ascend_byte", ascend_byte(Here))
    \/ Plain("ascend_until", ascend_until(Here))
    \/ Plain("ascend_until_branch", ascend_until_branch(Here))
    \/ Plain("to_next_sibling_byte", to_next_sibling_byte(Here))
    \/ Plain("to_prev_sibling_byte", to_prev_sibling_byte(Here))
    \/ Plain("to_next_step", to_next_step(Here))
    \/ Plain("to_next_val", to_next_val(Here))
    \/ Plain("descend_last_path", descend_last_path(Here))
    \/ Plain("descend_last_val", descend_last_val(Here))
    \/ Plain("val_count", Ends(Here, focus, val_count(Here)))
Anew ==
    \/ Called("reset", Nothing) /\ Moves("reset", Nothing, reset(Here))
    \/ Called("clone", Nothing) /\ Moves("clone", Nothing, Here)
    \/ Called("fork_read_zipper", Nothing) /\ Moves("fork_read_zipper", Nothing, fork_read_zipper(Here))

\* An archive is a trie like the one it was made of; its root is there, and a stream
\* has the paths to values only.
Rooted(t) == [t EXCEPT !.paths = @ \cup {<<>>}]
OnlyVals(t) == Rooted([t EXCEPT !.paths = UNION {Prefixes(p) : p \in DOMAIN t.val}])
Joined(t, u) == [paths |-> t.paths \cup u.paths, val |-> [p \in DOMAIN t.val \cup DOMAIN u.val |->
                                                       IF p \in DOMAIN u.val THEN u.val[p] ELSE t.val[p]]]
\* A fold sees every path and every value, each once, whichever way it goes.
Seen(t) == [paths |-> Rooted(t).paths, vals |-> {<<p, t.val[p]>> : p \in DOMAIN t.val}]
\* A file has the paths that lead to values; a stream those from the focus on. Paths that
\* are sorted are all there, once, if none is too long.
MaxLen(t) == Max({0} \cup {Len(p) : p \in t.paths})
File == [read |-> Seen(OnlyVals(trie)), val_count |-> Cardinality(DOMAIN trie.val), max_len |-> MaxLen(trie)]
Onward == {p \in DOMAIN trie.val : DfsBefore(focus, p)}
SortedPaths(limit) ==
    LET fit == \A p \in DOMAIN trie.val : Len(p) <= limit
    IN [ok |-> fit, paths |-> IF fit THEN SetToSortSeq(DOMAIN trie.val, DfsBefore) ELSE <<>>, bounded |-> TRUE]
Archiving ==
    \/ Called("write_trie", Nothing) /\ Gives("write_trie", Nothing, [z |-> Here, ret |-> File])
    \/ /\ answer'.op = "serialize_paths"
       /\ Gives("serialize_paths", answer'.arg, [z |-> Here, ret |-> {<<p, trie.val[p]>> : p \in Onward}])
    \/ answer'.op = "sort_paths" /\ Gives("sort_paths", answer'.arg, [z |-> Here, ret |-> SortedPaths(answer'.arg + 1)])
    \/ answer'.op = "cata" /\ Gives("cata", answer'.arg, [z |-> Here, ret |-> Seen(trie)])
    \/ Called("from_zipper", Nothing) /\ Moves("from_zipper", Nothing, new_cursor(Rooted(trie)))
    \/ Called("from_zipper_cached", Nothing) /\ Moves("from_zipper_cached", Nothing, new_cursor(Rooted(trie)))
    \/ Called("stream", Nothing) /\ Moves("stream", Nothing, new_cursor(OnlyVals(trie)))
    \/ answer'.op = "merge" /\ Moves("merge", answer'.arg, new_cursor(Joined(trie, answer'.arg)))
    \/ answer'.op = "read_zipper_at_path" /\ Moves("read_zipper_at_path", answer'.arg, new_cursor(SubtrieAt(trie, answer'.arg)))

CursorNext ==
    \/ Archiving
    \/ \E k \in Keys : Down(k)
    \/ \E b \in Byte : DownByte(b)
    \/ \E n \in Steps : By(n)
    \/ OneStep
    \/ Anew
CursorSpec == CursorInit /\ [][CursorNext]_cursorVars
===============================================================================
