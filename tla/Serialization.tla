----------------------------- MODULE Serialization -----------------------------
(***************************************************************************)
(* Maps written to files and read again: the lines of                      *)
(* src/src/experimental/serialization.rs, where equal subtries are written *)
(* once, and the streams of paths of src/src/paths_serialization.rs, with  *)
(* the sort of such a stream that keeps little of it in memory.  Deflate   *)
(* and inflate are left out: what is inflated comes in pieces of any size. *)
(***************************************************************************)
EXTENDS Integers, SequencesExt, FiniteSetsExt

CONSTANTS NoVal, serialize_value(_), de(_)     \* the client's encoding of values

----------------------------------------------------------------------------
(* write_trie: lines of a tag and hexadecimal digits, each with an index.  *)
(* Hashes are taken not to collide, so that a line is its own hash.        *)

X == 16             \* the character before an offset
Slash == 17         \* and the one before the length of a run of zeros
Digits(n, w) == [i \in 1..w |-> (n \div 16 ^ (w - i)) % 16]
Zeros(n) == [i \in 1..n |-> 0]
OffsetDigits == 6           \* the bound on those of an offset that are not zero
offset_to_hex_be(i) == <<X>> \o Zeros(16 - OffsetDigits) \o Digits(i, OffsetDigits)
byte_to_hex_pair_be(b) == Digits(b, 2)
HexBytes(s) == FlattenSeq([i \in DOMAIN s |-> byte_to_hex_pair_be(s[i])])
Bits(mask, from) == SumSet({2 ^ (3 - (b % 4)) : b \in {c \in mask : c \div 4 = from}})
MaskDigits == 64
MaskHex(mask) == [i \in 1..MaskDigits |-> IF \E b \in mask : b \div 4 = i - 1 THEN Bits(mask, i - 1) ELSE 0]

Line(tag, data) == [tag |-> tag, data |-> data]
Size(line) == 3 + Len(line.data)
\* The lines so far, where the next one goes, and where the file ends.
NewCtx == [lines |-> <<>>, pos |-> 0, end |-> 0]
At(ctx, idx) == [ctx |-> ctx, idx |-> idx]
Known(ctx, line) == line \in Range(ctx.lines)
IndexIn(ctx, line) == (CHOOSE i \in DOMAIN ctx.lines : ctx.lines[i] = line) - 1
InFile(ctx, line) == [ctx EXCEPT !.end = Max({@, ctx.pos + Size(line)})]
Entered(ctx, line) == At([ctx EXCEPT !.lines = Append(@, line), !.pos = @ + Size(line)], Len(ctx.lines))
rollback_or_advance(ctx, line) == IF Known(ctx, line) THEN At(ctx, IndexIn(ctx, line)) ELSE Entered(ctx, line)
\* Its hash is known when it has been written: if the line is known, the file goes back to
\* where it was, and the bytes are overwritten by what is written next.
serialize_with_rollback(ctx, line) == rollback_or_advance(InFile(ctx, line), line)
\* Here the hash is known before.
WriteOnce(ctx, line) ==
    IF Known(ctx, line) THEN At(ctx, IndexIn(ctx, line)) ELSE Entered(InFile(ctx, line), line)
write_node(ctx, tag, i, j) == WriteOnce(ctx, Line(tag, offset_to_hex_be(i) \o offset_to_hex_be(j)))
WithPath(p, idx) == write_node(p.ctx, "P", p.idx, idx)
maybe_make_path_node(ctx, sub_path, idx) ==
    IF sub_path = <<>> THEN At(ctx, idx)
    ELSE WithPath(serialize_with_rollback(ctx, Line("p", HexBytes(sub_path))), idx)

\* An Accumulator, with the file: the bytes jumped over are kept for the fork above.
Acc(n, sub_path, val_count, max_len) ==
    [ctx |-> n.ctx, idx |-> n.idx, jump_sub_slice |-> sub_path, val_count |-> val_count, max_len |-> max_len]
AddChild(a, child) ==
    LET n == maybe_make_path_node(a.ctx, child.jump_sub_slice, child.idx) IN
    [ctx |-> n.ctx, branches |-> a.branches \o offset_to_hex_be(n.idx),
     val_count |-> a.val_count + child.val_count, max_len |-> Max({a.max_len, child.max_len})]
Branched(ctx, mask, children, len) ==
    LET a == FoldLeft(AddChild, [ctx |-> ctx, branches |-> <<>>, val_count |-> 0, max_len |-> len], children)
        b == WriteOnce(a.ctx, Line("b", a.branches))
        m == serialize_with_rollback(b.ctx, Line("c", MaskHex(mask)))
    IN Acc(write_node(m.ctx, "B", m.idx, b.idx), <<>>, a.val_count, a.max_len)
Collapsed(ctx, byte, child) ==
    Acc(maybe_make_path_node(ctx, <<byte>> \o child.jump_sub_slice, child.idx), <<>>, child.val_count, child.max_len)
WithVal(a, val) ==
    IF val = NoVal THEN a
    ELSE LET v == serialize_with_rollback(a.ctx, Line("v", HexBytes(serialize_value(val))))
         IN Acc(write_node(v.ctx, "V", v.idx, a.idx), <<>>, a.val_count + 1, a.max_len)
Jumped(a, jump, at) ==
    IF Len(at) = jump THEN Acc(maybe_make_path_node(a.ctx, at, a.idx), <<>>, a.val_count, a.max_len)
    ELSE Acc(a, SubSeq(at, Len(at) - jump + 1, Len(at)), a.val_count, a.max_len)
Told(a) == [acc |-> a.ctx, w |-> a]
line_alg(ctx, mask, children, jump, val, at) ==
    Told(Jumped(WithVal(IF Len(children) = 1 THEN Collapsed(ctx, CHOOSE b \in mask : TRUE, children[1])
                        ELSE Branched(ctx, mask, children, Len(at)), val), jump, at))

----------------------------------------------------------------------------
(* offset_and_childmask_zero_compressor: runs of zeros are written as      *)
(* their length, from a whole byte on; an offset's leading ones not at all. *)

Run(n) == <<Slash>> \o byte_to_hex_pair_be(n)
write_zeroes(n, boundary) ==
    CASE n < 4 -> Zeros(n)
      [] n >= 4 /\ boundary -> Run(n)
      [] OTHER -> Run(n - 1) \o <<0>>
Flushed(s) == [s EXCEPT !.out = @ \o write_zeroes(s.zeroes, s.boundary), !.zeroes = 0]
Zero(s) ==
    CASE s.hit_x -> s
      [] ~s.hit_x /\ ~s.boundary /\ s.zeroes = 0 -> [s EXCEPT !.out = Append(@, 0)]
      [] OTHER -> [s EXCEPT !.zeroes = @ + 1]
OffsetBegins(s) == [s EXCEPT !.out = Append(@, X), !.boundary = FALSE, !.hit_x = TRUE, !.panic = @ \/ s.hit_x]
Digit(s, d) == [s EXCEPT !.out = @ \o (IF s.hit_x /\ ~s.boundary THEN <<0, d>> ELSE <<d>>), !.hit_x = FALSE]
Compress(s, c) ==
    LET t == [s EXCEPT !.boundary = ~@] IN
    CASE c = 0 -> Zero(t) [] c = X -> OffsetBegins(Flushed(t)) [] OTHER -> Digit(Flushed(t), c)
LineEnd(s) == IF s.hit_x THEN [s EXCEPT !.out = @ \o <<0, 0>>] ELSE Flushed([s EXCEPT !.boundary = ~@])
LineBegin == [out |-> <<>>, boundary |-> FALSE, zeroes |-> 0, hit_x |-> FALSE, panic |-> FALSE]
zero_compressed(line) ==
    IF line.tag \in {"p", "v"} THEN line ELSE [line EXCEPT !.data = LineEnd(FoldLeft(Compress, LineBegin, @)).out]

\* The file that write_trie makes by a fold with line_alg: its lines, and whether bytes of a line that was taken back lie behind the last one.
FileOf(r) ==
    [lines |-> [i \in DOMAIN r.acc.lines |-> zero_compressed(r.acc.lines[i])], tail |-> r.acc.end > r.acc.pos,
     val_count |-> r.w.val_count, max_len |-> r.w.max_len]

----------------------------------------------------------------------------
(* deserialize_file                                                        *)

hex_pair_be_to_byte(s, i) == 16 * s[i] + s[i + 1]
Pairs(s) == [i \in 1..(Len(s) \div 2) |-> hex_pair_be_to_byte(s, 2 * i - 1)]
From(s, n) == SubSeq(s, n, Len(s))

RECURSIVE Offsets(_, _), MaskBytes(_, _)
\* The numbers so far; a run of zeros shifts the last of them by whole bytes.
Shifted(offsets, bytes, add) == [offsets EXCEPT ![Len(offsets)] = @ * 256 ^ bytes + add]
Offsets(s, offsets) ==
    IF s = <<>> THEN offsets
    ELSE CASE s[1] = X -> Offsets(Tail(s), Append(offsets, 0))
           [] s[1] = Slash -> Offsets(From(s, 4), Shifted(offsets, hex_pair_be_to_byte(s, 2) \div 2, 0))
           [] OTHER -> Offsets(From(s, 3), Shifted(offsets, 1, hex_pair_be_to_byte(s, 1)))
decompress_zeros_compression_offset(s) == Offsets(s, <<>>)
MaskBytes(s, bytes) ==
    IF s = <<>> THEN bytes
    ELSE IF s[1] = Slash THEN MaskBytes(From(s, 4), bytes \o Zeros(hex_pair_be_to_byte(s, 2) \div 2))
    ELSE MaskBytes(From(s, 3), Append(bytes, hex_pair_be_to_byte(s, 1)))
MaskOf(bytes) == {b \in 0..(8 * Len(bytes) - 1) : (bytes[b \div 8 + 1] \div 2 ^ (7 - (b % 8))) % 2 = 1}
decompress_zeros_compression_child_mask(s) == MaskOf(MaskBytes(s, <<>>))

\* Maps: the paths that exist and the values at paths.
NewMap == [paths |-> {<<>>}, vals |-> {}]
\* A graft of nothing leaves no path.
Grafted(p, node) ==
    IF node = NewMap THEN NewMap
    ELSE [paths |-> Prefixes(p) \cup {p \o q : q \in node.paths}, vals |-> {<<p \o v[1], v[2]>> : v \in node.vals}]
Together(maps) == [paths |-> UNION {m.paths : m \in maps} \cup {<<>>}, vals |-> UNION {m.vals : m \in maps}]
set_val_at(map, p, val) ==
    [paths |-> map.paths \cup Prefixes(p), vals |-> {v \in map.vals : v[1] # p} \cup {<<p, val>>}]

Item(is, of) == [is |-> is, of |-> of]
Malformed == [ok |-> FALSE, items |-> <<>>]
Read(s, item) == [s EXCEPT !.items = Append(@, item)]
Has(s, i, is) == i + 1 \in DOMAIN s.items /\ s.items[i + 1].is = is
Get(s, i) == s.items[i + 1].of
\* A node's two offsets are of items before it that are what the node needs.
NodeLine(s, o, first, second, node) ==
    IF Has(s, o[1], first) /\ Has(s, o[2], second) THEN Read(s, Item("node", node)) ELSE Malformed
BranchNode(s, mask, branches) ==
    Together({Grafted(<<SetToSortSeq(mask, <)[i]>>, Get(s, branches[i])) : i \in DOMAIN branches})
BranchLine(s, o) ==
    IF Has(s, o[2], "branches") /\ \E i \in DOMAIN Get(s, o[2]) : ~Has(s, Get(s, o[2])[i], "node") THEN Malformed
    ELSE NodeLine(s, o, "mask", "branches", BranchNode(s, Get(s, o[1]), Get(s, o[2])))
ReadTagged(s, tag, data) ==
    CASE tag = "p" -> Read(s, Item("path", Pairs(data)))
      [] tag = "v" -> Read(s, Item("value", de(Pairs(data))))
      [] tag = "c" -> Read(s, Item("mask", decompress_zeros_compression_child_mask(data)))
      [] tag = "b" -> Read(s, Item("branches", decompress_zeros_compression_offset(data)))
      [] tag = "P" -> LET o == decompress_zeros_compression_offset(data)
                      IN NodeLine(s, o, "path", "node", Grafted(Get(s, o[1]), Get(s, o[2])))
      [] tag = "V" -> LET o == decompress_zeros_compression_offset(data)
                      IN NodeLine(s, o, "value", "node", set_val_at(Get(s, o[2]), <<>>, Get(s, o[1])))
      [] tag = "B" -> BranchLine(s, decompress_zeros_compression_offset(data))
ReadLine(s, line) == IF s.ok THEN ReadTagged(s, line.tag, line.data) ELSE s
ReadLines(file) == FoldLeft(ReadLine, [ok |-> TRUE, items |-> <<>>], file.lines)
\* What is left of a line has no tag.
LastNode(file, s) == IF file.tail \/ ~s.ok THEN Malformed ELSE Last(s.items).of
deserialize_file(file) == LastNode(file, ReadLines(file))

----------------------------------------------------------------------------
(* Streams of paths: the length of each, in four bytes, and its bytes.     *)

LengthBytes(n) == [i \in 1..4 |-> (n \div 256 ^ (i - 1)) % 256]
Length(b) == b[1] + 256 * (b[2] + 256 * (b[3] + 256 * b[4]))
write_path(p) == LengthBytes(Len(p)) \o p
serialize_paths_from_funcs(paths) == FlattenSeq([i \in DOMAIN paths |-> write_path(paths[i])])
\* The stream of what was come to, and the values, which the client's closure sees with
\* their paths' indices.
serialize_paths_with_auxdata(all) ==
    [stream |-> serialize_paths_from_funcs([i \in DOMAIN all |-> all[i][1]]), aux |-> [i \in DOMAIN all |-> all[i][2]]]

\* for_each_deserialized_path: a piece of the stream may end within a length or a path.
RECURSIVE Descending(_, _)
AfterPath(s, piece) == IF piece = <<>> THEN s ELSE Descending(s, piece)
Bytes(s, piece) ==
    IF s.l <= Len(piece)
    THEN AfterPath([s EXCEPT !.got = Append(@, s.buf \o SubSeq(piece, 1, s.l)), !.buf = <<>>, !.finished_path = TRUE],
                   From(piece, s.l + 1))
    ELSE [s EXCEPT !.buf = @ \o piece, !.l = @ - Len(piece), !.finished_path = FALSE]
AfterLength(s, lbuf, piece) ==
    IF Len(lbuf) = 4 THEN Bytes([s EXCEPT !.lbuf = <<>>, !.l = Length(lbuf)], piece) ELSE [s EXCEPT !.lbuf = lbuf]
Descending(s, piece) ==
    IF ~s.finished_path THEN Bytes(s, piece)
    ELSE LET have == Min({Len(piece), 4 - Len(s.lbuf)})
         IN AfterLength(s, s.lbuf \o SubSeq(piece, 1, have), From(piece, have + 1))
Inflate == [finished_path |-> TRUE, l |-> 0, lbuf |-> <<>>, buf |-> <<>>, got |-> <<>>]
Pieces(stream, n) ==
    [i \in 1..((Len(stream) + n - 1) \div n) |-> SubSeq(stream, n * (i - 1) + 1, Min({n * i, Len(stream)}))]
for_each_deserialized_path(stream, n) == FoldLeft(Descending, Inflate, Pieces(stream, n)).got
deserialize_paths_with_auxdata(stream, n, aux) ==
    LET got == for_each_deserialized_path(stream, n)
    IN FoldLeft(LAMBDA map, i : set_val_at(map, got[i], aux[i]), NewMap, [i \in DOMAIN got |-> i])

----------------------------------------------------------------------------
(* sort_paths: sorted runs on disk, at most one for each level; a second   *)
(* one is merged with the first and goes a level up.                       *)

NoRun == <<>>
Levels == 8                 \* 64 in the source
Before(p, q) == IsStrictPrefix(p, q) \/ \E i \in DOMAIN p \cap DOMAIN q : p[i] < q[i] /\ \A j \in 1..(i - 1) : p[j] = q[j]
OnDisk(run) == Len(serialize_paths_from_funcs(run))
\* The bytes of all runs, and the most that there were.
Create(s, run) == [s EXCEPT !.disk = @ + OnDisk(run), !.peak = Max({@, s.disk + OnDisk(run)})]
RECURSIVE Merged(_, _)
Merged(a, b) ==
    CASE a = <<>> \/ b = <<>> -> a \o b
      [] a # <<>> /\ b # <<>> /\ a[1] = b[1] -> <<a[1]>> \o Merged(Tail(a), Tail(b))
      [] a # <<>> /\ b # <<>> /\ Before(a[1], b[1]) -> <<a[1]>> \o Merged(Tail(a), b)
      [] OTHER -> <<b[1]>> \o Merged(a, Tail(b))
merge(s, a, b) == [Create(s, Merged(a, b)) EXCEPT !.disk = @ - OnDisk(a) - OnDisk(b)]
RECURSIVE AddAt(_, _, _)
AddAt(s, run, i) ==
    IF i > Levels THEN [s EXCEPT !.ok = FALSE]
    ELSE IF s.levels[i] = NoRun THEN [s EXCEPT !.levels[i] = run]
    ELSE AddAt([merge(s, s.levels[i], run) EXCEPT !.levels[i] = NoRun], Merged(s.levels[i], run), i + 1)
add_run(s, run) == AddAt(s, run, 1)
Sorted(paths) == SetToSortSeq(ToSet(paths), Before)         \* an equal one after another is not written
spill(s) == add_run([Create(s, Sorted(s.chunk)) EXCEPT !.chunk = <<>>], Sorted(s.chunk))
fits(s, p, memory) == Len(FlattenSeq(s.chunk)) + Len(p) <= memory.bytes /\ Len(s.chunk) < memory.entries
SortPath(s, p, memory) ==
    CASE ~s.ok \/ Len(p) > memory.max_path -> [s EXCEPT !.ok = FALSE]
      [] s.ok /\ Len(p) <= memory.max_path /\ ~fits(s, p, memory) -> [spill(s) EXCEPT !.chunk = Append(@, p)]
      [] OTHER -> [s EXCEPT !.chunk = Append(@, p)]
MergeFinal(s, run) ==
    CASE run = NoRun -> s
      [] run # NoRun /\ s.final = NoRun -> [s EXCEPT !.final = run]
      [] OTHER -> [merge(s, s.final, run) EXCEPT !.final = Merged(s.final, run)]
LastSpill(s) == IF s.ok /\ s.chunk # <<>> THEN spill(s) ELSE s
FinalRun(s) == IF s.ok THEN FoldLeft(MergeFinal, s, s.levels) ELSE s
NewSort == [chunk |-> <<>>, levels |-> [i \in 1..Levels |-> NoRun], final |-> NoRun, disk |-> 0, peak |-> 0, ok |-> TRUE]
sort_paths(paths, memory) ==
    FinalRun(LastSpill(FoldLeft(LAMBDA s, p : SortPath(s, p, memory), NewSort, paths)))
===============================================================================
