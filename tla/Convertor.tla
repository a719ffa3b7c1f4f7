------------------------------ MODULE Convertor ------------------------------
(***************************************************************************)
(* Convertors (ocoms_convertor.c and the functions it calls): packing      *)
(* count values of a datatype into fragments, unpacking fragments, the     *)
(* list of the pieces of memory, and moving a convertor to a position in   *)
(* the packed data.  A convertor stops where a fragment ends and goes on   *)
(* there, from a stack of the loops it is in.                              *)
(*                                                                         *)
(* Bytes are known by their displacement from the user's buffer: moved is  *)
(* what the convertor took or filled, in the order of the packed data,     *)
(* since it was at position from.  A checksum only selects the functions   *)
(* that run.  The buffers of an iovec are the caller's own: packing        *)
(* without a buffer, which hands out the data in place, is left out.  Of   *)
(* several architectures those with another byte order or another size of  *)
(* bool are told apart.  CUDA is left out.                                 *)
(***************************************************************************)
EXTENDS Datatype

CONSTANTS Counts,         \* values that are sent or received together
          Iovecs,         \* the lengths of the fragments of one call
          Architectures,  \* remote ones, [swaps, sizes]; the local one among them
          Positions,
          MaxMoves        \* bound on the calls of set_position and clone

VARIABLES conv, from, moved, moves
convVars == <<conv, from, moved, moves>>

NoConvertor == [dir |-> "none"]
Run(start, n) == [i \in 1..n |-> start + i - 1]
Frame(index, count, disp) == [index |-> index, count |-> count, disp |-> disp]
Full(c) == Repeated(map, c.count, Extent(dt))
First(c) == Last(c.use).first
Top(w) == Last(w.stack)
Strided(desc) == \E i \in DOMAIN desc : /\ desc[i].kind = "data" /\ desc[i].count > 1
                                         /\ desc[i].extent # Size(desc[i].type)

\* ocoms_convertor_find_or_create_master: the basic types that need conversion.
HeteroMask(arch) ==
    {t \in Basics : \/ arch.sizes[t] # Size(t)
                    \/ arch.swaps /\ arch.sizes[t] > 1 /\ t # "BOOL"}
\* The size of the data in the representation of the sender.
RemoteSize(arch, count) == count * FoldSet(LAMBDA t, n : n + dt.btypes[t] * arch.sizes[t], 0, Basics)

\* ocoms_convertor_create_stack_at_begining
AtBeginning(c) ==
    [c EXCEPT !.partial = 0, !.bConverted = 0,
              !.stack = <<Frame(0, c.count, 0), Frame(1, c.use[1].count, 0)>>]

-----------------------------------------------------------------------------
(* Walking through a description.  How many of the values at hand fit, the *)
(* space they take, and how far the base moves; space is in bytes, or in   *)
(* pieces of memory when the raw layout is listed.                         *)

Fits(raw, w, e) ==
    IF ~raw THEN Smaller(w.count, w.space \div Size(e.type))
    ELSE IF Size(e.type) # e.extent THEN Smaller(w.count, w.space)
    ELSE IF w.space > 0 THEN w.count ELSE 0
Used(raw, e, n) ==
    IF ~raw THEN n * Size(e.type) ELSE IF Size(e.type) # e.extent THEN n ELSE Smaller(1, n)
\* n chunks of len bytes from disp, each step after the one before it
Take(w, n, len, disp, step, used) ==
    [w EXCEPT !.bytes = @ \o Moved(Repeated(Run(0, len), n, step), w.base + disp),
              !.base = @ + n * step, !.space = @ - used, !.count = @ - n]
DataTaken(raw, w, e, n) ==
    Take(w, n, Size(e.type), e.disp, IF raw THEN Size(e.type) ELSE e.extent, Used(raw, e, n))
\* pack_predefined_data, and its likes for unpacking, for a position and for raw pieces
Data(raw, w, e) == DataTaken(raw, w, e, Fits(raw, w, e))
RoundsTaken(raw, w, e, last, n) ==
    Take(w, n, last.size, last.first, e.extent, IF raw THEN n ELSE n * last.size)
\* pack_contiguous_loop and its likes
WholeRounds(raw, w, e, last) ==
    RoundsTaken(raw, w, e, last, Smaller(w.count, IF raw THEN w.space ELSE w.space \div last.size))

\* To an element, from the displacement of the loop around it.
GoTo(w, use, pos) == [w EXCEPT !.pos = pos, !.base = Top(w).disp, !.count = use[pos].count]
\* One round of a loop has ended: top is its frame, with a round less to do.
AfterRound(w, use, top, step) ==
    IF top.count = 0
    THEN GoTo([w EXCEPT !.stack = Front(@)], use, w.pos + 1)
    ELSE GoTo([w EXCEPT !.stack = Append(Front(@), [top EXCEPT !.disp = @ + step])],
              use, top.index + 1)
NextRound(w, use, extent) ==
    AfterRound(w, use, [Top(w) EXCEPT !.count = @ - 1],
               IF Top(w).index = 0 THEN extent ELSE use[Top(w).index].extent)
\* Into a loop, some of whose rounds are done.
Entered(w, use, done) ==
    GoTo([w EXCEPT !.stack = Append(@, Frame(w.pos, w.count, Top(w).disp + done))],
         use, w.pos + 1)
AtLastEnd(w) == Len(w.stack) = 1 /\ Top(w).count = 1

\* What follows the data, or the whole rounds, that were taken: the fragment is
\* full, the next element, or the rounds that are left.
AfterData(d, use) == IF d.count # 0 THEN [d EXCEPT !.full = TRUE] ELSE GoTo(d, use, d.pos + 1)
AfterRounds(r, use, e, base) ==
    IF r.count = 0 THEN GoTo(r, use, r.pos + e.items + 1) ELSE Entered(r, use, r.base - base)
Element(raw, use, extent, w, e) ==
    CASE e.kind = "data" -> AfterData(Data(raw, w, e), use)
      [] e.kind = "end" ->
            IF AtLastEnd(w) THEN [w EXCEPT !.ended = TRUE] ELSE NextRound(w, use, extent)
      [] OTHER ->
            AfterRounds(IF e.contiguous THEN WholeRounds(raw, w, e, use[w.pos + e.items]) ELSE w,
                        use, e, w.base)
RECURSIVE Walk(_, _, _, _)
Walk(raw, use, extent, w) ==
    IF w.full \/ w.ended THEN w
    ELSE Walk(raw, use, extent, Element(raw, use, extent, w, use[w.pos]))
Room(w, space) == [w EXCEPT !.space = space, !.full = FALSE]

\* ocoms_datatype_copy_content_same_ddt: the bytes in the order they are copied
ocoms_datatype_copy_content_same_ddt(count) ==
    IF "CONTIGUOUS" \in dt.flags THEN Repeated(Run(dt.true_lb, dt.size), count, Extent(dt))
    ELSE Walk(FALSE, dt.opt_desc, Extent(dt),
              [stack |-> <<Frame(0, count, 0)>>, pos |-> 1, count |-> dt.opt_desc[1].count,
               base |-> 0, space |-> count * dt.size, bytes |-> <<>>, full |-> FALSE,
               ended |-> FALSE]).bytes

\* The walk that a convertor's stack stands for, and the stack it leaves.
Resumed(c, space) ==
    LET top == Last(c.stack)
        below == Front(c.stack) IN
    [stack |-> below, pos |-> top.index, count |-> top.count, base |-> top.disp + Last(below).disp,
     space |-> space, bytes |-> <<>>, full |-> FALSE, ended |-> FALSE]
Saved(w) == Append(w.stack, Frame(w.pos, w.count, w.base - Top(w).disp))

-----------------------------------------------------------------------------
(* One call of fAdvance; a result has the convertor, the bytes it moved,   *)
(* and whether it went past the fragment.                                  *)

Result(c, bytes, overrun) == [conv |-> c, bytes |-> bytes, overrun |-> overrun]
Sum(iov) == FoldSeq(+, 0, iov)
Advanced(c, bytes) ==
    [c EXCEPT !.bConverted = @ + bytes,
              !.completed = c.bConverted + bytes = IF c.dir = "send" THEN c.local_size
                                                   ELSE c.remote_size]

\* Packing, and listing the raw pieces, fragment by fragment
RECURSIVE Fragments(_, _, _)
Fragments(c, w, iov) ==
    IF iov = <<>> \/ w.ended THEN w
    ELSE Fragments(c, Walk(c.raw, c.use, Extent(dt), Room(w, iov[1])), Tail(iov))
Packed(c, w) == Result([Advanced(c, Len(w.bytes)) EXCEPT !.stack = Saved(w)], w.bytes, FALSE)
ocoms_generic_simple_pack(c, iov) == Packed(c, Fragments(c, Resumed(c, 0), iov))
\* The room is a number of pieces; what needs no conversion is one piece.
ocoms_convertor_raw(c, iov) ==
    LET n == c.local_size - c.bConverted IN
    IF c.advance = "no_op"
    THEN Result(Advanced(c, n), Run(dt.true_lb + c.bConverted, n), FALSE)
    ELSE Packed(c, Fragments(c, Resumed(c, 0), iov))

\* Mutant: the value is filled, but not passed over.
PassedAgain(w, e, use) == w
\* A basic value was filled.
Passed(w, e, use) ==
    IF w.count = 1 THEN GoTo([w EXCEPT !.base = @ + e.extent], use, w.pos + 1)
    ELSE [w EXCEPT !.base = @ + e.extent, !.count = @ - 1]
\* ocoms_generic_simple_unpack_function: a basic value that is cut is filled in two steps.
Missing(c, w) == IF c.partial = 0 THEN 0 ELSE Size(c.use[w.pos].type) - c.partial
Completed(c, w, e, missing) ==
    IF c.partial = 0 THEN w
    ELSE Passed([w EXCEPT !.bytes = @ \o Run(w.base + e.disp + c.partial, missing),
                          !.space = @ - missing], e, c.use)
Unpacking(c, w, overrun) == [conv |-> c, walk |-> w, overrun |-> overrun]
CutOff(c, w, e, cut) ==
    Unpacking([c EXCEPT !.partial = cut], [w EXCEPT !.bytes = @ \o Run(w.base + e.disp, cut)], FALSE)
UnpackedFragment(c, w) == CutOff(c, w, c.use[w.pos], IF w.ended THEN 0 ELSE w.space)
RECURSIVE UnpackedFragments(_, _)
UnpackedFragments(u, iov) ==
    LET c == u.conv
        w == u.walk IN
    IF iov = <<>> \/ w.ended \/ u.overrun THEN u
    ELSE IF iov[1] < Missing(c, w) THEN [u EXCEPT !.overrun = TRUE]
    ELSE UnpackedFragments(
            UnpackedFragment(c, Walk(FALSE, c.use, Extent(dt),
                                     Completed(c, Room(w, iov[1]), c.use[w.pos], Missing(c, w)))),
            Tail(iov))
Unpacked(c, w, overrun) ==
    Result(Advanced(IF overrun THEN c ELSE [c EXCEPT !.stack = Saved(w)], Len(w.bytes)),
           w.bytes, overrun)
UnpackedFrom(u) == Unpacked(u.conv, u.walk, u.overrun)
ocoms_generic_simple_unpack(c, iov) ==
    UnpackedFrom(UnpackedFragments(Unpacking(c, Resumed(c, 0), FALSE), iov))

\* ocoms_pack_homogeneous_contig_function
ocoms_pack_homogeneous_contig(c, iov) ==
    LET n == Smaller(Sum(iov), c.local_size - c.bConverted) IN
    Result([Advanced(c, n) EXCEPT !.stack[1].disp = @ + n],
           Run(First(c) + c.stack[1].disp + c.stack[2].disp, n), FALSE)

\* ocoms_pack_homogeneous_contig_with_gaps_function: as much as max_data says
\* goes into the first fragment, and the rest of a value whether it fits or not.
ocoms_pack_homogeneous_contig_with_gaps(c, iov) ==
    LET allowed == Smaller(Sum(iov), c.local_size - c.bConverted)
        extent == Extent(dt)
        start == First(c) + c.stack[1].disp + c.stack[2].disp
        rest == (dt.size - (c.bConverted % dt.size)) % dt.size
        user == IF rest = 0 THEN start ELSE start + extent - dt.size + rest
        whole == (allowed - rest) \div dt.size
        left == allowed - rest - whole * dt.size IN
    IF allowed < rest \/ allowed > iov[1] THEN Result(c, <<>>, TRUE)
    ELSE Result([Advanced(c, allowed) EXCEPT
                   !.stack[1].disp = user + whole * extent + left - First(c),
                   !.stack[2].disp = 0],
                Run(start, rest) \o Repeated(Run(user, dt.size), whole, extent)
                  \o Run(user + whole * extent, left),
                FALSE)

\* ocoms_unpack_homogeneous_contig_function
UnpackedContig(c, len) ==
    LET n == Smaller(len, c.local_size - c.bConverted)
        extent == Extent(dt)
        start == First(c) + c.stack[1].disp + c.stack[2].disp
        partial == c.bConverted % dt.size
        rest == IF partial # 0 /\ dt.size - partial <= n THEN dt.size - partial ELSE 0
        user == IF rest = 0 THEN start ELSE start + extent - (dt.size - rest)
        whole == (n - rest) \div dt.size
        left == n - rest - whole * dt.size IN
    IF dt.size = extent
    THEN Result(Advanced(c, n), Run(First(c) + c.bConverted, n), FALSE)
    ELSE Result([Advanced(c, n) EXCEPT !.stack[1].disp = user + whole * extent - First(c),
                                       !.stack[2].disp = left],
                Run(start, rest) \o Repeated(Run(user, dt.size), whole, extent)
                  \o Run(user + whole * extent, left),
                FALSE)
RECURSIVE ocoms_unpack_homogeneous_contig(_, _)
ocoms_unpack_homogeneous_contig(c, iov) ==
    IF iov = <<>> THEN Result(c, <<>>, FALSE)
    ELSE LET r == UnpackedContig(c, iov[1])
             s == ocoms_unpack_homogeneous_contig(r.conv, Tail(iov)) IN
         [s EXCEPT !.bytes = r.bytes \o @]

\* The conversion functions: the number of values they convert and the bytes
\* they read.  That of a bool of another size takes its own size for the check.
Converted(arch, type, count, space) ==
    LET n == Smaller(count, space \div Size(type)) IN
    [n |-> n, advance |-> n * arch.sizes[type]]
\* ocoms_unpack_general_function, with the displacement of the element in the stack
RECURSIVE General(_, _)
General(c, w) ==
    LET e == c.use[w.pos]
        f == Converted(c.arch, e.type, w.count, w.space)
        d == [w EXCEPT !.bytes = @ \o Moved(Repeated(Run(0, Size(e.type)), f.n, e.extent),
                                            Top(w).disp + w.base),
                       !.base = @ + f.n * e.extent, !.count = @ - f.n, !.space = @ - f.advance]
        Reset(v) == [v EXCEPT !.base = IF c.use[v.pos].kind = "data" THEN c.use[v.pos].disp
                                       ELSE 0] IN
    CASE e.kind = "data" ->
            IF d.count # 0 THEN d
            ELSE LET v == Reset(GoTo(d, c.use, d.pos + 1)) IN
                 IF v.space <= 0 THEN v ELSE General(c, v)
      [] e.kind = "end" ->
            IF Len(w.stack) = 1 /\ Top(w).count = 1 THEN [w EXCEPT !.ended = TRUE]
            ELSE General(c, Reset(NextRound(w, c.use, Extent(dt))))
      [] OTHER -> General(c, Reset(Entered([w EXCEPT !.count = e.count], c.use, 0)))
ocoms_unpack_general(c, iov) ==
    LET top == Last(c.stack)
        w == General(c, [stack |-> Front(c.stack), pos |-> top.index, count |-> top.count,
                         base |-> top.disp, space |-> iov[1], bytes |-> <<>>, ended |-> FALSE]) IN
    Result([Advanced(c, iov[1] - w.space) EXCEPT
              !.stack = Append(w.stack, Frame(w.pos, w.count, w.base))],
           w.bytes, w.space < 0 \/ Len(iov) > 1)

\* The part of ocoms_convertor_pack and unpack for what needs no conversion.
Direct(c, iov) ==
    LET n == Smaller(Sum(iov), c.local_size - c.bConverted) IN
    Result([c EXCEPT !.bConverted = @ + n, !.completed = c.bConverted + n = c.local_size],
           Run(dt.true_lb + c.bConverted, n), FALSE)

Advance(c, iov) ==
    CASE c.raw -> ocoms_convertor_raw(c, iov)
      [] ~c.raw /\ c.advance = "no_op" -> Direct(c, iov)
      [] ~c.raw /\ c.advance = "generic" /\ c.dir = "send" -> ocoms_generic_simple_pack(c, iov)
      [] c.advance = "generic" /\ c.dir = "recv" -> ocoms_generic_simple_unpack(c, iov)
      [] c.advance = "contig" /\ c.dir = "send" -> ocoms_pack_homogeneous_contig(c, iov)
      [] c.advance = "contig" /\ c.dir = "recv" -> ocoms_unpack_homogeneous_contig(c, iov)
      [] c.advance = "gaps" -> ocoms_pack_homogeneous_contig_with_gaps(c, iov)
      [] OTHER -> ocoms_unpack_general(c, iov)

-----------------------------------------------------------------------------
(* Preparing and moving a convertor *)

\* Which function converts; a raw layout is read from the description.
Function(dir, raw, checksum, count, hetero, arch) ==
    LET contiguous == "CONTIGUOUS" \in dt.flags
        no_gaps == "NO_GAPS" \in dt.flags
        local == HeteroMask(arch) = {} /\ ~arch.swaps
        direct == /\ ~checksum
                  /\ \/ no_gaps /\ (local \/ dir = "send" \/ ~hetero)
                     \/ local /\ contiguous /\ count = 1 IN
    CASE direct -> "no_op"
      [] ~direct /\ raw -> "generic"
      [] ~direct /\ dir = "recv" /\ hetero -> "general"
      [] ~direct /\ ~raw /\ contiguous /\ ~(dir = "recv" /\ hetero) ->
            IF dir = "recv" \/ Extent(dt) = dt.size \/ count <= 1 THEN "contig" ELSE "gaps"
      [] OTHER -> "generic"

\* ocoms_convertor_prepare_for_send and ocoms_convertor_prepare_for_recv
Prepared(dir, raw, checksum, count, arch) ==
    LET hetero == {t \in Basics : dt.btypes[t] > 0} \intersect HeteroMask(arch) # {}
        empty == count = 0 \/ dt.size = 0
        c == [dir |-> dir, raw |-> raw, checksum |-> checksum, count |-> count, arch |-> arch,
              hetero |-> hetero,
              advance |-> IF empty THEN "no_op" ELSE Function(dir, raw, checksum, count, hetero, arch),
              use |-> IF hetero THEN Terminated(dt.desc, FirstDisp(dt.desc, 1), dt.size)
                      ELSE dt.opt_desc,
              local_size |-> count * dt.size,
              remote_size |-> IF hetero THEN RemoteSize(arch, count) ELSE count * dt.size,
              bConverted |-> 0, partial |-> 0, stack |-> <<>>, completed |-> empty] IN
    IF c.advance = "no_op" THEN c ELSE AtBeginning(c)

\* ocoms_convertor_create_stack_with_pos_contig; the displacement of the first
\* element is in the stack here, and added again by those who use it.
WithPosContig(c, p) ==
    LET k == p \div dt.size
        bytes == p % dt.size IN
    [c EXCEPT !.bConverted = p,
              !.stack = <<Frame(0, c.count - k, k * Extent(dt)),
                          IF bytes = 0 THEN Frame(1, c.use[1].count, c.use[1].disp)
                          ELSE Frame(1, dt.size - bytes, dt.true_lb + bytes)>>]

\* ocoms_convertor_generic_simple_position: whole values are skipped first.
Positioned(c, p) ==
    LET k == IF p - c.bConverted > dt.size THEN (p - c.bConverted) \div dt.size ELSE 0
        skipped == [i \in DOMAIN c.stack |->
                      IF i = Len(c.stack) THEN c.stack[i]
                      ELSE [c.stack[i] EXCEPT !.disp = @ + k * Extent(dt),
                                              !.count = IF i = 1 THEN @ - k ELSE @]]
        w == Walk(FALSE, c.use, Extent(dt),
                  Resumed([c EXCEPT !.stack = skipped], p - c.bConverted - k * dt.size)) IN
    [c EXCEPT !.bConverted = p, !.stack = Saved(w), !.partial = w.space]
\* ocoms_convertor_set_position_nocheck; what sends does not stop inside a basic value.
ocoms_convertor_set_position_nocheck(c, p) ==
    LET b == IF p = 0 \/ p < c.bConverted THEN AtBeginning(c) ELSE c
        g == Positioned(b, p) IN
    IF p = 0 THEN b
    ELSE IF "CONTIGUOUS" \in dt.flags THEN WithPosContig(b, p)
    ELSE IF c.dir = "send" THEN [g EXCEPT !.bConverted = @ - g.partial, !.partial = 0]
    ELSE g
\* ocoms_convertor_set_position
ocoms_convertor_set_position(c, p) ==
    LET unset == [c EXCEPT !.completed = FALSE] IN
    CASE c.local_size <= p -> [c EXCEPT !.completed = TRUE, !.bConverted = c.local_size]
      [] c.local_size > p /\ p = c.bConverted -> c
      [] c.local_size > p /\ p # c.bConverted /\ ~c.checksum /\ "NO_GAPS" \in dt.flags
           /\ (c.dir = "send" \/ ~c.hetero) -> [unset EXCEPT !.bConverted = p]
      [] OTHER -> ocoms_convertor_set_position_nocheck(unset, p)

\* What makes a position or a clone go wrong without anyone noticing.
Misplaced(c, p) ==
    LET moves_on == p > 0 /\ p < c.local_size /\ p # c.bConverted IN
    (IF moves_on /\ "CONTIGUOUS" \in dt.flags /\ c.advance # "no_op"
          /\ (dt.true_lb # 0 \/ (c.raw /\ p % dt.size # 0))
     THEN {"displacement_added_twice"} ELSE {})
      \union (IF moves_on /\ p > c.bConverted /\ c.partial # 0 THEN {"partial_value_forgotten"} ELSE {})
      \union (IF p < c.local_size /\ c.advance = "general" THEN {"local_position"} ELSE {})

-----------------------------------------------------------------------------
(* The operations *)

ConvInit == TypeInit /\ conv = NoConvertor /\ from = 0 /\ moved = <<>> /\ moves = 0

Prepare(dir, raw, checksum, count, arch) ==
    LET c == Prepared(dir, raw, checksum, count, arch) IN
    /\ conv = NoConvertor /\ Done(dt)
    /\ conv' = c
    /\ mishaps' = mishaps \union
           (IF c.advance = "general" /\ c.use[1].kind = "data" /\ c.use[1].disp # 0
            THEN {"first_displacement_lost"} ELSE {})
             \union (IF raw /\ Strided(c.use) THEN {"stride_lost"} ELSE {})
    /\ UNCHANGED <<dt, inner, map, inner_map, adds, from, moved, moves>>

\* ocoms_convertor_pack, ocoms_convertor_unpack and ocoms_convertor_raw
Convert(iov) ==
    LET r == Advance(conv, iov) IN
    /\ conv # NoConvertor /\ ~conv.completed
    /\ conv' = r.conv
    /\ moved' = moved \o r.bytes
    /\ mishaps' = IF r.overrun THEN mishaps \union {"overrun"} ELSE mishaps
    /\ UNCHANGED <<dt, inner, map, inner_map, adds, from, moves>>

\* ocoms_convertor_clone: what it takes over, and what it does not.
ClonedConvertor(c, copy_stack) ==
    [c EXCEPT !.partial = 0, !.stack = IF copy_stack THEN @ ELSE <<>>,
              !.bConverted = IF copy_stack THEN @ ELSE LONG_MAX]

\* ocoms_convertor_set_position, of this convertor or of a clone that takes its place
SetPosition(clone, copy_stack, p) ==
    LET moving == IF clone THEN ClonedConvertor(conv, copy_stack) ELSE conv
        c == ocoms_convertor_set_position(moving, p) IN
    /\ conv # NoConvertor /\ conv.local_size > 0 /\ moves < MaxMoves
    /\ moves' = moves + 1
    /\ conv' = c /\ from' = c.bConverted /\ moved' = <<>>
    /\ mishaps' = mishaps \union Misplaced(moving, p)
          \union (IF clone /\ copy_stack /\ conv.partial # 0 /\ c.bConverted >= conv.bConverted
                  THEN {"partial_value_forgotten"} ELSE {})
    /\ UNCHANGED <<dt, inner, map, inner_map, adds>>

ConvNext ==
    \/ conv = NoConvertor /\ TypeNext /\ UNCHANGED convVars
    \/ \E count \in Counts, checksum \in BOOLEAN, arch \in Architectures, dir \in {"send", "recv"} :
          Prepare(dir, FALSE, checksum, count, arch)
    \/ \E count \in Counts, arch \in Architectures : Prepare("send", TRUE, FALSE, count, arch)
    \/ \E iov \in Iovecs : Convert(iov)
    \/ \E clone \in BOOLEAN, copy_stack \in BOOLEAN, p \in Positions :
          (clone \/ copy_stack) /\ SetPosition(clone, copy_stack, p)
ConvSpec == ConvInit /\ [][ConvNext]_<<typeVars, convVars>>

-----------------------------------------------------------------------------
(* Properties *)

\* A datatype that can be converted piece by piece without mishap.
Sound == mishaps = {} /\ Disjoint(map) /\ MergedLoopsAreMoved

\* Whatever the fragments, and wherever the convertor was moved to in between,
\* the bytes it moves are those of the values from its position on, in order:
\* none twice, none left out, none of a gap; and it is completed with the last.
\* A copy takes the same bytes.
MovesTheData ==
    /\ conv = NoConvertor /\ Done(dt) /\ Sound =>
        \A count \in Counts :
           ocoms_datatype_copy_content_same_ddt(count) = Repeated(map, count, Extent(dt))
    /\ conv # NoConvertor /\ Sound =>
        /\ moved = SubSeq(Full(conv), from + 1, from + Len(moved))
        /\ ~conv.hetero => conv.bConverted = from + Len(moved)
        /\ conv.completed => from + Len(moved) = conv.local_size
        /\ from + Len(moved) = conv.local_size => conv.completed
====
