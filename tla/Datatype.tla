------------------------------ MODULE Datatype ------------------------------
(***************************************************************************)
(* Datatypes (ocoms/datatype): a description of where the bytes of a value *)
(* are in memory, built by adding other datatypes to it, and the shorter   *)
(* description a commit derives from it, which packing and copying use.    *)
(*                                                                         *)
(* A description is a sequence of elements: data (count values of a basic  *)
(* type from disp on, extent bytes apart), and loops, whose start says how *)
(* often and how far apart the elements up to its end are repeated.  What  *)
(* a datatype stands for is the sequence of the displacements of its       *)
(* bytes, its type map, kept in map beside the description.  Positions are *)
(* counted from 1.  The limit of UINT_MAX elements is out of reach here.   *)
(***************************************************************************)
EXTENDS Integers, Sequences, FiniteSets, SequencesExt, FiniteSetsExt

CONSTANTS BasicSize,     \* basic type -> its size in bytes, which is its alignment
          Additions,     \* the calls of add, [type, count, disp, extent]
          Resizings,     \* the calls of resize, [lb, extent]
          MaxAdds,       \* bound on the calls of add for one datatype
          LONG_MAX

VARIABLES dt,            \* the datatype that is built
          inner,         \* a committed datatype it can be built from
          map,           \* the type map of dt
          inner_map,
          adds,          \* calls of add so far
          mishaps        \* what happened that a caller could not know of

typeVars == <<dt, inner, map, inner_map, adds, mishaps>>

Basics == DOMAIN BasicSize
\* The bookkeeping types have no bytes.
Size(t) == IF t \in Basics THEN BasicSize[t] ELSE 0

Elem(type, count, disp, extent) ==
    [kind |-> "data", type |-> type, count |-> count, disp |-> disp, extent |-> extent]
LoopStart(count, items, extent, contiguous) ==
    [kind |-> "loop", count |-> count, items |-> items, extent |-> extent,
     contiguous |-> contiguous]
LoopEnd(items, first, size) ==
    [kind |-> "end", count |-> items, first |-> first, size |-> size]

\* The displacement of the first data element at or after position i.
FirstDisp(desc, i) ==
    desc[Min({k \in i..Len(desc) : desc[k].kind # "loop"})].disp
\* A committed description has an end behind its elements.
Terminated(desc, first, size) == Append(desc, LoopEnd(Len(desc), first, size))

ocoms_datatype_create ==
    [id |-> "derived", size |-> 0, lb |-> LONG_MAX, ub |-> -LONG_MAX,
     true_lb |-> LONG_MAX, true_ub |-> -LONG_MAX, align |-> 1, flags |-> {"CONTIGUOUS"},
     nbElems |-> 0, loops |-> 0, btypes |-> [t \in Basics |-> 0],
     desc |-> <<>>, opt_desc |-> <<>>]
\* What ocoms_datatype_init leaves of a predefined datatype.
Predefined(t) ==
    [ocoms_datatype_create EXCEPT
       !.id = t, !.size = Size(t), !.lb = 0, !.ub = Size(t), !.true_lb = 0, !.true_ub = Size(t),
       !.align = Size(t), !.nbElems = 1, !.btypes[t] = 1,
       !.flags = {"PREDEFINED", "CONTIGUOUS", "NO_GAPS", "DATA", "COMMITED"},
       !.desc = <<Elem(t, 1, 0, Size(t))>>,
       !.opt_desc = Terminated(<<Elem(t, 1, 0, Size(t))>>, 0, Size(t))]

Extent(d) == d.ub - d.lb
Larger(a, b) == IF a < b THEN b ELSE a
Smaller(a, b) == IF a < b THEN a ELSE b
\* The remainder of C, which has the sign of the dividend.
Rem(a, b) == IF a < 0 THEN -((-a) % b) ELSE a % b

-----------------------------------------------------------------------------
(* Building a datatype *)

\* The markers for the bounds that the user sets.
Marked(base, marker, disp) ==
    LET known == marker \in base.flags
        d == IF marker = "USER_LB"
             THEN [base EXCEPT !.lb = IF known THEN Smaller(@, disp) ELSE disp]
             ELSE [base EXCEPT !.ub = IF known THEN Larger(@, disp) ELSE disp] IN
    [d EXCEPT !.flags = (@ \union {marker}) \ (IF Extent(d) # d.size THEN {"NO_GAPS"} ELSE {})]

\* The bounds of base after a datatype was added, the user's markers and the
\* alignment taken into account; a count of 0 changes them as a count of 1 does.
Bounded(base, add, count, disp, extent) ==
    LET span == IF count = 0 THEN 0 ELSE extent * (count - 1)
        lb == disp + Smaller(0, span) + add.lb
        ub == disp + Larger(0, span) + add.ub
        OneHas(flag) == (flag \in add.flags) # (flag \in base.flags)
        new_lb == IF ~OneHas("USER_LB") THEN Smaller(base.lb, lb)
                  ELSE IF "USER_LB" \in base.flags THEN base.lb ELSE lb
        new_ub == IF ~OneHas("USER_UB") THEN Larger(base.ub, ub)
                  ELSE IF "USER_UB" \in base.flags THEN base.ub ELSE ub
        flags == base.flags \union {f \in {"USER_LB", "USER_UB"} : OneHas(f)} \union {"DATA"}
        align == Larger(base.align, add.align)
        epsilon == IF "USER_UB" \in flags THEN 0 ELSE Rem(new_ub - new_lb, align) IN
    [base EXCEPT !.lb = new_lb, !.flags = flags, !.align = align,
                 !.ub = IF epsilon = 0 THEN new_ub ELSE new_ub + align - epsilon]

\* The elements that count values of add contribute, disp bytes further on.
Shifted(desc, disp) ==
    [i \in DOMAIN desc |->
        CASE desc[i].kind = "data" -> [desc[i] EXCEPT !.disp = @ + disp]
          [] desc[i].kind = "end" -> [desc[i] EXCEPT !.first = @ + disp]
          [] OTHER -> desc[i]]
Elements(add, count, disp, extent) ==
    LET desc == Shifted(add.desc, disp)
        predefined == "PREDEFINED" \in add.flags
        contiguous == ~predefined /\ "CONTIGUOUS" \in add.flags
        single == Len(desc) = 1 /\ extent = Extent(add) /\ extent = desc[1].extent IN
    CASE predefined /\ ~(extent # add.size /\ count > 1) -> <<Elem(add.id, count, disp, extent)>>
      [] ~predefined /\ single -> <<[desc[1] EXCEPT !.count = @ * count]>>
      [] ~predefined /\ ~single /\ count = 1 -> desc
      [] OTHER -> <<LoopStart(count, Len(desc) + 1, extent, contiguous)>> \o desc
                    \o <<LoopEnd(Len(desc) + 1, FirstDisp(desc, 1), add.size)>>

\* The number of loops, from which the room for a stack of loops is computed.
Loops(base, add, count, extent) ==
    LET predefined == "PREDEFINED" \in add.flags
        single == Len(add.desc) = 1 /\ extent = Extent(add) /\ extent = add.desc[1].extent IN
    IF predefined
    THEN IF extent # add.size /\ count > 1 THEN 1 ELSE base.loops
    ELSE base.loops + add.loops + IF single \/ count = 1 THEN 0 ELSE 2

\* ocoms_datatype_add
ocoms_datatype_add(base, add, count, disp, given) ==
    LET extent == IF given = -1 THEN Extent(add) ELSE given
        bounded == Bounded(base, add, count, disp, extent)
        span == extent * (count - 1)
        ends == {disp + Smaller(0, span) + add.true_lb, disp + Larger(0, span) + add.true_ub}
        size == base.size + count * add.size
        old_true_ub == IF base.nbElems = 0 THEN disp ELSE base.true_ub
        contiguous == /\ "CONTIGUOUS" \in base.flags \intersect add.flags
                      /\ disp + add.true_lb = old_true_ub
                      /\ add.size = extent \/ count < 2 IN
    IF count = 0 \/ add.size = 0 THEN bounded
    ELSE [bounded EXCEPT
            !.size = size,
            !.true_lb = Smaller(Min(ends), base.true_lb),
            !.true_ub = Larger(Max(ends), base.true_ub),
            !.loops = Loops(base, add, count, extent),
            !.btypes = [t \in Basics |-> base.btypes[t] + count * add.btypes[t]],
            !.desc = base.desc \o Elements(add, count, disp, extent),
            !.nbElems = @ + count * add.nbElems,
            !.flags = (@ \ {"CONTIGUOUS", "NO_GAPS"})
                        \union (IF contiguous THEN {"CONTIGUOUS"} ELSE {})
                        \union (IF contiguous /\ size = Extent(bounded) THEN {"NO_GAPS"} ELSE {})]

\* ocoms_datatype_resize
Resized(d, lb, extent) ==
    [d EXCEPT !.lb = lb, !.ub = lb + extent,
              !.flags = (@ \ {"NO_GAPS"})
                          \union (IF extent = d.size /\ "CONTIGUOUS" \in d.flags
                                  THEN {"NO_GAPS"} ELSE {})]

-----------------------------------------------------------------------------
(* The optimized description.  The data that was read last and not yet     *)
(* written is (type, length, disp, extent); starts holds the positions of  *)
(* the loops that are open in the description that is written.             *)

Pending(o) == IF o.length = 0 THEN <<>> ELSE <<Elem(o.type, o.length, o.disp, o.extent)>>
Flushed(o) == [o EXCEPT !.out = @ \o Pending(o), !.length = 0]
\* The displacement moves by the number of values, of whatever size they are.
FlushedAfter(o) == [Flushed(o) EXCEPT !.disp = o.disp + o.length]
Continues(o, disp) == o.disp + o.length * Size(o.type) = disp

OptimizedData(o, e) ==
    IF Continues(o, e.disp) /\ e.extent = Size(e.type)
    THEN IF o.type = e.type \/ o.length = 0
         THEN [o EXCEPT !.type = e.type, !.length = @ + e.count, !.extent = e.extent]
         ELSE [o EXCEPT !.type = "UINT1", !.extent = 1,
                        !.length = @ * Size(o.type) + e.count * Size(e.type)]
    ELSE [Flushed(o) EXCEPT !.disp = e.disp, !.length = e.count, !.extent = e.extent,
                            !.type = e.type]

\* A loop whose content is contiguous and without a gap becomes bytes.
OptimizedRun(o, loop, last, disp) ==
    LET p == IF Continues(o, disp) THEN o ELSE [Flushed(o) EXCEPT !.disp = disp] IN
    [p EXCEPT !.length = @ * Size(p.type) + loop.count * last.size, !.type = "UINT1", !.extent = 1]

\* Mutant: the rounds that are left are not moved when one was merged.
OptimizedGapsUnmoved(o, loop, last, disp) ==
    LET merged == o.length # 0 /\ Continues(o, disp)
        counter == loop.count - (IF merged THEN 1 ELSE 0)
        before == IF merged
                  THEN [o EXCEPT !.length = @ * Size(o.type) + last.size, !.type = "UINT1",
                                 !.extent = 1]
                  ELSE o
        p == IF o.length # 0 THEN [FlushedAfter(before) EXCEPT !.type = "LOOP"] ELSE o IN
    [p EXCEPT !.out = @ \o
        IF counter <= 2
        THEN [k \in 1..counter |->
                Elem("UINT1", last.size, last.first + (k - 1) * loop.extent, 1)]
        ELSE <<LoopStart(counter, 2, loop.extent, TRUE),
               Elem("UINT1", last.size, disp, 1),
               LoopEnd(2, last.first, last.size)>>]

\* A loop whose content is contiguous but followed by a gap: what precedes it
\* takes in its first round when it is adjacent, and two rounds or less are unrolled.
OptimizedGaps(o, loop, last, disp) ==
    LET merged == o.length # 0 /\ Continues(o, disp)
        counter == loop.count - (IF merged THEN 1 ELSE 0)
        shift == IF merged THEN loop.extent ELSE 0
        before == IF merged
                  THEN [o EXCEPT !.length = @ * Size(o.type) + last.size, !.type = "UINT1",
                                 !.extent = 1]
                  ELSE o
        p == IF o.length # 0 THEN [FlushedAfter(before) EXCEPT !.type = "LOOP"] ELSE o IN
    [p EXCEPT !.out = @ \o
        IF counter <= 2
        THEN [k \in 1..counter |->
                Elem("UINT1", last.size, last.first + shift + (k - 1) * loop.extent, 1)]
        ELSE <<LoopStart(counter, 2, loop.extent, TRUE),
               Elem("UINT1", last.size, disp, 1),
               LoopEnd(2, last.first + shift, last.size)>>]

\* Any other loop: a single value of a basic type in it becomes data with a
\* stride, two rounds of a single element are unrolled, the rest is kept.
OptimizedLoop(o, loop, e, pos) ==
    LET p == IF o.length # 0 THEN [FlushedAfter(o) EXCEPT !.type = "LOOP"] ELSE o
        small == loop.items = 2 IN
    CASE small /\ e.count = 1 /\ e.extent = Size(e.type) ->
            [p EXCEPT !.out = Append(@, Elem(e.type, loop.count, e.disp, loop.extent)),
                      !.pos = pos + 3]
      [] small /\ ~(e.count = 1 /\ e.extent = Size(e.type)) /\ loop.count < 3 ->
            [p EXCEPT !.out = @ \o [k \in 1..loop.count |->
                                      [e EXCEPT !.disp = @ + (k - 1) * loop.extent]],
                      !.pos = pos + 3]
      [] OTHER ->
            [p EXCEPT !.out = Append(@, loop), !.starts = Append(@, Len(p.out) + 1),
                      !.pos = pos + 1]

OptimizedEnd(o, e) ==
    LET p == FlushedAfter(o)
        items == Len(p.out) + 1 - Last(p.starts) IN
    [p EXCEPT !.out = Append([@ EXCEPT ![Last(p.starts)].items = items],
                             LoopEnd(items, e.first, e.size)),
              !.starts = Front(@), !.pos = @ + 1]

RECURSIVE Optimized(_, _)
Optimized(desc, o) ==
    IF o.pos > Len(desc) THEN Flushed(o).out
    ELSE LET e == desc[o.pos]
             last == desc[o.pos + e.items]
             disp == FirstDisp(desc, o.pos) IN
         CASE e.kind = "data" ->
                Optimized(desc, [OptimizedData(o, e) EXCEPT !.pos = @ + 1])
           [] e.kind = "end" -> Optimized(desc, OptimizedEnd(o, e))
           [] e.kind = "loop" /\ e.contiguous /\ e.extent = last.size ->
                Optimized(desc, [OptimizedRun(o, e, last, disp) EXCEPT !.pos = @ + e.items + 1])
           [] e.kind = "loop" /\ e.contiguous /\ e.extent # last.size ->
                Optimized(desc, [OptimizedGaps(o, e, last, disp) EXCEPT !.pos = @ + e.items + 1])
           [] OTHER -> Optimized(desc, OptimizedLoop(o, e, desc[o.pos + 1], o.pos))
ocoms_datatype_optimize_short(desc) ==
    Optimized(desc, [pos |-> 1, out |-> <<>>, starts |-> <<>>, type |-> "UINT1",
                     length |-> 0, disp |-> 0, extent |-> 1])

\* ocoms_datatype_commit
Committed(d) ==
    IF "COMMITED" \in d.flags THEN d
    ELSE [d EXCEPT !.flags = @ \union {"COMMITED"},
                   !.opt_desc = IF d.desc = <<>> THEN <<>>
                                ELSE Terminated(ocoms_datatype_optimize_short(d.desc),
                                                FirstDisp(d.desc, 1), d.size)]

\* ocoms_datatype_clone; the copy is no predefined datatype, but keeps the id.
Cloned(d) == [d EXCEPT !.flags = @ \ {"PREDEFINED"}]

-----------------------------------------------------------------------------
(* Counting elements *)

\* After the last round of a loop counting goes on behind the start of the
\* loop around it, which is where it came from.
RECURSIVE Counted(_, _, _, _)
Counted(desc, pos, stack, c) ==
    LET e == desc[pos]
        top == [Last(stack) EXCEPT !.count = @ - 1]
        rest == IF top.count = 0 THEN Front(stack) ELSE Append(Front(stack), top)
        all == e.count * Size(e.type) IN
    CASE e.kind = "end" ->
            IF rest = <<>> THEN c ELSE Counted(desc, Last(rest).index + 1, rest, c)
      [] e.kind = "loop" ->
            Counted(desc, pos + 1, Append(stack, [index |-> pos, count |-> e.count]), c)
      [] e.kind = "data" /\ c.by = "size" ->
            IF all >= c.left
            THEN IF c.left % Size(e.type) = 0 THEN [c EXCEPT !.sum = @ + c.left \div Size(e.type)]
                 ELSE [c EXCEPT !.sum = -1]
            ELSE Counted(desc, pos + 1, stack, [c EXCEPT !.sum = @ + e.count, !.left = @ - all])
      [] OTHER ->
            IF e.count >= c.left THEN [c EXCEPT !.sum = @ + c.left * Size(e.type)]
            ELSE Counted(desc, pos + 1, stack, [c EXCEPT !.sum = @ + all, !.left = @ - e.count])
Count(d, by, left) ==
    Counted(Terminated(d.desc, 0, d.size), 1, <<[index |-> 0, count |-> 1]>>,
            [by |-> by, left |-> left, sum |-> 0]).sum

\* The number of basic elements in the first n bytes, -1 when one is cut.
ocoms_datatype_get_element_count(d, n) == Count(d, "size", n)
\* Mutant: counts the elements of the description, not the basic elements.
SetElementCountDesc(d, n) ==
    LET all == Len(d.desc) IN
    d.size * (n \div all) + IF n % all = 0 THEN 0 ELSE Count(d, "count", n % all)

\* The number of bytes of the first n basic elements.
ocoms_datatype_set_element_count(d, n) ==
    LET all == FoldSet(LAMBDA t, m : m + d.btypes[t], 0, Basics) IN
    d.size * (n \div all) + IF n % all = 0 THEN 0 ELSE Count(d, "count", n % all)

-----------------------------------------------------------------------------
(* The operations *)

Known == [t \in Basics |-> [type |-> Predefined(t), map |-> [i \in 1..Size(t) |-> i - 1]]]
\* The type map of count values, and of a call of add.
Repeated(m, count, extent) ==
    IF m = <<>> THEN <<>>
    ELSE [i \in 1..(count * Len(m)) |-> m[((i - 1) % Len(m)) + 1] + ((i - 1) \div Len(m)) * extent]
Moved(m, disp) == [i \in DOMAIN m |-> m[i] + disp]

TypeInit ==
    /\ dt = ocoms_datatype_create /\ map = <<>>
    /\ inner = ocoms_datatype_create /\ inner_map = <<>>
    /\ adds = 0 /\ mishaps = {}

Building == "COMMITED" \notin dt.flags
HasInner == "COMMITED" \in inner.flags

AddType(type, type_map, count, disp, extent) ==
    LET e == IF extent = -1 THEN Extent(type) ELSE extent IN
    /\ Building /\ adds < MaxAdds
    /\ adds' = adds + 1
    /\ dt' = ocoms_datatype_add(dt, type, count, disp, extent)
    /\ map' = map \o Moved(Repeated(type_map, count, e), disp)
    /\ mishaps' = mishaps \union
           (IF dt'.loops < dt.loops + type.loops THEN {"loops_forgotten"} ELSE {})
             \union (IF dt.size > 0 /\ dt'.size = dt.size /\ Extent(dt') # Extent(dt)
                     THEN {"nothing_extends"} ELSE {})
    /\ UNCHANGED <<inner, inner_map>>

AddMarker(marker, disp) ==
    /\ Building /\ adds < MaxAdds
    /\ adds' = adds + 1
    /\ dt' = Marked(dt, marker, disp)
    /\ UNCHANGED <<inner, map, inner_map, mishaps>>

Add(a) ==
    CASE a.type \in {"USER_LB", "USER_UB"} -> AddMarker(a.type, a.disp)
      [] a.type = "inner" -> HasInner /\ AddType(inner, inner_map, a.count, a.disp, a.extent)
      [] OTHER -> AddType(Known[a.type].type, Known[a.type].map, a.count, a.disp, a.extent)

\* ocoms_datatype_create_contiguous; with a count of 0 the empty datatype is added.
CreateContiguous(count, type, type_map) ==
    /\ dt = ocoms_datatype_create
    /\ AddType(type, type_map, count, 0, -1)

Resize(r) ==
    /\ Building /\ dt.nbElems > 0
    /\ dt' = Resized(dt, r.lb, r.extent)
    /\ UNCHANGED <<inner, map, inner_map, adds, mishaps>>

Commit ==
    /\ Building /\ adds > 0
    /\ dt' = Committed(dt)
    /\ UNCHANGED <<inner, map, inner_map, adds, mishaps>>

\* The next datatype is built from this one, or is a clone of it.
Nest(clone) ==
    /\ ~Building /\ ~HasInner
    /\ inner' = dt /\ inner_map' = map
    /\ dt' = IF clone THEN Cloned(dt) ELSE ocoms_datatype_create
    /\ map' = IF clone THEN map ELSE <<>>
    /\ adds' = IF clone THEN MaxAdds ELSE 0
    /\ UNCHANGED mishaps

TypeNext ==
    \/ \E a \in Additions : Add(a)
    \/ \E r \in Resizings : Resize(r)
    \/ HasInner /\ CreateContiguous(2, inner, inner_map)
    \/ Commit
    \/ \E clone \in BOOLEAN : Nest(clone)
TypeSpec == TypeInit /\ [][TypeNext]_typeVars

-----------------------------------------------------------------------------
(* Properties *)

\* The displacements a description stands for when the rounds of a loop with
\* contiguous content are read as a whole, or element by element.
RECURSIVE Bytes(_, _, _, _)
Bytes(desc, i, j, whole) ==
    IF i > j THEN <<>>
    ELSE LET e == desc[i]
             end == i + e.items
             last == desc[end]
             body == IF whole /\ e.contiguous THEN [k \in 1..last.size |-> last.first + k - 1]
                     ELSE Bytes(desc, i + 1, end - 1, whole) IN
         IF e.kind = "data"
         THEN Moved(Repeated([k \in 1..Size(e.type) |-> k - 1], e.count, e.extent), e.disp)
                \o Bytes(desc, i + 1, j, whole)
         ELSE Repeated(body, e.count, e.extent) \o Bytes(desc, end + 1, j, whole)
Described(desc, whole) == Bytes(desc, 1, Len(desc) - 1, whole)

RECURSIVE Depth(_, _, _)
Depth(desc, i, d) ==
    IF i > Len(desc) THEN d
    ELSE CASE desc[i].kind = "loop" -> Larger(d + 1, Depth(desc, i + 1, d + 1))
           [] desc[i].kind = "end" -> Larger(d, Depth(desc, i + 1, d - 1))
           [] OTHER -> Larger(d, Depth(desc, i + 1, d))

Disjoint(m) == Cardinality(Range(m)) = Len(m)
Runs(m) == \A i \in 1..(Len(m) - 1) : m[i + 1] = m[i] + 1
Done(d) == "COMMITED" \in d.flags /\ d.size > 0

\* However a datatype was built, its description and the optimized one stand
\* for its type map, byte for byte and in order; its size and true bounds are
\* those of the map, a datatype called contiguous is one run of bytes, and the
\* stack of loops a copy allocates has room for all of them.
DescribesItsMap ==
    Done(dt) /\ Disjoint(map) =>
        /\ Described(Append(dt.desc, LoopEnd(0, 0, 0)), FALSE) = map
        /\ Described(dt.opt_desc, TRUE) = map
        /\ dt.size = Len(map)
        /\ dt.true_lb = Min(Range(map)) /\ dt.true_ub = Max(Range(map)) + 1
        /\ "CONTIGUOUS" \in dt.flags => Runs(map)
        /\ mishaps = {} =>
              /\ "NO_GAPS" \in dt.flags => Runs(map \o Moved(map, Extent(dt)))
              /\ Depth(dt.opt_desc, 1, 0) <= dt.loops

\* ocoms_datatype_optimize.c:170 "If any of the loops have been merged with
\* the previous element, then the displacement of the first element (...) must
\* be updated accordingly": the elements in a loop are where its end says.
MergedLoopsAreMoved ==
    Done(dt) /\ Disjoint(map) => Described(dt.opt_desc, FALSE) = map

\* Counting the elements in some bytes and the bytes of some elements are
\* inverse to each other, unless something follows a loop.
LoopsAreLast ==
    \A i \in 1..(Len(dt.desc) - 1) : dt.desc[i].kind = "end" => dt.desc[i + 1].kind = "end"
CountsAgree ==
    Done(dt) /\ LoopsAreLast =>
        \A n \in 1..dt.nbElems :
           ocoms_datatype_get_element_count(dt, ocoms_datatype_set_element_count(dt, n)) = n
====
