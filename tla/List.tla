-------------------------------- MODULE List --------------------------------
(***************************************************************************)
(* ocoms_list_t (ocoms/util/ocoms_list.h, ocoms_list.c): doubly linked     *)
(* lists of items that carry their own links.  A list is its sentinel,     *)
(* which is before the first item and after the last, and a count that is  *)
(* kept beside the links.                                                  *)
(*                                                                         *)
(* The build is the one with OCOMS_ENABLE_DEBUG; a call is one action, and *)
(* is made only where none of its assertions fails.  item_refcount is 1    *)
(* exactly for the items that have a belong_to, so only that is kept.      *)
(***************************************************************************)
EXTENDS Integers, Sequences, FiniteSets, Functions

CONSTANTS Lists,         \* the lists; a list is also its sentinel
          ListItems,     \* items, ordered by Rank for ocoms_list_sort
          Rank,
          LengthBound    \* bound on the count of a list

NoItem == "NoItem"

ASSUME ListAssumption ==
    /\ Lists \cap ListItems = {} /\ NoItem \notin Lists \cup ListItems
    /\ Rank \in [ListItems -> Int] /\ LengthBound \in Int

VARIABLES
    next, prev,      \* the links of items and sentinels
    length,          \* ocoms_list_length
    belong_to,       \* ocoms_list_item_belong_to
    contents,        \* history: the items the documentation says are in a list
    miscounted       \* history: lists an item was inserted in at index 0

listVars == <<next, prev, length, belong_to, contents, miscounted>>

Nodes == Lists \cup ListItems

\* ocoms_list_item_construct, ocoms_list_construct
ListInit ==
    /\ next = [n \in Nodes |-> IF n \in Lists THEN n ELSE NoItem]
    /\ prev = next
    /\ length = [l \in Lists |-> 0]
    /\ belong_to = [n \in Nodes |-> IF n \in Lists THEN n ELSE NoItem]
    /\ contents = [l \in Lists |-> <<>>]
    /\ miscounted = {}

\* The sentinel has its links; it has not once ocoms_list_remove_first or
\* _remove_last has handed it out.
Usable(l) == next[l] # NoItem
OnNoList(i) == belong_to[i] = NoItem
NodesOf(l) == {l} \cup Range(contents[l])

\* Where a node is in its list, the sentinel after all.
At(s, n) == CHOOSE k \in DOMAIN s : s[k] = n
IndexOf(l, n) == IF n = l THEN Len(contents[l]) + 1 ELSE At(contents[l], n)

InsertedBefore(s, k, t) == SubSeq(s, 1, k - 1) \o t \o SubSeq(s, k, Len(s))
CutOut(s, a, b) == SubSeq(s, 1, a - 1) \o SubSeq(s, b, Len(s))
Dropped(s, n) == IF n \in Range(s) THEN CutOut(s, At(s, n), At(s, n) + 1) ELSE s

-----------------------------------------------------------------------------
\* Item i is linked in before node pos of list l and counted n times.
PutBefore(l, pos, i, n) ==
    /\ Usable(l) /\ OnNoList(i)
    /\ length[l] + n <= LengthBound
    /\ next' = [next EXCEPT ![prev[pos]] = i, ![i] = pos]
    /\ prev' = [prev EXCEPT ![i] = prev[pos], ![pos] = i]
    /\ length' = [length EXCEPT ![l] = @ + n]
    /\ belong_to' = [belong_to EXCEPT ![i] = l]
    /\ contents' = [contents EXCEPT ![l] = InsertedBefore(@, IndexOf(l, pos), <<i>>)]

\* ocoms_list_append
ListAppend(l, i) == PutBefore(l, l, i, 1) /\ UNCHANGED miscounted

\* ocoms_list_prepend
ListPrepend(l, i) == PutBefore(l, next[l], i, 1) /\ UNCHANGED miscounted

\* ocoms_list_insert_pos
ListInsertPos(l, pos, i) == PutBefore(l, pos, i, 1) /\ UNCHANGED miscounted

\* ocoms_list_insert: refused from the length on; at 0 the item is prepended,
\* which counts it, and then counted; a negative index is taken as 1.  (An
\* index that only a wrong count allows goes round the sentinel: not called.)
ListInsert(l, i, idx) ==
    /\ Usable(l) /\ idx < length[l]
    /\ IF idx = 0
       THEN PutBefore(l, next[l], i, 2) /\ miscounted' = miscounted \cup {l}
       ELSE /\ idx <= Len(contents[l])
            /\ PutBefore(l, next[IF idx <= 1 THEN next[l] ELSE contents[l][idx]], i, 1)
            /\ UNCHANGED miscounted

-----------------------------------------------------------------------------
\* ocoms_list_remove_item: an item that is not on the list is left alone, one
\* that is keeps its own links.
ListRemoveItem(l, i) ==
    /\ Usable(l) /\ i \in Range(contents[l])
    /\ next' = [next EXCEPT ![prev[i]] = next[i]]
    /\ prev' = [prev EXCEPT ![next[i]] = prev[i]]
    /\ length' = [length EXCEPT ![l] = @ - 1]
    /\ belong_to' = [belong_to EXCEPT ![i] = NoItem]
    /\ contents' = [contents EXCEPT ![l] = Dropped(@, i)]
    /\ UNCHANGED miscounted

\* Node n is unlinked and handed out, with NULL for its links.  With a count
\* that is too large it may be the sentinel.
HandOut(l, n) ==
    /\ Usable(l) /\ length[l] # 0
    /\ length' = [length EXCEPT ![l] = @ - 1]
    /\ next' = [next EXCEPT ![prev[n]] = next[n], ![n] = NoItem]
    /\ prev' = [prev EXCEPT ![next[n]] = prev[n], ![n] = NoItem]
    /\ belong_to' = [belong_to EXCEPT ![n] = NoItem]
    /\ contents' = [contents EXCEPT ![l] = Dropped(@, n)]
    /\ UNCHANGED miscounted

\* ocoms_list_remove_first, ocoms_list_remove_last
ListRemoveFirst(l) == HandOut(l, next[l])
ListRemoveLast(l) == HandOut(l, prev[l])

\* ocoms_list_destruct: the items stay as they are and belong to it for ever.
ListDestruct(l) ==
    /\ next' = [next EXCEPT ![l] = l]
    /\ prev' = [prev EXCEPT ![l] = l]
    /\ length' = [length EXCEPT ![l] = 0]
    /\ belong_to' = [belong_to EXCEPT ![l] = l]
    /\ contents' = [contents EXCEPT ![l] = <<>>]
    /\ miscounted' = miscounted \ {l}

\* OCOMS_LIST_DESTRUCT: every item is removed and released first.
ListDestructMacro(l) ==
    LET gone == Range(contents[l]) IN
    /\ Usable(l) /\ l \notin miscounted
    /\ next' = [n \in Nodes |-> IF n = l THEN l ELSE IF n \in gone THEN NoItem ELSE next[n]]
    /\ prev' = [n \in Nodes |-> IF n = l THEN l ELSE IF n \in gone THEN NoItem ELSE prev[n]]
    /\ length' = [length EXCEPT ![l] = 0]
    /\ belong_to' = [n \in Nodes |-> IF n \in gone THEN NoItem ELSE belong_to[n]]
    /\ contents' = [contents EXCEPT ![l] = <<>>]
    /\ UNCHANGED miscounted

-----------------------------------------------------------------------------
\* Mutant: the links of the old place are not closed.
NextAfterTransferOpen(pos, begin, end) ==
    [next EXCEPT ![prev[end]] = pos, ![prev[pos]] = begin]

\* Mutant: pos->prev is saved after it is overwritten.
PrevAfterTransferLate(pos, begin, end) ==
    [prev EXCEPT ![pos] = prev[end], ![end] = prev[begin], ![begin] = prev[end]]

\* ocoms_list_transfer of [begin, end) to before pos, with pos # end
NextAfterTransfer(pos, begin, end) ==
    [next EXCEPT ![prev[end]] = pos, ![prev[begin]] = end, ![prev[pos]] = begin]
PrevAfterTransfer(pos, begin, end) ==
    [prev EXCEPT ![pos] = prev[end], ![end] = prev[begin], ![begin] = prev[pos]]

Transfer(this, pos, begin, end, moved) ==
    IF pos = end THEN UNCHANGED <<next, prev, belong_to>>
    ELSE /\ next' = NextAfterTransfer(pos, begin, end)
         /\ prev' = PrevAfterTransfer(pos, begin, end)
         /\ belong_to' = [n \in Nodes |-> IF n \in Range(moved) THEN belong_to[pos]
                                          ELSE belong_to[n]]

\* ocoms_list_join of a whole list
ListJoin(this, pos, x) ==
    /\ this # x /\ Usable(this) /\ Usable(x)
    /\ length[x] # 0 /\ contents[x] # <<>>
    /\ length[this] + length[x] <= LengthBound
    /\ Transfer(this, pos, next[x], x, contents[x])
    /\ length' = [length EXCEPT ![this] = @ + length[x], ![x] = 0]
    /\ contents' = [contents EXCEPT
         ![this] = InsertedBefore(@, IndexOf(this, pos), contents[x]), ![x] = <<>>]
    /\ miscounted' = (miscounted \ {x}) \cup (IF x \in miscounted THEN {this} ELSE {})

\* ocoms_list_splice of [first, last), where pos is not in that range
ListSplice(this, pos, x, first, last) ==
    LET a == IndexOf(x, first)
        b == IndexOf(x, last)
        moved == SubSeq(contents[x], a, b - 1)
        rest == CutOut(contents[x], a, b)
        p == IndexOf(this, pos) IN
    /\ Usable(this) /\ Usable(x) /\ a < b /\ pos \notin Range(moved)
    /\ length[this] + (b - a) <= LengthBound
    /\ Transfer(this, pos, first, last, moved)
    /\ length' = [length EXCEPT ![this] = @ + (b - a), ![x] = @ - (b - a)]
    /\ contents' =
         IF this = x
         THEN [contents EXCEPT
                 ![x] = InsertedBefore(rest, IF p < a THEN p ELSE p - (b - a), moved)]
         ELSE [contents EXCEPT ![this] = InsertedBefore(@, p, moved), ![x] = rest]
    /\ UNCHANGED miscounted

\* What qsort makes of a sequence: items of one rank are in any order.
Sorted(s) ==
    {[k \in DOMAIN s |-> s[p[k]]] :
       p \in {q \in Bijection(DOMAIN s, DOMAIN s) :
               \A j, k \in DOMAIN s : j < k => Rank[s[q[j]]] <= Rank[s[q[k]]]}}

\* ocoms_list_sort: everything is removed, sorted and appended.  (With a count
\* that is too large the sentinel would be compared: not called.)
ListSort(l) ==
    /\ Usable(l) /\ l \notin miscounted /\ contents[l] # <<>>
    /\ \E s \in Sorted(contents[l]) :
          LET n == Len(s) IN
          /\ next' = [k \in Nodes |-> IF k = l THEN s[1]
                        ELSE IF k \notin Range(s) THEN next[k]
                        ELSE IF k = s[n] THEN l ELSE s[At(s, k) + 1]]
          /\ prev' = [k \in Nodes |-> IF k = l THEN s[n]
                        ELSE IF k \notin Range(s) THEN prev[k]
                        ELSE IF k = s[1] THEN l ELSE s[At(s, k) - 1]]
          /\ contents' = [contents EXCEPT ![l] = s]
    /\ UNCHANGED <<length, belong_to, miscounted>>

-----------------------------------------------------------------------------
ListNext ==
    \E l \in Lists :
       \/ \E i \in ListItems :
             \/ ListAppend(l, i) \/ ListPrepend(l, i) \/ ListRemoveItem(l, i)
             \/ \E pos \in NodesOf(l) : ListInsertPos(l, pos, i)
             \/ \E idx \in -1..LengthBound : ListInsert(l, i, idx)
       \/ ListRemoveFirst(l) \/ ListRemoveLast(l)
       \/ ListDestruct(l) \/ ListDestructMacro(l) \/ ListSort(l)
       \/ \E x \in Lists, pos \in NodesOf(l) :
             \/ ListJoin(l, pos, x)
             \/ \E first, last \in NodesOf(x) : ListSplice(l, pos, x, first, last)

ListSpec == ListInit /\ [][ListNext]_listVars

-----------------------------------------------------------------------------
\* OCOMS_LIST_FOREACH and OCOMS_LIST_FOREACH_REV: the nodes that are up to n
\* links of one kind from the sentinel.
Walk(l, n, link) ==
    LET node[k \in 0..n] == IF k = 0 THEN l ELSE link[node[k - 1]]
    IN  node

\* Through any appends, inserts, removals, joins, splices and sorts, walking a
\* list forward meets exactly the items the calls put there, in that order,
\* and walking back meets them in the opposite order; both end at the
\* sentinel.  They are the items that belong to the list, unless it was
\* destructed with items.  A list into which nothing was inserted at index 0
\* counts its items.
LinksFollowContents ==
    \A l \in Lists : Usable(l) =>
       LET n == Len(contents[l])
           ahead == Walk(l, n + 1, next)
           behind == Walk(l, n + 1, prev) IN
       /\ ahead[n + 1] = l /\ behind[n + 1] = l
       /\ \A k \in 1..n : /\ ahead[k] = contents[l][k]
                          /\ behind[n + 1 - k] = contents[l][k]
                          /\ belong_to[contents[l][k]] = l
       /\ l \notin miscounted => length[l] = n

\* "Quick reference to the number of items in the list" (ocoms_list.h:157):
\* ocoms_list_length counts the items.
LengthCountsItems == \A l \in Lists : Usable(l) => length[l] = Len(contents[l])
=============================================================================
