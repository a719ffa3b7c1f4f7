----------------------------- MODULE ValueArray -----------------------------
(***************************************************************************)
(* ocoms_value_array_t (ocoms/util/ocoms_value_array.h, .c): an array that *)
(* holds items by value and grows by doubling.  realloc may fail.          *)
(*                                                                         *)
(* Indices start at 0 in the code, items[i + 1] is the item with index i.  *)
(***************************************************************************)
EXTENDS Integers, Sequences, FiniteSets, FiniteSetsExt

CONSTANTS ItemValues, Junk,    \* Junk: what uninitialised memory holds
          ArrayBound           \* bound on the sizes that are asked for

VARIABLES items,        \* array_items, <<>> when it is NULL
          size, alloc,  \* array_size, array_alloc_size
          written,      \* history: index -> the value that was put there
          failed,       \* history: a realloc failed since the last init
          hung          \* a loop that does not end

arrayVars == <<items, size, alloc, written, failed, hung>>

Uninitialised(n) == [i \in 1..n |-> Junk]
Nothing == [i \in {} |-> Junk]

\* realloc to n items
Realloc(n) == SubSeq(items, 1, IF n < Len(items) THEN n ELSE Len(items))
              \o Uninitialised(n - Len(items))

\* ocoms_value_array_construct
ArrayInit ==
    /\ items = <<>> /\ size = 0 /\ alloc = 0
    /\ written = Nothing /\ failed = TRUE /\ hung = FALSE

\* ocoms_value_array_init, of a new or of a used array
ArrayStart ==
    /\ ~hung
    /\ alloc' = 1 /\ size' = 0 /\ written' = Nothing
    /\ \/ items' = Realloc(1) /\ failed' = FALSE
       \/ items' = <<>> /\ failed' = TRUE
    /\ UNCHANGED hung

\* ocoms_value_array_reserve
Reserve(n) ==
    /\ ~hung /\ n > alloc /\ n <= ArrayBound
    /\ \/ items' = Realloc(n) /\ alloc' = n /\ UNCHANGED <<size, written, failed>>
       \/ /\ items' = <<>> /\ size' = 0 /\ alloc' = 0
          /\ written' = Nothing /\ failed' = TRUE
    /\ UNCHANGED hung

\* Mutant: doubled once, however much is asked for.
DoubledOnce(n) == IF n > alloc THEN 2 * alloc ELSE alloc

\* The loop of ocoms_value_array_set_size, which does not end from 0.
Doubled(n) ==
    IF n <= alloc THEN alloc
    ELSE alloc * 2^(Min({k \in 0..n : alloc * 2^k >= n}))

\* The items after ocoms_value_array_set_size
Resized(n) ==
    IF n <= alloc THEN items
    ELSE Realloc(Doubled(n))

SetSize(n) ==
    /\ ~hung /\ n <= ArrayBound
    /\ \/ /\ n > alloc /\ alloc = 0
          /\ hung' = TRUE /\ UNCHANGED <<items, size, alloc, written, failed>>
       \/ /\ n <= alloc \/ alloc > 0
          /\ items' = Resized(n) /\ alloc' = Doubled(n) /\ size' = n
          /\ written' = [i \in DOMAIN written \cap 0..(n - 1) |-> written[i]]
          /\ UNCHANGED <<failed, hung>>
       \/ /\ n > alloc /\ alloc > 0
          /\ items' = <<>> /\ alloc' = Doubled(n) /\ failed' = TRUE
          /\ UNCHANGED <<size, written, hung>>

\* ocoms_value_array_get_item grows the array to have the item.
GetItem(i) == i >= size /\ SetSize(i + 1)

\* ocoms_value_array_set_item and, at the size, ocoms_value_array_append_item.
\* (After a realloc that failed the code writes through NULL: not called.)
SetItem(i, v) ==
    LET n == IF i >= size THEN i + 1 ELSE size IN
    /\ ~hung /\ ~failed /\ n <= ArrayBound
    /\ UNCHANGED hung
    /\ \/ /\ items' = [Resized(n) EXCEPT ![i + 1] = v]
          /\ alloc' = Doubled(n) /\ size' = n
          /\ written' = [j \in DOMAIN written \cup {i} |->
                            IF j = i THEN v ELSE written[j]]
          /\ UNCHANGED failed
       \/ /\ n > alloc
          /\ items' = <<>> /\ alloc' = Doubled(n) /\ failed' = TRUE
          /\ UNCHANGED <<size, written>>

\* Mutant: moves one item less.
MovedShort(i) == [k \in DOMAIN items |-> IF k > i /\ k < size - 1 THEN items[k + 1] ELSE items[k]]

\* The memmove of ocoms_value_array_remove_item
Moved(i) == [k \in DOMAIN items |-> IF k > i /\ k < size THEN items[k + 1] ELSE items[k]]

\* ocoms_value_array_remove_item
RemoveItem(i) ==
    /\ ~hung /\ ~failed /\ i < size
    /\ items' = Moved(i)
    /\ size' = size - 1
    /\ written' = [j \in {IF k > i THEN k - 1 ELSE k : k \in DOMAIN written \ {i}} |->
                      IF j >= i THEN written[j + 1] ELSE written[j]]
    /\ UNCHANGED <<alloc, failed, hung>>

ArrayNext ==
    \/ ArrayStart
    \/ \E n \in 0..ArrayBound : Reserve(n) \/ SetSize(n) \/ GetItem(n) \/ RemoveItem(n)
    \/ \E i \in 0..ArrayBound, v \in ItemValues : SetItem(i, v)

ArraySpec == ArrayInit /\ [][ArrayNext]_arrayVars

-----------------------------------------------------------------------------
\* Until a realloc fails, the items that were set are at their index, less the
\* removals before it, within memory the array has, after any growth by
\* reserve, set, get and append; and no loop runs for ever.
ArrayKeepsItems ==
    ~failed => /\ size <= alloc /\ alloc = Len(items)
               /\ DOMAIN written \subseteq 0..(size - 1)
               /\ \A i \in DOMAIN written : items[i + 1] = written[i]
               /\ ~hung
=============================================================================
