---------------------------- MODULE PointerArray ----------------------------
(***************************************************************************)
(* ocoms_pointer_array_t (ocoms/util/ocoms_pointer_array.{c,h}): a table   *)
(* of pointers that grows, with a count of its free (NULL) slots and a     *)
(* hint to the lowest of them.                                             *)
(*                                                                         *)
(* Every operation runs under the array's lock and is one action, except   *)
(* that grow_table writes number_free before it writes size, and           *)
(* remove_all compares the two without the lock: an operation that grows   *)
(* the table is two actions, and so is remove_all.                         *)
(*                                                                         *)
(* A store beyond the table is undefined behaviour: overrun says that one  *)
(* has happened, and the model stops there.                                *)
(***************************************************************************)
EXTENDS Integers, FiniteSets

CONSTANTS Threads,
          Values,               \* the pointers stored, none of them NULL
          NULL,
          INT_MAX,              \* max_size of an array that is not initialised
          HANDLE_MAX,           \* OCOMS_FORTRAN_HANDLE_MAX
          InitialAllocation, MaxSize, BlockSize,  \* given to pointer_array_init
          IndexBound,           \* indices and sizes the callers use
          MemoryBound           \* slots realloc can provide

\* An empty initial table is left to the constructor, which pointer_array_add
\* knows how to grow.
ASSUME ConstantsAssumption ==
    /\ NULL \notin Values
    /\ {INT_MAX, HANDLE_MAX, InitialAllocation, MaxSize, BlockSize,
        IndexBound, MemoryBound} \subseteq Nat
    /\ BlockSize <= MaxSize
    /\ InitialAllocation > 0 \/ BlockSize > 0
    /\ MaxSize <= INT_MAX

VARIABLES addr,           \* the slots, a function on 0..(size - 1)
          size, number_free, lowest_free, max_size,
          allocated,      \* addr is not the NULL pointer
          pending,        \* the operation that is growing the table, under lock
          removing,       \* threads in remove_all that wait for the lock
          overrun

vars == <<addr, size, number_free, lowest_free, max_size, allocated, pending,
          removing, overrun>>

Slots == Values \cup {NULL}
Indices == 0..IndexBound
None == [op |-> "none", index |-> 0, value |-> NULL, new_size |-> 0]
Unlocked == pending = None /\ ~overrun

Free(a) == {i \in DOMAIN a : a[i] = NULL}

\* ocoms_pointer_array_construct
Init ==
    /\ addr = [i \in {} |-> NULL]
    /\ size = 0 /\ number_free = 0 /\ lowest_free = 0
    /\ max_size = INT_MAX
    /\ allocated = FALSE
    /\ pending = None
    /\ removing = {}
    /\ overrun = FALSE

\* ocoms_pointer_array_init
InitialSize == IF InitialAllocation > 0 THEN InitialAllocation ELSE BlockSize

ArrayInit ==
    /\ Unlocked
    /\ ~allocated
    /\ max_size' = MaxSize
    /\ number_free' = InitialSize
    /\ size' = InitialSize
    /\ addr' = [i \in 0..(InitialSize - 1) |-> NULL]
    /\ allocated' = TRUE
    /\ UNCHANGED <<lowest_free, pending, removing, overrun>>

-----------------------------------------------------------------------------
(* grow_table(table, soft, hard) *)

NewSize(soft, hard) == IF soft > max_size THEN hard ELSE soft

GrowSucceeds(soft, hard) ==
    /\ soft > max_size => hard <= max_size
    /\ NewSize(soft, hard) < max_size
    /\ NewSize(soft, hard) <= MemoryBound

\* The first half, up to number_free: the rest of the operation is to come.
\* Nothing keeps the new size above the old one.
GrowBegin(op, index, value, soft, hard) ==
    LET n == NewSize(soft, hard) IN
    /\ GrowSucceeds(soft, hard)
    /\ number_free' = number_free + n - size
    /\ pending' = [op |-> op, index |-> index, value |-> value, new_size |-> n]
    /\ UNCHANGED <<addr, size, lowest_free, max_size, allocated, removing,
                   overrun>>

\* The table with the new slots, which are NULL.
Grown(n) == [i \in 0..(n - 1) |-> IF i < size THEN addr[i] ELSE NULL]

-----------------------------------------------------------------------------
(* What the operations do to a table a of n slots. *)

\* Mutant: the search starts one slot too late.
ScanAfter(a, n, i, d) ==
    LET free == {k \in (i + 1)..(n - 1) : a[k] = NULL} IN
    IF free = {} THEN d ELSE CHOOSE k \in free : \A j \in free : k <= j

\* The first NULL slot of a from index i on, or otherwise d.
ScanFrom(a, n, i, d) ==
    LET free == {k \in i..(n - 1) : a[k] = NULL} IN
    IF free = {} THEN d ELSE CHOOSE k \in free : \A j \in free : k <= j

\* table->addr[index] with an index outside the table
Overrun ==
    /\ overrun' = TRUE
    /\ UNCHANGED <<addr, size, number_free, lowest_free, allocated>>

\* ocoms_pointer_array_add, from its assertions on
Store(a, n, value) ==
    LET left == number_free - 1 IN
    /\ addr' = [a EXCEPT ![lowest_free] = value]
    /\ size' = n
    /\ number_free' = left
    /\ lowest_free' = IF left > 0
                      THEN ScanFrom(a, n, lowest_free + 1, lowest_free)
                      ELSE n
    /\ allocated' = TRUE
    /\ UNCHANGED overrun

AddTo(a, n, value) ==
    IF lowest_free < n THEN Store(a, n, value) ELSE Overrun

\* Mutant: the slot is taken for free without looking.
SetInUncounted(a, n, index, value) ==
    IF index >= n THEN Overrun ELSE
    /\ addr' = [a EXCEPT ![index] = value]
    /\ size' = n
    /\ \/ /\ value = NULL
          /\ lowest_free' = IF index < lowest_free THEN index ELSE lowest_free
          /\ number_free' = IF a[index] # NULL THEN number_free + 1 ELSE number_free
       \/ /\ value # NULL
          /\ lowest_free' = IF index = lowest_free THEN ScanFrom(a, n, index + 1, n)
                            ELSE lowest_free
          /\ number_free' = number_free - 1
    /\ allocated' = TRUE
    /\ UNCHANGED overrun

\* ocoms_pointer_array_set_item, once the table is large enough
SetIn(a, n, index, value) ==
    IF index >= n THEN Overrun ELSE
    /\ addr' = [a EXCEPT ![index] = value]
    /\ size' = n
    /\ \/ /\ value = NULL
          /\ lowest_free' = IF index < lowest_free THEN index ELSE lowest_free
          /\ number_free' = IF a[index] # NULL THEN number_free + 1 ELSE number_free
       \/ /\ value # NULL
          /\ lowest_free' = IF index = lowest_free THEN ScanFrom(a, n, index + 1, n)
                            ELSE lowest_free
          /\ number_free' = IF a[index] = NULL THEN number_free - 1 ELSE number_free
    /\ allocated' = TRUE
    /\ UNCHANGED overrun

\* ocoms_pointer_array_test_and_set_item, for a slot that is free
TestAndSetIn(a, n, index, value) ==
    IF index >= n THEN Overrun ELSE
    LET b == [a EXCEPT ![index] = value] IN
    /\ addr' = b
    /\ size' = n
    /\ number_free' = number_free - 1
    /\ lowest_free' = IF index = lowest_free THEN ScanFrom(b, n, index, n)
                      ELSE lowest_free
    /\ allocated' = TRUE
    /\ UNCHANGED overrun

-----------------------------------------------------------------------------
(* The operations.  A grow that fails leaves everything as it was, and the  *)
(* caller gets an error.                                                    *)

TABLE_INIT == 1
TABLE_GROW == 2
\* Mutant: down instead of up.
RoundDown(index) == (index \div TABLE_GROW) * TABLE_GROW

RoundUp(index) == ((index \div TABLE_GROW) + 1) * TABLE_GROW

Add(value) ==
    /\ Unlocked
    /\ \/ /\ number_free # 0
          /\ AddTo(addr, size, value)
          /\ UNCHANGED <<max_size, pending, removing>>
       \/ /\ number_free = 0
          /\ GrowBegin("add", 0, value,
                       IF allocated THEN size * TABLE_GROW ELSE TABLE_INIT,
                       HANDLE_MAX)

SetItem(index, value) ==
    /\ Unlocked
    /\ \/ /\ index < size
          /\ SetIn(addr, size, index, value)
          /\ UNCHANGED <<max_size, pending, removing>>
       \/ /\ index >= size
          /\ GrowBegin("set", index, value, RoundUp(index), index)

\* Mutant: set, without the test.
SetUntestedItem(index, value) ==
    /\ Unlocked
    /\ \/ /\ index < size
          /\ TestAndSetIn(addr, size, index, value)
          /\ UNCHANGED <<max_size, pending, removing>>
       \/ /\ index >= size
          /\ GrowBegin("test_and_set", index, value, RoundUp(index), index)

TestAndSetItem(index, value) ==
    /\ Unlocked
    /\ \/ /\ index < size /\ addr[index] = NULL
          /\ TestAndSetIn(addr, size, index, value)
          /\ UNCHANGED <<max_size, pending, removing>>
       \/ /\ index >= size
          /\ GrowBegin("test_and_set", index, value, RoundUp(index), index)

SetSize(new_size) ==
    /\ Unlocked
    /\ new_size > size
    /\ GrowBegin("set_size", 0, NULL, new_size, new_size)

\* The rest of grow_table, and of the operation that called it.
GrowEnd ==
    LET n == pending.new_size
        a == Grown(n)
    IN
    /\ ~overrun
    /\ pending.op # "none"
    /\ \/ pending.op = "add" /\ AddTo(a, n, pending.value)
       \/ pending.op = "set" /\ SetIn(a, n, pending.index, pending.value)
       \/ /\ pending.op = "test_and_set"
          /\ TestAndSetIn(a, n, pending.index, pending.value)
       \/ /\ pending.op = "set_size"
          /\ addr' = a /\ size' = n /\ allocated' = TRUE
          /\ UNCHANGED <<number_free, lowest_free, overrun>>
    /\ pending' = None
    /\ UNCHANGED <<max_size, removing>>

\* ocoms_pointer_array_remove_all, the test without the lock...
RemoveAllCall(t) ==
    /\ ~overrun
    /\ t \notin removing
    /\ number_free # size
    /\ removing' = removing \cup {t}
    /\ UNCHANGED <<addr, size, number_free, lowest_free, max_size, allocated,
                   pending, overrun>>

\* Mutant: the loop goes one slot too far.
RemoveAllAndMore(t) ==
    /\ Unlocked
    /\ t \in removing
    /\ lowest_free' = 0
    /\ number_free' = size
    /\ addr' = [i \in 0..size |-> NULL]
    /\ removing' = removing \ {t}
    /\ UNCHANGED <<size, max_size, allocated, pending, overrun>>

\* ... and what it does with it.
RemoveAll(t) ==
    /\ Unlocked
    /\ t \in removing
    /\ lowest_free' = 0
    /\ number_free' = size
    /\ addr' = [i \in 0..(size - 1) |-> NULL]
    /\ removing' = removing \ {t}
    /\ UNCHANGED <<size, max_size, allocated, pending, overrun>>

\* ocoms_pointer_array_destruct, when the users are done; the memory is
\* constructed again before it is used as an array.
Destruct ==
    /\ Unlocked
    /\ removing = {}
    /\ addr' = [i \in {} |-> NULL]
    /\ size' = 0 /\ number_free' = 0 /\ lowest_free' = 0
    /\ max_size' = INT_MAX
    /\ allocated' = FALSE
    /\ UNCHANGED <<pending, removing, overrun>>

Next ==
    \/ ArrayInit \/ Destruct
    \/ \E v \in Values : Add(v)
    \/ \E i \in Indices : \/ \E v \in Slots : SetItem(i, v)
                          \/ \E v \in Values : TestAndSetItem(i, v)
                          \/ SetSize(i)
    \/ GrowEnd
    \/ \E t \in Threads : RemoveAllCall(t) \/ RemoveAll(t)

Spec == Init /\ [][Next]_vars

-----------------------------------------------------------------------------
TypeOK ==
    /\ size \in Nat /\ number_free \in Int /\ lowest_free \in Nat
    /\ max_size \in Nat
    /\ addr \in [0..(size - 1) -> Slots]
    /\ allocated \in BOOLEAN
    /\ pending \in [op : {"none", "add", "set", "test_and_set", "set_size"},
                    index : Nat, value : Slots, new_size : Nat]
    /\ removing \in SUBSET Threads
    /\ overrun \in BOOLEAN

\* number_free counts the NULL slots whenever nobody holds the lock, whatever
\* mix of operations, failed ones included, led there: a wrong count would make
\* add grow a table with room, or write into a full one.
CountsFree == Unlocked => number_free = Cardinality(Free(addr))

\* lowest_free is the lowest NULL slot, or the size of a full table, so that
\* the slots a grow appends are the ones add finds next.
LowestIsFree ==
    ~overrun =>
    /\ lowest_free <= size
    /\ lowest_free < size => addr[lowest_free] = NULL
    /\ \A i \in 0..(size - 1) : i < lowest_free => addr[i] # NULL

\* add and test_and_set reserve: neither they nor the growing of the table ever
\* changes a slot that is taken; only set_item, remove_all and the
\* destructor do.
Reserves ==
    [][\A i \in DOMAIN addr :
          addr[i] # NULL /\ (i \notin DOMAIN addr' \/ addr'[i] # addr[i]) =>
             \/ Destruct
             \/ \E t \in Threads : t \in removing /\ t \notin removing'
             \/ \E v \in Slots : SetItem(i, v)]_vars

\* "Add a pointer to the array (Grow the array, if need be)": no operation
\* stores a pointer outside the table that grow_table made for it.
NoOverrun == ~overrun
=============================================================================
