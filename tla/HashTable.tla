----------------------------- MODULE HashTable -----------------------------
(***************************************************************************)
(* ocoms_hash_table_t (ocoms/util/ocoms_hash_table.c): open addressing in  *)
(* one array of elements.  A key's hash modulo the capacity is the first   *)
(* index probed; probes go forward, around the end, to the key or to an    *)
(* element that is not valid.  At a given density the table grows; a       *)
(* removal closes the gap by moving the elements that follow it.           *)
(*                                                                         *)
(* The calls do not overlap.  A removal is several actions, one for every  *)
(* element it reconsiders; any other call is one.  calloc may fail at any  *)
(* time.  The build is the one with OCOMS_ENABLE_DEBUG, whose checks refuse *)
(* a call for another type of key.                                         *)
(***************************************************************************)
EXTENDS Integers, Sequences, FiniteSets

CONSTANTS KeysUint32, KeysUint64,
          KeysPtr,            \* sequences of bytes
          TableValues,
          TableSizes,         \* what ocoms_hash_table_init is called with
          Round,              \* 30: capacities are 1 modulo Round
          Word,               \* 2^64
          CapacityBound       \* calloc of more elements fails

ASSUME HashTableAssumption ==
    /\ KeysUint32 \cup KeysUint64 \cup TableSizes \subseteq Nat
    /\ KeysPtr \subseteq Seq(0..255)
    /\ {Round, Word, CapacityBound} \subseteq Nat \ {0}

Types == {"uint32", "uint64", "ptr"}
NoType == "NULL"            \* ht_type_methods of a table without keys

KeysOf(type) ==
    CASE type = "uint32" -> KeysUint32
      [] type = "uint64" -> KeysUint64
      [] type = "ptr" -> KeysPtr

VARIABLES
    ht_table,          \* the elements, a function on 0..(ht_capacity - 1)
    ht_capacity, ht_size, ht_growth_trigger, ht_type_methods,
    gap,               \* the index a removal is at, NoIndex when none runs
    node, visited,     \* a traversal: where it is, the keys it has returned
    key_copies,        \* copies of pointer keys that are allocated
    table_contents,          \* history: the values set and not removed, by key
    grow_failed,       \* history: a table at its density could not grow
    spinning           \* a search goes round the table for ever

tableVars == <<ht_table, ht_capacity, ht_size, ht_growth_trigger, ht_type_methods,
          gap, node, visited, key_copies, table_contents, grow_failed, spinning>>

NoIndex == -1
Invalid == [valid |-> FALSE]
Nothing == [k \in {} |-> Invalid]
NoElements(capacity) == [i \in 0..(capacity - 1) |-> Invalid]

\* ocoms_hash_table_construct
HashInit ==
    /\ ht_table = NoElements(0)
    /\ ht_capacity = 0 /\ ht_size = 0 /\ ht_growth_trigger = 0
    /\ ht_type_methods = NoType
    /\ gap = NoIndex /\ node = NoIndex /\ visited = {}
    /\ key_copies = 0
    /\ table_contents = Nothing
    /\ grow_failed = FALSE /\ spinning = FALSE

Idle == gap = NoIndex /\ ~spinning

-----------------------------------------------------------------------------
(* Hashes and probes *)

\* ocoms_hash_hash_key_ptr
hash_key_ptr(key) ==
    LET hash[n \in 0..Len(key)] ==
          IF n = 0 THEN 0 ELSE (31 * hash[n - 1] + key[n]) % Word
    IN  hash[Len(key)]

\* The hash_elt method of a type; the integers are their own hash.
Hash(type, key) == IF type = "ptr" THEN hash_key_ptr(key) ELSE key

\* The n-th index that is probed for a hash.
Index(hash, n, capacity) == (hash + n) % capacity

\* Mutant: the end of the table is not noticed.
NextIndexUnwrapped(i) == i + 1

\* The step of a loop that goes around the end.
NextIndex(i) == IF i + 1 = ht_capacity THEN 0 ELSE i + 1

\* The first index, in the order of probes, that is one of stops; NoIndex
\* if there is none.
FirstProbe(hash, capacity, stops) ==
    LET ns == {n \in 0..(capacity - 1) : Index(hash, n, capacity) \in stops} IN
    IF ns = {} THEN NoIndex
    ELSE Index(hash, CHOOSE n \in ns : \A m \in ns : n <= m, capacity)

\* The indices whose element is not valid, at which a probe stops.
FreeIndices == {i \in 0..(ht_capacity - 1) : ht_table[i] = Invalid}

\* The loops of get, set and remove: to the key or to an element that is not
\* valid.
Search(type, key) ==
    FirstProbe(Hash(type, key), ht_capacity,
               {i \in 0..(ht_capacity - 1) :
                    ht_table[i] = Invalid \/ ht_table[i].key = key})

Finds(type, key) ==
    LET i == Search(type, key) IN i # NoIndex /\ ht_table[i] # Invalid

\* ocoms_hash_round_capacity_up
round_capacity_up(capacity) == ((capacity + Round - 1) \div Round) * Round + 1

\* The density is 1/2.
TriggerFor(capacity) == capacity \div 2

-----------------------------------------------------------------------------
(* ocoms_hash_table_init, with its density of 1/2 and growth of 2/1.  A     *)
(* calloc that fails leaves the table without elements.                     *)
TableInit(table_size) ==
    LET capacity == round_capacity_up(table_size * 2) IN
    /\ Idle /\ ht_capacity = 0
    /\ capacity <= CapacityBound
    /\ ht_table' = NoElements(capacity)
    /\ ht_capacity' = capacity
    /\ ht_growth_trigger' = TriggerFor(capacity)
    /\ ht_type_methods' = NoType
    /\ UNCHANGED <<ht_size, gap, node, visited, key_copies, table_contents,
                   grow_failed, spinning>>

\* ocoms_hash_table_remove_all: elt_destructor frees the copies of keys.
Emptied ==
    /\ ht_table' = NoElements(ht_capacity)
    /\ ht_size' = 0
    /\ key_copies' = IF ht_type_methods = "ptr"
                     THEN key_copies -
                            Cardinality({i \in DOMAIN ht_table : ht_table[i] # Invalid})
                     ELSE key_copies
    /\ ht_type_methods' = NoType
    /\ table_contents' = Nothing
    /\ node' = NoIndex /\ visited' = {}

RemoveAllKeys ==
    /\ Idle
    /\ Emptied
    /\ UNCHANGED <<ht_capacity, ht_growth_trigger, gap, grow_failed, spinning>>

\* ocoms_hash_table_destruct; the memory is constructed again before it is used
\* as a table.
DestructTable ==
    /\ Idle
    /\ key_copies' = IF ht_type_methods = "ptr"
                     THEN key_copies -
                            Cardinality({i \in DOMAIN ht_table : ht_table[i] # Invalid})
                     ELSE key_copies
    /\ ht_table' = NoElements(0)
    /\ ht_capacity' = 0 /\ ht_size' = 0 /\ ht_growth_trigger' = 0
    /\ ht_type_methods' = NoType
    /\ table_contents' = Nothing
    /\ node' = NoIndex /\ visited' = {}
    /\ grow_failed' = FALSE
    /\ UNCHANGED <<gap, spinning>>

-----------------------------------------------------------------------------
(* ocoms_hash_grow *)

NewCapacity == round_capacity_up(ht_capacity * 2)

\* An element is put into the new table, at the first free index it comes to.
Place(table, elt, type, capacity) ==
    IF elt = Invalid THEN table
    ELSE LET free == {i \in 0..(capacity - 1) : table[i] = Invalid}
         IN [table EXCEPT ![FirstProbe(Hash(type, elt.key), capacity, free)] = elt]

\* The elements of the old table, one after the other, in a new one.
Rehashed(old, type, capacity) ==
    LET table[j \in 0..ht_capacity] ==
          IF j = 0 THEN NoElements(capacity)
          ELSE Place(table[j - 1], old[j - 1], type, capacity)
    IN  table[ht_capacity]

-----------------------------------------------------------------------------
(* set, get and remove, for the three types of keys                         *)

\* The checks at the beginning of every call: there is a table, and it is not
\* for keys of another type.  A call that is refused changes nothing.
Accepted(type) ==
    /\ Idle
    /\ ht_capacity # 0
    /\ ht_type_methods \in {NoType, type}

\* No element is the key's and none is free: the loop has no end.
Spins(type, key) ==
    /\ Search(type, key) = NoIndex
    /\ spinning' = TRUE
    /\ ht_type_methods' = type
    /\ UNCHANGED <<ht_table, ht_capacity, ht_size, ht_growth_trigger, gap, node,
                   visited, key_copies, table_contents, grow_failed>>

\* Mutant: the table grows only when it is full.
TriggeredWhenFull == ht_size + 1 > ht_capacity

\* ht_size, the new element counted, has reached the trigger.
Triggered == ht_size + 1 >= ht_growth_trigger

\* A new element; and the table grows, or cannot, and the call returns an error
\* with the element in place.
Insert(type, key, value) ==
    LET i == Search(type, key)
        table == [ht_table EXCEPT ![i] = [valid |-> TRUE, key |-> key, value |-> value]]
    IN
    /\ i # NoIndex /\ ht_table[i] = Invalid
    /\ ht_size' = ht_size + 1
    /\ key_copies' = IF type = "ptr" THEN key_copies + 1 ELSE key_copies
    /\ \/ /\ ~Triggered
          /\ ht_table' = table
          /\ UNCHANGED <<ht_capacity, ht_growth_trigger, grow_failed>>
       \/ /\ Triggered
          /\ ht_table' = table
          /\ grow_failed' = TRUE
          /\ UNCHANGED <<ht_capacity, ht_growth_trigger>>
       \/ /\ Triggered /\ NewCapacity <= CapacityBound
          /\ ht_table' = Rehashed(table, type, NewCapacity)
          /\ ht_capacity' = NewCapacity
          /\ ht_growth_trigger' = TriggerFor(NewCapacity)
          /\ UNCHANGED grow_failed

Replace(type, key, value) ==
    /\ Finds(type, key)
    /\ ht_table' = [ht_table EXCEPT ![Search(type, key)].value = value]
    /\ UNCHANGED <<ht_capacity, ht_size, ht_growth_trigger, key_copies,
                   grow_failed>>

SetValue(type, key, value) ==
    /\ Accepted(type)
    /\ \/ Spins(type, key)
       \/ /\ Insert(type, key, value) \/ Replace(type, key, value)
          /\ ht_type_methods' = type
          /\ table_contents' = [k \in DOMAIN table_contents \cup {key} |->
                            IF k = key THEN value ELSE table_contents[k]]
          /\ node' = NoIndex /\ visited' = {}
          /\ UNCHANGED <<gap, spinning>>

\* A get changes nothing but the type.
GetValue(type, key) ==
    /\ Accepted(type)
    /\ \/ Spins(type, key)
       \/ /\ Search(type, key) # NoIndex
          /\ ht_type_methods' = type
          /\ UNCHANGED <<ht_table, ht_capacity, ht_size, ht_growth_trigger, gap,
                         node, visited, key_copies, table_contents, grow_failed,
                         spinning>>

\* Mutant: the copy of the key is not freed.
RemoveValueKeepingKey(type, key) ==
    /\ Accepted(type)
    /\ Finds(type, key)
    /\ ht_table' = [ht_table EXCEPT ![Search(type, key)] = Invalid]
    /\ gap' = NextIndex(Search(type, key))
    /\ table_contents' = [k \in DOMAIN table_contents \ {key} |-> table_contents[k]]
    /\ ht_type_methods' = type
    /\ node' = NoIndex /\ visited' = {}
    /\ UNCHANGED <<ht_capacity, ht_size, ht_growth_trigger, key_copies,
                   grow_failed, spinning>>

\* Up to the loop of ocoms_hash_table_remove_elt_at.
RemoveValue(type, key) ==
    /\ Accepted(type)
    /\ \/ Spins(type, key)
       \/ /\ Finds(type, key)
          /\ ht_table' = [ht_table EXCEPT ![Search(type, key)] = Invalid]
          /\ gap' = NextIndex(Search(type, key))
          /\ key_copies' = IF type = "ptr" THEN key_copies - 1 ELSE key_copies
          /\ table_contents' = [k \in DOMAIN table_contents \ {key} |-> table_contents[k]]
          /\ ht_type_methods' = type
          /\ node' = NoIndex /\ visited' = {}
          /\ UNCHANGED <<ht_capacity, ht_size, ht_growth_trigger, grow_failed,
                         spinning>>

SetValueUint32(key, value) == SetValue("uint32", key, value)
SetValueUint64(key, value) == SetValue("uint64", key, value)
SetValuePtr(key, value) == SetValue("ptr", key, value)
GetValueUint32(key) == GetValue("uint32", key)
GetValueUint64(key) == GetValue("uint64", key)
GetValuePtr(key) == GetValue("ptr", key)
RemoveValueUint32(key) == RemoveValue("uint32", key)
RemoveValueUint64(key) == RemoveValue("uint64", key)
RemoveValuePtr(key) == RemoveValue("ptr", key)

-----------------------------------------------------------------------------
(* The loop of ocoms_hash_table_remove_elt_at over the elements that follow *)

\* Mutant: an element that is at its first index ends the loop.
RemoveNextUntilIdeal ==
    /\ gap # NoIndex
    /\ ht_table[gap] # Invalid
    /\ LET hash == Hash(ht_type_methods, ht_table[gap].key)
           to == FirstProbe(hash, ht_capacity, FreeIndices \cup {gap})
           moved == [ht_table EXCEPT ![to] = ht_table[gap], ![gap] = Invalid]
       IN /\ ht_table' = IF to = gap THEN ht_table ELSE moved
          /\ gap' = IF hash % ht_capacity = gap THEN NoIndex ELSE NextIndex(gap)
          /\ ht_size' = IF gap' = NoIndex THEN ht_size - 1 ELSE ht_size
    /\ UNCHANGED <<ht_capacity, ht_growth_trigger, ht_type_methods, node,
                   visited, key_copies, table_contents, grow_failed, spinning>>

\* Mutant: an element moves even if it comes to itself first.
RemoveNextAlways ==
    /\ gap # NoIndex
    /\ ht_table[gap] # Invalid
    /\ LET to == FirstProbe(Hash(ht_type_methods, ht_table[gap].key), ht_capacity,
                            FreeIndices)
       IN ht_table' = [ht_table EXCEPT ![to] = ht_table[gap], ![gap] = Invalid]
    /\ gap' = NextIndex(gap)
    /\ UNCHANGED <<ht_capacity, ht_size, ht_growth_trigger, ht_type_methods,
                   node, visited, key_copies, table_contents, grow_failed, spinning>>

\* A valid element moves to the first free index of its probes, unless it comes
\* to itself before that.
RemoveNext ==
    /\ gap # NoIndex
    /\ ht_table[gap] # Invalid
    /\ LET hash == Hash(ht_type_methods, ht_table[gap].key)
           to == FirstProbe(hash, ht_capacity, FreeIndices \cup {gap})
           moved == [ht_table EXCEPT ![to] = ht_table[gap], ![gap] = Invalid]
       IN ht_table' = IF to = gap THEN ht_table ELSE moved
    /\ gap' = NextIndex(gap)
    /\ UNCHANGED <<ht_capacity, ht_size, ht_growth_trigger, ht_type_methods,
                   node, visited, key_copies, table_contents, grow_failed, spinning>>

\* An element that is not valid ends it.
RemoveEnd ==
    /\ gap # NoIndex
    /\ ht_table[gap] = Invalid
    /\ gap' = NoIndex
    /\ ht_size' = ht_size - 1
    /\ UNCHANGED <<ht_table, ht_capacity, ht_growth_trigger, ht_type_methods,
                   node, visited, key_copies, table_contents, grow_failed, spinning>>

-----------------------------------------------------------------------------
\* ocoms_hash_table_get_next_elt: where it finds an element from node i on.
NextElements(i) == {j \in (i + 1)..(ht_capacity - 1) : ht_table[j] # Invalid}

\* get_first_key and get_next_key; a call that changes the table ends the
\* traversal.
GetNextKey ==
    /\ Idle
    /\ NextElements(node) # {}
    /\ node' = CHOOSE j \in NextElements(node) : \A k \in NextElements(node) : j <= k
    /\ visited' = visited \cup {ht_table[node'].key}
    /\ UNCHANGED <<ht_table, ht_capacity, ht_size, ht_growth_trigger,
                   ht_type_methods, gap, key_copies, table_contents, grow_failed,
                   spinning>>

-----------------------------------------------------------------------------
HashNext ==
    \/ \E n \in TableSizes : TableInit(n)
    \/ RemoveAllKeys \/ DestructTable
    \/ \E k \in KeysUint32 : \/ \E v \in TableValues : SetValueUint32(k, v)
                             \/ GetValueUint32(k) \/ RemoveValueUint32(k)
    \/ \E k \in KeysUint64 : \/ \E v \in TableValues : SetValueUint64(k, v)
                             \/ GetValueUint64(k) \/ RemoveValueUint64(k)
    \/ \E k \in KeysPtr : \/ \E v \in TableValues : SetValuePtr(k, v)
                          \/ GetValuePtr(k) \/ RemoveValuePtr(k)
    \/ RemoveNext \/ RemoveEnd
    \/ GetNextKey

\* A call that has begun goes on.
HashSpec == HashInit /\ [][HashNext]_tableVars /\ WF_tableVars(RemoveNext \/ RemoveEnd)

-----------------------------------------------------------------------------
HashTypeOK ==
    /\ ht_capacity \in 0..CapacityBound
    /\ DOMAIN ht_table = 0..(ht_capacity - 1)
    /\ \A i \in DOMAIN ht_table : ht_table[i] # Invalid => ht_table[i].value \in TableValues
    /\ ht_size \in Nat /\ ht_growth_trigger \in Nat
    /\ ht_type_methods \in Types \cup {NoType}
    /\ gap \in (0..(ht_capacity - 1)) \cup {NoIndex}
    /\ node \in (0..(ht_capacity - 1)) \cup {NoIndex}
    /\ key_copies \in Nat
    /\ grow_failed \in BOOLEAN /\ spinning \in BOOLEAN

\* A search finds every key that was set and not removed, with the value set
\* last, and no other key, after any sequence of insertions, growths and
\* removals: the elements a removal leaves or moves are still where their
\* probes come before they come to a gap.  A traversal that has come to its end
\* has returned the same keys.
FindsWhatWasSet ==
    Idle /\ ht_type_methods # NoType /\ ht_capacity # 0 =>
       /\ \A k \in KeysOf(ht_type_methods) :
             /\ Finds(ht_type_methods, k) <=> k \in DOMAIN table_contents
             /\ k \in DOMAIN table_contents =>
                   ht_table[Search(ht_type_methods, k)].value = table_contents[k]
       /\ node # NoIndex /\ NextElements(node) = {} => visited = DOMAIN table_contents

\* ht_size, which decides when to grow, counts the valid elements, and every
\* copy of a pointer key belongs to one of them, so that none is leaked or freed
\* twice.
CountsElements ==
    LET valid == Cardinality({i \in DOMAIN ht_table : ht_table[i] # Invalid}) IN
    Idle => /\ ht_size = valid
            /\ valid = Cardinality(DOMAIN table_contents)
            /\ key_copies = IF ht_type_methods = "ptr" THEN valid ELSE 0

\* "A density less than 1 ensures the search will stop because searching will
\* eventually find an invalid element": no search goes on for ever, as long as
\* the table could always grow.
SearchStops == spinning => grow_failed

\* A get or a remove finds exactly what was set and not removed, the counters of
\* elements and key copies agree, and only a table that could not grow makes a
\* search go on for ever.
TableFindsWhatWasSet ==
    HashTypeOK /\ FindsWhatWasSet /\ CountsElements /\ SearchStops

\* The loop of a removal comes to its end.
RemovalEnds == gap # NoIndex ~> gap = NoIndex
=============================================================================
