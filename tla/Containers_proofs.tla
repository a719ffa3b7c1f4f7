------------------------- MODULE Containers_proofs --------------------------
(***************************************************************************)
(* Proofs about PointerArray, HashTable and List, for every choice of      *)
(* their parameters.  The pointer array comes first, the list last.        *)
(*                                                                         *)
(* CountsFree speaks of the states in which nobody holds the lock.  The    *)
(* inductive invariant says what number_free is in between too, and that   *)
(* an operation that is growing the table has its slot, if the table will  *)
(* have it at all, among the new ones.                                     *)
(***************************************************************************)
EXTENDS PointerArray, HashTable, List, FiniteSetTheorems, SequenceTheorems,
        WellFoundedInduction, TLAPS

Growing == pending.op # "none"

\* number_free is ahead of the table while grow_table is under way.
Count ==
    ~overrun =>
       number_free = Cardinality(Free(addr)) +
                     (IF Growing THEN pending.new_size - size ELSE 0)

PendingOK ==
    /\ ~Growing => pending = None
    /\ pending.op = "add" => Free(addr) = {} /\ pending.value \in Values
    /\ pending.op \in {"set", "test_and_set"} => pending.index >= size
    /\ pending.op = "test_and_set" => pending.value \in Values
    /\ pending.op = "set_size" => pending.new_size > size

\* A table that was never allocated is empty, and its hint is 0.
Fresh == ~allocated => size = 0

IInv == TypeOK /\ LowestIsFree /\ Count /\ PendingOK /\ Fresh

-----------------------------------------------------------------------------
\* A set of naturals that is not empty has a least element.
LEMMA LeastElement ==
    ASSUME NEW S \in SUBSET Nat, S # {}
    PROVE  \E k \in S : \A j \in S : k <= j
  <1>1. \E R : /\ IsWellFoundedOn(R, Nat)
               /\ \A j, k \in Nat : <<j, k>> \in R <=> j < k
    <2>1. \A j, k \in Nat : <<j, k>> \in OpToRel(<, Nat) <=> j < k
      BY DEF OpToRel
    <2> WITNESS OpToRel(<, Nat)
    <2>. QED
      BY <2>1, NatLessThanWellFounded
  <1>2. PICK R : /\ IsWellFoundedOn(R, Nat)
                 /\ \A j, k \in Nat : <<j, k>> \in R <=> j < k
    BY <1>1
  <1>3. S \subseteq Nat /\ IsWellFoundedOn(R, Nat)
    BY <1>2
  <1>4. \E k \in S : \A j \in S : ~(<<j, k>> \in R)
    BY <1>3, WFMin, Zenon
  <1>5. PICK k \in S : \A j \in S : ~(<<j, k>> \in R)
    BY <1>4
  <1>6. \A j \in S : ~(j < k)
    BY <1>2, <1>3, <1>5, Zenon
  <1>7. \A j \in S : k <= j
    BY <1>3, <1>6
  <1>. QED
    BY <1>7

\* What the scan for the next free slot returns.
LEMMA ScanResult ==
    ASSUME NEW n \in Nat, NEW a, NEW i \in Nat, NEW d
    PROVE  LET k == ScanFrom(a, n, i, d) IN
           \/ /\ \A j \in i..(n - 1) : a[j] # NULL
              /\ k = d
           \/ /\ k \in i..(n - 1)
              /\ a[k] = NULL
              /\ \A j \in i..(n - 1) : j < k => a[j] # NULL
  <1> DEFINE free == {k \in i..(n - 1) : a[k] = NULL}
  <1>1. CASE free = {}
    BY <1>1 DEF ScanFrom
  <1>2. CASE free # {}
    <2>0. free \in SUBSET Nat
      OBVIOUS
    <2>1. \E k \in free : \A j \in free : k <= j
      <3> HIDE DEF free
      <3>. QED
        BY <1>2, <2>0, LeastElement
    <2> DEFINE m == CHOOSE k \in free : \A j \in free : k <= j
    <2>2. m \in free /\ \A j \in free : m <= j
      BY <2>1
    <2>3. ScanFrom(a, n, i, d) = m
      BY <1>2 DEF ScanFrom
    <2> HIDE DEF m
    <2>4. \A j \in i..(n - 1) : j < m => a[j] # NULL
      BY <2>2
    <2>. QED
      BY <2>2, <2>3, <2>4
  <1>. QED
    BY <1>1, <1>2

\* The free slots of a table are finitely many.
LEMMA FreeFinite ==
    ASSUME NEW n \in Nat, NEW a \in [0..(n - 1) -> Slots]
    PROVE  /\ IsFiniteSet(Free(a))
           /\ Cardinality(Free(a)) \in Nat
           /\ Free(a) \subseteq 0..(n - 1)
  <1>1. IsFiniteSet(0..(n - 1))
    BY FS_Interval
  <1>2. Free(a) \subseteq 0..(n - 1)
    BY DEF Free
  <1>. QED
    BY <1>1, <1>2, FS_Subset, FS_CardinalityType

\* Storing a pointer takes the slot from the free ones, if it was one.
LEMMA FreeStore ==
    ASSUME NEW n \in Nat, NEW a \in [0..(n - 1) -> Slots],
           NEW i \in 0..(n - 1), NEW v \in Values
    PROVE  LET b == [a EXCEPT ![i] = v] IN
           /\ b \in [0..(n - 1) -> Slots]
           /\ Cardinality(Free(b)) = IF a[i] = NULL
                                     THEN Cardinality(Free(a)) - 1
                                     ELSE Cardinality(Free(a))
  <1> DEFINE b == [a EXCEPT ![i] = v]
  <1>1. Free(b) = Free(a) \ {i} /\ b \in [0..(n - 1) -> Slots]
    BY ConstantsAssumption DEF Free, Slots
  <1>2. i \in Free(a) <=> a[i] = NULL
    BY DEF Free
  <1>. QED
    BY <1>1, <1>2, FreeFinite, FS_RemoveElement

\* Storing NULL adds the slot to the free ones, if it was not one.
LEMMA FreeClear ==
    ASSUME NEW n \in Nat, NEW a \in [0..(n - 1) -> Slots],
           NEW i \in 0..(n - 1)
    PROVE  LET b == [a EXCEPT ![i] = NULL] IN
           /\ b \in [0..(n - 1) -> Slots]
           /\ Cardinality(Free(b)) = IF a[i] = NULL
                                     THEN Cardinality(Free(a))
                                     ELSE Cardinality(Free(a)) + 1
  <1> DEFINE b == [a EXCEPT ![i] = NULL]
  <1>1. Free(b) = Free(a) \cup {i} /\ b \in [0..(n - 1) -> Slots]
    BY DEF Free, Slots
  <1>2. i \in Free(a) <=> a[i] = NULL
    BY DEF Free
  <1>. QED
    BY <1>1, <1>2, FreeFinite, FS_AddElement

\* An empty table has as many free slots as it has slots.
LEMMA FreeEmpty ==
    ASSUME NEW n \in Nat
    PROVE  /\ [i \in 0..(n - 1) |-> NULL] \in [0..(n - 1) -> Slots]
           /\ Cardinality(Free([i \in 0..(n - 1) |-> NULL])) = n
  <1>1. Free([i \in 0..(n - 1) |-> NULL]) = 0..(n - 1)
    BY DEF Free
  <1>2. Cardinality(0..(n - 1)) = n
    BY FS_Interval
  <1>. QED
    BY <1>1, <1>2 DEF Slots

\* Growing the table adds the new slots to the free ones.
LEMMA FreeGrown ==
    ASSUME TypeOK, NEW n \in Nat, n >= size
    PROVE  /\ Grown(n) \in [0..(n - 1) -> Slots]
           /\ \A i \in 0..(size - 1) : Grown(n)[i] = addr[i]
           /\ \A i \in size..(n - 1) : Grown(n)[i] = NULL
           /\ Cardinality(Free(Grown(n))) = Cardinality(Free(addr)) + n - size
  <1>1. size \in Nat /\ addr \in [0..(size - 1) -> Slots]
    BY DEF TypeOK
  <1>2. Grown(n) \in [0..(n - 1) -> Slots]
    BY <1>1 DEF Grown, Slots
  <1>3. \A i \in 0..(size - 1) : i \in 0..(n - 1) /\ i < size
    BY <1>1
  <1>4. \A i \in size..(n - 1) : i \in 0..(n - 1) /\ ~(i < size)
    BY <1>1
  <1>5. \A i \in 0..(n - 1) : i \in 0..(size - 1) \/ i \in size..(n - 1)
    BY <1>1
  <1>6. \A i \in 0..(size - 1) : Grown(n)[i] = addr[i]
    BY <1>3 DEF Grown
  <1>7. \A i \in size..(n - 1) : Grown(n)[i] = NULL
    BY <1>4 DEF Grown
  <1>8. DOMAIN Grown(n) = 0..(n - 1) /\ DOMAIN addr = 0..(size - 1)
    BY <1>1 DEF Grown
  <1>9. Free(Grown(n)) = Free(addr) \cup (size..(n - 1))
    BY <1>3, <1>4, <1>5, <1>6, <1>7, <1>8 DEF Free
  <1>10. Free(addr) \cap (size..(n - 1)) = {}
    BY <1>1, <1>8 DEF Free
  <1>11. IsFiniteSet(size..(n - 1)) /\ Cardinality(size..(n - 1)) = n - size
    BY <1>1, FS_Interval
  <1>12. IsFiniteSet(Free(addr)) /\ Cardinality(Free(addr)) \in Nat
    BY <1>1, FreeFinite
  <1>13. Cardinality(Free(Grown(n))) =
            Cardinality(Free(addr)) + Cardinality(size..(n - 1)) - Cardinality({})
    BY <1>9, <1>10, <1>11, <1>12, FS_Union
  <1>. QED
    BY <1>1, <1>2, <1>6, <1>7, <1>11, <1>12, <1>13, FS_EmptySet
-----------------------------------------------------------------------------
\* low is the lowest free slot of a table a of n slots, or n if it is full.
LowestOK(a, n, low) ==
    /\ low \in 0..n
    /\ low < n => a[low] = NULL
    /\ \A i \in 0..(n - 1) : i < low => a[i] # NULL

\* The hint after pointer_array_add took the lowest free slot.
LEMMA LowestAfterAdd ==
    ASSUME NEW n \in Nat, NEW a \in [0..(n - 1) -> Slots], NEW low,
           LowestOK(a, n, low), low < n, NEW v \in Values
    PROVE  LET left == Cardinality(Free(a)) - 1 IN
           LowestOK([a EXCEPT ![low] = v], n,
                    IF left > 0 THEN ScanFrom(a, n, low + 1, low) ELSE n)
  <1> DEFINE b == [a EXCEPT ![low] = v]
             left == Cardinality(Free(a)) - 1
             k == ScanFrom(a, n, low + 1, low)
  <1>1. low \in 0..(n - 1) /\ a[low] = NULL /\ low + 1 \in Nat
    BY DEF LowestOK
  <1>2. \A i \in 0..(n - 1) : b[i] = IF i = low THEN v ELSE a[i]
    BY <1>1
  <1>3. v # NULL
    BY ConstantsAssumption
  <1>4. CASE left > 0
    <2>1. ~ \A j \in (low + 1)..(n - 1) : a[j] # NULL
      <3> SUFFICES ASSUME \A j \in (low + 1)..(n - 1) : a[j] # NULL
                   PROVE  FALSE
        OBVIOUS
      <3>1. \A i \in 0..(n - 1) : i < low \/ i = low \/ i \in (low + 1)..(n - 1)
        BY <1>1
      <3>2. Free(a) = {low}
        BY <1>1, <3>1 DEF Free, LowestOK
      <3>3. Cardinality(Free(a)) = 1
        BY <3>2, FS_Singleton
      <3>. QED
        BY <1>4, <3>3
    <2>2. /\ k \in (low + 1)..(n - 1)
          /\ a[k] = NULL
          /\ \A j \in (low + 1)..(n - 1) : j < k => a[j] # NULL
      BY <1>1, <2>1, ScanResult
    <2> HIDE DEF k, b
    <2>3. k \in 0..n /\ k \in 0..(n - 1) /\ k # low
      BY <1>1, <2>2
    <2>4. b[k] = NULL
      BY <1>2, <2>2, <2>3
    <2>5. ASSUME NEW i \in 0..(n - 1), i < k
          PROVE  b[i] # NULL
      <3>1. i < low \/ i = low \/ i \in (low + 1)..(n - 1)
        BY <1>1
      <3>. QED
        BY <1>2, <1>3, <2>2, <2>5, <3>1 DEF LowestOK
    <2>6. LowestOK(b, n, k)
      BY <2>3, <2>4, <2>5 DEF LowestOK
    <2>. QED
      BY <1>4, <2>6 DEF b, k
  <1>5. CASE ~(left > 0)
    <2>1. b \in [0..(n - 1) -> Slots] /\ Cardinality(Free(b)) = left
      BY <1>1, FreeStore
    <2> HIDE DEF b
    <2>2. Cardinality(Free(b)) = 0 /\ IsFiniteSet(Free(b))
      BY <1>5, <2>1, FreeFinite
    <2>3. Free(b) = {}
      BY <2>2, FS_EmptySet
    <2>4. \A i \in 0..(n - 1) : b[i] # NULL
      BY <2>1, <2>3 DEF Free
    <2>5. LowestOK(b, n, n)
      BY <2>4 DEF LowestOK
    <2>. QED
      BY <1>5, <2>5 DEF b
  <1>. QED
    BY <1>4, <1>5

\* The hint after a pointer was stored at index i by pointer_array_set_item.
LEMMA LowestAfterSet ==
    ASSUME NEW n \in Nat, NEW a \in [0..(n - 1) -> Slots], NEW low,
           LowestOK(a, n, low), NEW i \in 0..(n - 1), NEW v \in Values
    PROVE  LowestOK([a EXCEPT ![i] = v], n,
                    IF i = low THEN ScanFrom(a, n, i + 1, n) ELSE low)
  <1> DEFINE b == [a EXCEPT ![i] = v]
             k == ScanFrom(a, n, i + 1, n)
  <1>2. \A j \in 0..(n - 1) : b[j] = IF j = i THEN v ELSE a[j]
    OBVIOUS
  <1>3. v # NULL
    BY ConstantsAssumption
  <1>4. \/ (\A j \in (i + 1)..(n - 1) : a[j] # NULL) /\ k = n
        \/ /\ k \in (i + 1)..(n - 1) /\ a[k] = NULL
           /\ \A j \in (i + 1)..(n - 1) : j < k => a[j] # NULL
    <2>1. i + 1 \in Nat /\ n \in Nat
      OBVIOUS
    <2>. QED
      BY <2>1, ScanResult, Zenon
  <1> HIDE DEF b, k
  <1>5. CASE i = low
    <2>1. \A j \in 0..(n - 1) : j < low \/ j = i \/ j \in (i + 1)..(n - 1)
      BY <1>5
    <2>2. k \in 0..n /\ (k < n => k \in 0..(n - 1) /\ b[k] = NULL)
      BY <1>2, <1>4
    <2>3. \A j \in 0..(n - 1) : j < k => b[j] # NULL
      BY <1>2, <1>3, <1>4, <2>1 DEF LowestOK
    <2>. QED
      BY <1>5, <2>2, <2>3 DEF LowestOK, b, k
  <1>6. CASE i # low
    <2>1. low \in 0..n /\ (low < n => low \in 0..(n - 1) /\ b[low] = NULL)
      BY <1>2, <1>6 DEF LowestOK
    <2>2. \A j \in 0..(n - 1) : j < low => b[j] # NULL
      BY <1>2, <1>3 DEF LowestOK
    <2>. QED
      BY <1>6, <2>1, <2>2 DEF LowestOK, b
  <1>. QED
    BY <1>5, <1>6

\* The hint after slot i was freed by pointer_array_set_item.
LEMMA LowestAfterClear ==
    ASSUME NEW n \in Nat, NEW a \in [0..(n - 1) -> Slots], NEW low,
           LowestOK(a, n, low), NEW i \in 0..(n - 1)
    PROVE  LowestOK([a EXCEPT ![i] = NULL], n, IF i < low THEN i ELSE low)
  <1> DEFINE b == [a EXCEPT ![i] = NULL]
  <1>1. \A j \in 0..(n - 1) : b[j] = IF j = i THEN NULL ELSE a[j]
    OBVIOUS
  <1> HIDE DEF b
  <1>2. low \in 0..n
    BY DEF LowestOK
  <1>3. CASE i < low
    <2>1. i \in 0..n /\ b[i] = NULL
      BY <1>1
    <2>2. \A j \in 0..(n - 1) : j < i => j < low /\ j # i
      BY <1>2, <1>3
    <2>3. \A j \in 0..(n - 1) : j < i => b[j] # NULL
      BY <1>1, <2>2 DEF LowestOK
    <2>. QED
      BY <1>3, <2>1, <2>3 DEF LowestOK, b
  <1>4. CASE ~(i < low)
    <2>1. low < n => low \in 0..(n - 1) /\ b[low] = NULL
      BY <1>1, <1>2 DEF LowestOK
    <2>2. \A j \in 0..(n - 1) : j < low => b[j] # NULL
      BY <1>1, <1>2, <1>4 DEF LowestOK
    <2>. QED
      BY <1>2, <1>4, <2>1, <2>2 DEF LowestOK, b
  <1>. QED
    BY <1>3, <1>4

\* The hint after pointer_array_test_and_set_item, which scans the table that
\* holds the pointer already, from the pointer's own slot on.
LEMMA LowestAfterTestAndSet ==
    ASSUME NEW n \in Nat, NEW a \in [0..(n - 1) -> Slots], NEW low,
           LowestOK(a, n, low), NEW i \in 0..(n - 1), NEW v \in Values
    PROVE  LET b == [a EXCEPT ![i] = v] IN
           LowestOK(b, n, IF i = low THEN ScanFrom(b, n, i, n) ELSE low)
  <1> DEFINE b == [a EXCEPT ![i] = v]
             k == ScanFrom(b, n, i, n)
  <1>2. \A j \in 0..(n - 1) : b[j] = IF j = i THEN v ELSE a[j]
    OBVIOUS
  <1>3. v # NULL
    BY ConstantsAssumption
  <1>4. \/ (\A j \in i..(n - 1) : b[j] # NULL) /\ k = n
        \/ /\ k \in i..(n - 1) /\ b[k] = NULL
           /\ \A j \in i..(n - 1) : j < k => b[j] # NULL
    <2> HIDE DEF b
    <2>1. i \in Nat
      OBVIOUS
    <2>. QED
      BY <2>1, ScanResult
  <1> HIDE DEF b, k
  <1>5. CASE i = low
    <2>1. \A j \in 0..(n - 1) : j < low \/ j \in i..(n - 1)
      BY <1>5
    <2>2. k \in 0..n /\ (k < n => b[k] = NULL)
      BY <1>4
    <2>3. \A j \in 0..(n - 1) : j < k => b[j] # NULL
      BY <1>2, <1>3, <1>4, <2>1 DEF LowestOK
    <2>. QED
      BY <1>5, <2>2, <2>3 DEF LowestOK, b, k
  <1>6. CASE i # low
    <2>1. low \in 0..n /\ (low < n => low \in 0..(n - 1) /\ b[low] = NULL)
      BY <1>2, <1>6 DEF LowestOK
    <2>2. \A j \in 0..(n - 1) : j < low => b[j] # NULL
      BY <1>2, <1>3 DEF LowestOK
    <2>. QED
      BY <1>6, <2>1, <2>2 DEF LowestOK, b
  <1>. QED
    BY <1>5, <1>6

\* Growing the table keeps the hint right.
LEMMA LowestAfterGrow ==
    ASSUME TypeOK, NEW n \in Nat, n >= size, LowestOK(addr, size, lowest_free)
    PROVE  LowestOK(Grown(n), n, lowest_free)
  <1>1. size \in Nat /\ lowest_free \in 0..size /\ lowest_free \in 0..n
    BY DEF TypeOK, LowestOK
  <1>2. CASE lowest_free < size
    <2>1. lowest_free \in 0..(size - 1)
      BY <1>1, <1>2
    <2>2. Grown(n)[lowest_free] = NULL
      BY <1>2, <2>1, FreeGrown DEF LowestOK
    <2>3. \A i \in 0..(n - 1) : i < lowest_free => i \in 0..(size - 1)
      BY <1>1
    <2>4. \A i \in 0..(n - 1) : i < lowest_free => Grown(n)[i] # NULL
      BY <2>3, FreeGrown DEF LowestOK
    <2>. QED
      BY <1>1, <2>2, <2>4 DEF LowestOK
  <1>3. CASE lowest_free = size
    <2>1. lowest_free < n => lowest_free \in size..(n - 1)
      BY <1>1, <1>3
    <2>2. lowest_free < n => Grown(n)[lowest_free] = NULL
      BY <2>1, FreeGrown
    <2>3. \A i \in 0..(n - 1) : i < lowest_free => i \in 0..(size - 1)
      BY <1>1
    <2>4. \A i \in 0..(n - 1) : i < lowest_free => Grown(n)[i] # NULL
      BY <2>3, FreeGrown DEF LowestOK
    <2>. QED
      BY <1>1, <2>2, <2>4 DEF LowestOK
  <1>. QED
    BY <1>1, <1>2, <1>3
-----------------------------------------------------------------------------
\* The table after a store: all the conjuncts of IInv that are about it.
TableOK ==
    /\ size \in Nat /\ number_free \in Int
    /\ addr \in [0..(size - 1) -> Slots]
    /\ allocated \in BOOLEAN /\ overrun \in BOOLEAN
    /\ lowest_free \in Nat
    /\ Fresh
    /\ ~overrun => /\ LowestOK(addr, size, lowest_free)
                   /\ number_free = Cardinality(Free(addr))

\* The hint as the invariant states it and as the lemmas do.
LEMMA LowestSame ==
    ASSUME TypeOK
    PROVE  LowestIsFree <=> (~overrun => LowestOK(addr, size, lowest_free))
  BY DEF TypeOK, LowestIsFree, LowestOK

\* A table that is right, with nothing pending, satisfies the invariant.
LEMMA TableIsEnough ==
    ASSUME TableOK, pending = None, max_size \in Nat, removing \in SUBSET Threads
    PROVE  IInv
  <1>1. TypeOK
    BY DEF TableOK, TypeOK, None, Slots
  <1>2. LowestIsFree
    BY <1>1, LowestSame DEF TableOK
  <1>3. Count /\ PendingOK /\ Fresh
    BY DEF TableOK, Count, PendingOK, Growing, None
  <1>. QED
    BY <1>1, <1>2, <1>3 DEF IInv

\* A store outside the table leaves the table alone.
LEMMA OverrunOK == ASSUME TypeOK, Fresh, Overrun
                   PROVE  TableOK'
  BY DEF TypeOK, Overrun, TableOK, Fresh

\* Adding to a table that is right leaves it right, whether grow_table has just
\* made it (number_free is that of the grown table already) or not.
LEMMA AddToOK ==
    ASSUME TypeOK, Fresh, ~overrun, NEW STATE n, n \in Nat,
           NEW STATE a, a \in [0..(n - 1) -> Slots],
           NEW STATE v, v \in Values,
           lowest_free < n => LowestOK(a, n, lowest_free)
                              /\ number_free = Cardinality(Free(a)),
           AddTo(a, n, v)
    PROVE  TableOK'
  <1>1. CASE lowest_free >= n
    BY <1>1, OverrunOK DEF AddTo, TypeOK
  <1>2. CASE lowest_free < n
    <2>1. Store(a, n, v) /\ lowest_free \in 0..(n - 1) /\ a[lowest_free] = NULL
      BY <1>2 DEF AddTo, TypeOK, LowestOK
    <2> DEFINE b == [a EXCEPT ![lowest_free] = v]
               left == Cardinality(Free(a)) - 1
               low == IF left > 0 THEN ScanFrom(a, n, lowest_free + 1, lowest_free)
                      ELSE n
    <2>2. /\ addr' = b /\ size' = n /\ number_free' = left /\ lowest_free' = low
          /\ allocated' = TRUE /\ overrun' = overrun
      BY <1>2, <2>1 DEF Store
    <2>3. b \in [0..(n - 1) -> Slots] /\ Cardinality(Free(b)) = left
      BY <2>1, FreeStore
    <2>4. LowestOK(b, n, low)
      BY <1>2, LowestAfterAdd
    <2>5. Cardinality(Free(a)) \in Nat
      BY FreeFinite
    <2>6. left \in Int
      BY <2>5
    <2> HIDE DEF b, left, low
    <2>7. low \in Nat
      BY <2>4 DEF LowestOK
    <2>. QED
      BY <2>2, <2>3, <2>4, <2>6, <2>7 DEF TableOK, TypeOK, LowestOK, Free, Fresh
  <1>. QED
    BY <1>1, <1>2 DEF TypeOK

\* The same for setting a slot...
LEMMA SetInOK ==
    ASSUME TypeOK, Fresh, ~overrun, NEW STATE n, n \in Nat,
           NEW STATE a, a \in [0..(n - 1) -> Slots],
           NEW STATE i, i \in Nat, NEW STATE v, v \in Slots,
           i < n => LowestOK(a, n, lowest_free) /\ number_free = Cardinality(Free(a)),
           SetIn(a, n, i, v)
    PROVE  TableOK'
  <1>1. CASE i >= n
    BY <1>1, OverrunOK DEF SetIn
  <1>2. CASE i < n
    <2> DEFINE b == [a EXCEPT ![i] = v]
    <2>1. /\ i \in 0..(n - 1) /\ Cardinality(Free(a)) \in Nat
          /\ number_free = Cardinality(Free(a)) /\ LowestOK(a, n, lowest_free)
      BY <1>2, FreeFinite
    <2>2. addr' = b /\ size' = n /\ allocated' = TRUE /\ overrun' = overrun
      BY <1>2 DEF SetIn
    <2>3. CASE v = NULL
      <3>1. /\ lowest_free' = IF i < lowest_free THEN i ELSE lowest_free
            /\ number_free' = IF a[i] # NULL THEN number_free + 1 ELSE number_free
        BY <1>2, <2>3 DEF SetIn
      <3>2. /\ b \in [0..(n - 1) -> Slots]
            /\ Cardinality(Free(b)) = number_free' /\ number_free' \in Int
        <4>1. /\ b \in [0..(n - 1) -> Slots]
              /\ Cardinality(Free(b)) = IF a[i] = NULL THEN Cardinality(Free(a))
                                        ELSE Cardinality(Free(a)) + 1
          BY <2>1, <2>3, FreeClear
        <4> HIDE DEF b
        <4>. QED
          BY <2>1, <3>1, <4>1
      <3>3. LowestOK(b, n, lowest_free')
        BY <2>1, <2>3, <3>1, LowestAfterClear
      <3> HIDE DEF b
      <3>4. lowest_free' \in Nat
        BY <3>3 DEF LowestOK
      <3>. QED
        BY <2>2, <3>2, <3>3, <3>4 DEF TableOK, TypeOK, LowestOK, Free, Fresh
    <2>4. CASE v # NULL
      <3>1. /\ lowest_free' = IF i = lowest_free THEN ScanFrom(a, n, i + 1, n)
                              ELSE lowest_free
            /\ number_free' = IF a[i] = NULL THEN number_free - 1 ELSE number_free
            /\ v \in Values
        BY <1>2, <2>4 DEF SetIn, Slots
      <3>2. /\ b \in [0..(n - 1) -> Slots]
            /\ Cardinality(Free(b)) = number_free' /\ number_free' \in Int
        <4>1. /\ b \in [0..(n - 1) -> Slots]
              /\ Cardinality(Free(b)) = IF a[i] = NULL THEN Cardinality(Free(a)) - 1
                                        ELSE Cardinality(Free(a))
          BY <2>1, <3>1, FreeStore
        <4> HIDE DEF b
        <4>. QED
          BY <2>1, <3>1, <4>1
      <3>3. LowestOK(b, n, lowest_free')
        BY <2>1, <3>1, LowestAfterSet
      <3> HIDE DEF b
      <3>4. lowest_free' \in Nat
        BY <3>3 DEF LowestOK
      <3>. QED
        BY <2>2, <3>2, <3>3, <3>4 DEF TableOK, TypeOK, LowestOK, Free, Fresh
    <2>. QED
      BY <2>3, <2>4
  <1>. QED
    BY <1>1, <1>2

\* ... and for reserving a free one.
LEMMA TestAndSetInOK ==
    ASSUME TypeOK, Fresh, ~overrun, NEW STATE n, n \in Nat,
           NEW STATE a, a \in [0..(n - 1) -> Slots],
           NEW STATE i, i \in Nat, NEW STATE v, v \in Values,
           i < n => /\ LowestOK(a, n, lowest_free) /\ a[i] = NULL
                    /\ number_free = Cardinality(Free(a)),
           TestAndSetIn(a, n, i, v)
    PROVE  TableOK'
  <1>1. CASE i >= n
    BY <1>1, OverrunOK DEF TestAndSetIn
  <1>2. CASE i < n
    <2> DEFINE b == [a EXCEPT ![i] = v]
    <2>1. /\ i \in 0..(n - 1) /\ Cardinality(Free(a)) \in Nat /\ a[i] = NULL
          /\ number_free = Cardinality(Free(a)) /\ LowestOK(a, n, lowest_free)
      BY <1>2, FreeFinite
    <2>2. /\ addr' = b /\ size' = n /\ allocated' = TRUE /\ overrun' = overrun
          /\ number_free' = number_free - 1
          /\ lowest_free' = IF i = lowest_free THEN ScanFrom(b, n, i, n)
                            ELSE lowest_free
      BY <1>2 DEF TestAndSetIn
    <2>3. /\ b \in [0..(n - 1) -> Slots]
          /\ Cardinality(Free(b)) = number_free' /\ number_free' \in Int
      <3>1. /\ b \in [0..(n - 1) -> Slots]
            /\ Cardinality(Free(b)) = Cardinality(Free(a)) - 1
        BY <2>1, FreeStore
      <3> HIDE DEF b
      <3>. QED
        BY <2>1, <2>2, <3>1
    <2>4. LowestOK(b, n, IF i = lowest_free THEN ScanFrom(b, n, i, n)
                         ELSE lowest_free)
      BY <2>1, LowestAfterTestAndSet
    <2>5. LowestOK(b, n, lowest_free')
      BY <2>2, <2>4
    <2> HIDE DEF b
    <2>6. lowest_free' \in Nat
      BY <2>5 DEF LowestOK
    <2>. QED
      BY <2>2, <2>3, <2>5, <2>6 DEF TableOK, TypeOK, LowestOK, Free, Fresh
  <1>. QED
    BY <1>1, <1>2
-----------------------------------------------------------------------------
\* The table grow_table makes has slots of the right kind, even if it is smaller.
LEMMA GrownType ==
    ASSUME TypeOK, NEW n \in Nat
    PROVE  Grown(n) \in [0..(n - 1) -> Slots]
  BY DEF TypeOK, Grown, Slots

\* With the lock free nothing is ahead of the table.
LEMMA UnlockedCount ==
    ASSUME IInv, Unlocked
    PROVE  /\ ~overrun /\ pending = None /\ pending.op = "none"
           /\ number_free = Cardinality(Free(addr))
  <1>1. ~overrun /\ pending = None /\ pending.op = "none"
    BY DEF Unlocked, None
  <1>2. Cardinality(Free(addr)) \in Nat
    BY FreeFinite DEF IInv, TypeOK
  <1>3. number_free = Cardinality(Free(addr)) + 0
    BY <1>1 DEF IInv, Count, Growing
  <1>. QED
    BY <1>1, <1>2, <1>3

\* The first half of grow_table keeps the invariant.
LEMMA GrowBeginOK ==
    ASSUME IInv, Unlocked,
           NEW op \in {"add", "set", "test_and_set", "set_size"},
           NEW index \in Nat, NEW value \in Slots,
           NEW STATE soft, soft \in Nat, NEW hard \in Nat,
           op = "add" => Free(addr) = {} /\ value \in Values,
           op \in {"set", "test_and_set"} => index >= size,
           op = "test_and_set" => value \in Values,
           op = "set_size" => NewSize(soft, hard) > size,
           GrowBegin(op, index, value, soft, hard)
    PROVE  IInv'
  <1> DEFINE n == NewSize(soft, hard)
  <1>1. n \in Nat
    BY DEF NewSize
  <1> HIDE DEF n
  <1>2. /\ number_free' = number_free + n - size
        /\ pending' = [op |-> op, index |-> index, value |-> value, new_size |-> n]
        /\ UNCHANGED <<addr, size, lowest_free, max_size, allocated, removing,
                       overrun>>
    BY DEF GrowBegin, n
  <1>3. TypeOK'
    BY <1>1, <1>2 DEF IInv, TypeOK
  <1>4. LowestIsFree' /\ Fresh'
    BY <1>2 DEF IInv, LowestIsFree, Fresh
  <1>5. pending.op = "none" /\ number_free = Cardinality(Free(addr))
    BY UnlockedCount
  <1>6. Cardinality(Free(addr)) \in Nat /\ size \in Nat
    BY FreeFinite DEF IInv, TypeOK
  <1>7. pending'.op = op /\ pending'.new_size = n /\ pending'.index = index
        /\ pending'.value = value
    BY <1>2
  <1>8. number_free' = Cardinality(Free(addr)) + (n - size)
    BY <1>1, <1>2, <1>5, <1>6
  <1>9. Count'
    BY <1>2, <1>7, <1>8 DEF Count, Growing, Free
  <1>10. PendingOK'
    BY <1>2, <1>7 DEF PendingOK, Growing, Free, n
  <1>. QED
    BY <1>3, <1>4, <1>9, <1>10 DEF IInv

\* The constructor leaves an empty table.
LEMMA InitIInv == Init => IInv
  <1> SUFFICES ASSUME Init
               PROVE  IInv
    OBVIOUS
  <1>1. 0..(0 - 1) = {}
    OBVIOUS
  <1>2. addr \in [0..(size - 1) -> Slots] /\ DOMAIN addr = {}
    BY <1>1 DEF Init
  <1>3. Free(addr) = {}
    BY <1>2 DEF Free
  <1>4. Cardinality(Free(addr)) = 0
    BY <1>3, FS_EmptySet
  <1>5. LowestOK(addr, size, lowest_free)
    BY <1>1 DEF Init, LowestOK
  <1>6. TableOK
    <2>1. /\ size \in Nat /\ lowest_free \in Nat /\ number_free \in Int
          /\ Fresh /\ number_free = Cardinality(Free(addr))
      BY <1>4 DEF Init, Fresh
    <2>2. allocated \in BOOLEAN /\ overrun \in BOOLEAN
      BY Zenon DEF Init
    <2>. QED
      BY <1>2, <1>5, <2>1, <2>2 DEF TableOK
  <1>7. pending = None /\ max_size \in Nat /\ removing \in SUBSET Threads
    BY ConstantsAssumption DEF Init
  <1>. QED
    BY <1>6, <1>7, TableIsEnough

\* Every operation preserves the inductive invariant.
LEMMA NextIInv == IInv /\ [Next]_vars => IInv'
  <1> SUFFICES ASSUME IInv, [Next]_vars
               PROVE  IInv'
    OBVIOUS
  <1>T. TypeOK /\ Fresh /\ size \in Nat /\ lowest_free \in Nat
        /\ addr \in [0..(size - 1) -> Slots]
    BY DEF IInv, TypeOK
  <1>L. ~overrun => LowestOK(addr, size, lowest_free)
    BY <1>T, LowestSame DEF IInv
  <1>U. ASSUME Unlocked
        PROVE  ~overrun /\ pending = None /\ number_free = Cardinality(Free(addr))
    BY <1>U, UnlockedCount
  <1>P. ASSUME TableOK', pending' = None, max_size' \in Nat,
               removing' \in SUBSET Threads
        PROVE  IInv'
    <2>1. (TableOK /\ pending = None /\ max_size \in Nat
             /\ removing \in SUBSET Threads => IInv)'
      BY TableIsEnough, PTL
    <2>. QED
      BY <1>P, <2>1
  <1>1. CASE ArrayInit
    <2>1. InitialSize \in Nat
      BY ConstantsAssumption DEF InitialSize
    <2> DEFINE a == [i \in 0..(InitialSize - 1) |-> NULL]
    <2>2. a \in [0..(InitialSize - 1) -> Slots] /\ Cardinality(Free(a)) = InitialSize
      BY <2>1, FreeEmpty
    <2>3. lowest_free = 0 /\ ~overrun
      BY <1>1, <1>T DEF ArrayInit, Unlocked, IInv, Fresh, LowestIsFree
    <2>4. LowestOK(a, InitialSize, 0)
      BY <2>1 DEF LowestOK
    <2>5. /\ addr' = a /\ size' = InitialSize /\ number_free' = InitialSize
          /\ lowest_free' = 0 /\ allocated' = TRUE /\ overrun' = overrun
          /\ max_size' = MaxSize /\ pending' = pending /\ removing' = removing
      BY <1>1, <2>3 DEF ArrayInit
    <2> HIDE DEF a
    <2>6. TableOK'
      BY <1>T, <2>1, <2>2, <2>3, <2>4, <2>5 DEF TableOK, TypeOK, LowestOK, Free, Fresh
    <2>7. pending' = None /\ max_size' \in Nat /\ removing' \in SUBSET Threads
      BY <1>1, <1>T, <2>5, ConstantsAssumption DEF ArrayInit, Unlocked, TypeOK
    <2>. QED
      BY <1>P, <2>6, <2>7
  <1>2. CASE Destruct
    <2>1. 0..(0 - 1) = {}
      OBVIOUS
    <2>2. addr' \in [0..(size' - 1) -> Slots] /\ DOMAIN addr' = {}
      BY <1>2, <2>1 DEF Destruct
    <2>3. Free(addr') = {}
      BY <2>2 DEF Free
    <2>4. /\ number_free' = Cardinality(Free(addr'))
          /\ LowestOK(addr', size', lowest_free')
      BY <1>2, <2>1, <2>3, FS_EmptySet DEF Destruct, LowestOK
    <2>5. /\ size' \in Nat /\ lowest_free' \in Nat /\ number_free' \in Int
          /\ Fresh'
      BY <1>2 DEF Destruct, Fresh
    <2>B. allocated' \in BOOLEAN /\ overrun' \in BOOLEAN
      BY <1>2, <1>T, Zenon DEF Destruct, TypeOK
    <2>6. TableOK'
      BY <2>2, <2>4, <2>5, <2>B DEF TableOK
    <2>7. pending' = None /\ max_size' \in Nat /\ removing' \in SUBSET Threads
      BY <1>2, <1>T, ConstantsAssumption DEF Destruct, Unlocked, TypeOK
    <2>. QED
      BY <1>P, <2>6, <2>7
  <1>3. ASSUME NEW v \in Values, Add(v)
        PROVE  IInv'
    <2>1. CASE number_free # 0
      <3>1. AddTo(addr, size, v) /\ UNCHANGED <<max_size, pending, removing>>
            /\ Unlocked
        BY <1>3, <2>1 DEF Add
      <3>2. TableOK'
        BY <3>1, <1>T, <1>L, <1>U, AddToOK
      <3>. QED
        BY <1>P, <1>U, <3>1, <3>2, <1>T DEF TypeOK
    <2>2. CASE number_free = 0
      <3> DEFINE soft == IF allocated THEN size * TABLE_GROW ELSE TABLE_INIT
      <3>1. GrowBegin("add", 0, v, soft, HANDLE_MAX) /\ Unlocked
        BY <1>3, <2>2 DEF Add
      <3>2. soft \in Nat /\ HANDLE_MAX \in Nat
        BY <1>T, ConstantsAssumption DEF TABLE_GROW, TABLE_INIT
      <3>3. IsFiniteSet(Free(addr)) /\ Cardinality(Free(addr)) = 0
        BY <1>T, <1>U, <2>2, <3>1, FreeFinite
      <3>4. Free(addr) = {}
        BY <3>3, FS_EmptySet
      <3> HIDE DEF soft
      <3>5. v \in Slots
        BY DEF Slots
      <3>. QED
        BY <3>1, <3>2, <3>4, <3>5, GrowBeginOK
    <2>. QED
      BY <2>1, <2>2
  <1>R. \A i \in Nat : RoundUp(i) \in Nat
    BY DEF RoundUp, TABLE_GROW
  <1>4. ASSUME NEW i \in Nat, NEW v \in Slots, SetItem(i, v)
        PROVE  IInv'
    <2>1. CASE i < size
      <3>1. SetIn(addr, size, i, v) /\ UNCHANGED <<max_size, pending, removing>>
            /\ Unlocked
        BY <1>4, <2>1, <1>T DEF SetItem
      <3>2. TableOK'
        BY <3>1, <1>T, <1>L, <1>U, SetInOK
      <3>. QED
        BY <1>P, <1>U, <3>1, <3>2, <1>T DEF TypeOK
    <2>2. CASE i >= size
      <3>1. GrowBegin("set", i, v, RoundUp(i), i) /\ Unlocked
        BY <1>4, <2>2, <1>T DEF SetItem
      <3>. QED
        BY <3>1, <2>2, <1>R, GrowBeginOK
    <2>. QED
      BY <2>1, <2>2, <1>T
  <1>5. ASSUME NEW i \in Nat, NEW v \in Values, TestAndSetItem(i, v)
        PROVE  IInv'
    <2>1. CASE i < size
      <3>1. TestAndSetIn(addr, size, i, v) /\ UNCHANGED <<max_size, pending, removing>>
            /\ Unlocked /\ addr[i] = NULL
        BY <1>5, <2>1, <1>T DEF TestAndSetItem
      <3>2. TableOK'
        BY <3>1, <1>T, <1>L, <1>U, TestAndSetInOK
      <3>. QED
        BY <1>P, <1>U, <3>1, <3>2, <1>T DEF TypeOK
    <2>2. CASE i >= size
      <3>1. GrowBegin("test_and_set", i, v, RoundUp(i), i) /\ Unlocked
        BY <1>5, <2>2, <1>T DEF TestAndSetItem
      <3>2. v \in Slots
        BY DEF Slots
      <3>. QED
        BY <3>1, <3>2, <2>2, <1>R, GrowBeginOK
    <2>. QED
      BY <2>1, <2>2, <1>T
  <1>6. ASSUME NEW n \in Nat, SetSize(n)
        PROVE  IInv'
    <2>1. GrowBegin("set_size", 0, NULL, n, n) /\ Unlocked /\ n > size
      BY <1>6 DEF SetSize
    <2>2. NewSize(n, n) > size /\ NULL \in Slots
      BY <2>1 DEF NewSize, Slots
    <2>. QED
      BY <2>1, <2>2, GrowBeginOK
  <1>7. CASE GrowEnd
    <2> DEFINE n == pending.new_size
               a == Grown(n)
    <2>1. /\ ~overrun /\ pending.op # "none" /\ pending' = None
          /\ max_size' = max_size /\ removing' = removing
          /\ n \in Nat /\ pending.index \in Nat /\ pending.value \in Slots
      BY <1>7, <1>T DEF GrowEnd, TypeOK
    <2>2. number_free = Cardinality(Free(addr)) + (n - size)
      BY <2>1 DEF IInv, Count, Growing
    <2>3. a \in [0..(n - 1) -> Slots]
      BY <1>T, <2>1, GrownType
    <2>4. Cardinality(Free(addr)) \in Nat /\ LowestOK(addr, size, lowest_free)
      BY <1>T, <1>L, <2>1, FreeFinite
    <2>5. n >= size => /\ number_free = Cardinality(Free(a))
                       /\ LowestOK(a, n, lowest_free)
      <3>1. ASSUME n >= size
            PROVE  Cardinality(Free(a)) = Cardinality(Free(addr)) + n - size
        BY <1>T, <2>1, <3>1, FreeGrown
      <3>2. ASSUME n >= size
            PROVE  LowestOK(a, n, lowest_free)
        BY <1>T, <2>1, <2>4, <3>2, LowestAfterGrow
      <3> HIDE DEF n, a
      <3>. QED
        BY <1>T, <2>1, <2>2, <2>4, <3>1, <3>2
    <2>6. CASE pending.op = "add"
      <3>1. AddTo(a, n, pending.value) /\ pending.value \in Values /\ Free(addr) = {}
        BY <1>7, <2>6 DEF GrowEnd, IInv, PendingOK
      <3>2. lowest_free = size
        BY <1>T, <2>4, <3>1 DEF LowestOK, Free
      <3> HIDE DEF n, a
      <3>3. lowest_free < n => n >= size
        BY <1>T, <2>1, <3>2
      <3>. QED
        BY <1>T, <2>1, <2>3, <2>5, <3>1, <3>3, AddToOK, <1>P DEF TypeOK
    <2>7. CASE pending.op = "set"
      <3>1. SetIn(a, n, pending.index, pending.value) /\ pending.index >= size
        BY <1>7, <2>7 DEF GrowEnd, IInv, PendingOK
      <3> HIDE DEF n, a
      <3>2. pending.index < n => n >= size
        BY <1>T, <2>1, <3>1
      <3>. QED
        BY <1>T, <2>1, <2>3, <2>5, <3>1, <3>2, SetInOK, <1>P DEF TypeOK
    <2>8. CASE pending.op = "test_and_set"
      <3>1. /\ TestAndSetIn(a, n, pending.index, pending.value)
            /\ pending.index >= size /\ pending.value \in Values
        BY <1>7, <2>8 DEF GrowEnd, IInv, PendingOK
      <3>2. pending.index < n => n >= size /\ pending.index \in size..(n - 1)
        BY <1>T, <2>1, <3>1
      <3>3. pending.index < n => a[pending.index] = NULL
        BY <1>T, <2>1, <3>2, FreeGrown
      <3> HIDE DEF n, a
      <3>. QED
        BY <1>T, <2>1, <2>3, <2>5, <3>1, <3>2, <3>3, TestAndSetInOK, <1>P DEF TypeOK
    <2>9. CASE pending.op = "set_size"
      <3>1. /\ addr' = a /\ size' = n /\ allocated' = TRUE
            /\ UNCHANGED <<number_free, lowest_free, overrun>>
        BY <1>7, <2>9 DEF GrowEnd
      <3>2. n >= size
        BY <1>T, <2>1, <2>9 DEF IInv, PendingOK
      <3> HIDE DEF n, a
      <3>3. TableOK'
        BY <1>T, <2>1, <2>3, <2>5, <3>1, <3>2 DEF TableOK, TypeOK, LowestOK, Free, Fresh
      <3>. QED
        BY <1>T, <2>1, <3>3, <1>P DEF TypeOK
    <2>. QED
      BY <1>T, <2>1, <2>6, <2>7, <2>8, <2>9 DEF TypeOK
  <1>8. ASSUME NEW t \in Threads, RemoveAllCall(t)
        PROVE  IInv'
    BY <1>8 DEF RemoveAllCall, IInv, TypeOK, LowestIsFree, Count, PendingOK, Fresh,
                Growing, Free
  <1>9. ASSUME NEW t \in Threads, RemoveAll(t)
        PROVE  IInv'
    <2> DEFINE a == [i \in 0..(size - 1) |-> NULL]
    <2>1. a \in [0..(size - 1) -> Slots] /\ Cardinality(Free(a)) = size
      BY <1>T, FreeEmpty
    <2>2. LowestOK(a, size, 0)
      BY <1>T DEF LowestOK
    <2>3. /\ addr' = a /\ lowest_free' = 0 /\ number_free' = size
          /\ removing' = removing \ {t}
          /\ UNCHANGED <<size, max_size, allocated, pending, overrun>>
          /\ Unlocked
      BY <1>9 DEF RemoveAll
    <2> HIDE DEF a
    <2>4. TableOK'
      BY <1>T, <2>1, <2>2, <2>3 DEF TableOK, TypeOK, LowestOK, Free, IInv, Fresh
    <2>. QED
      BY <1>P, <1>T, <1>U, <2>3, <2>4 DEF TypeOK
  <1>10. CASE UNCHANGED vars
    BY <1>10 DEF vars, IInv, TypeOK, LowestIsFree, Count, PendingOK, Fresh,
                 Growing, Free
  <1>11. \A i \in Indices : i \in Nat
    BY ConstantsAssumption DEF Indices
  <1>. QED
    BY <1>1, <1>2, <1>3, <1>4, <1>5, <1>6, <1>7, <1>8, <1>9, <1>10, <1>11 DEF Next

-----------------------------------------------------------------------------
\* The inductive invariant holds in every reachable state.
LEMMA Invariance == Spec => []IInv
  BY InitIInv, NextIInv, PTL DEF Spec

\* The fields of ocoms_pointer_array_t keep their types; addr always has exactly
\* size slots.
THEOREM TypeCorrect == Spec => []TypeOK
  <1>1. IInv => TypeOK
    BY DEF IInv
  <1>. QED
    BY Invariance, <1>1, PTL

\* number_free is the number of NULL slots after every operation, for every
\* choice of initial size, maximum and HANDLE_MAX, as long as no operation has
\* written outside the table.
THEOREM FreeCountCorrect == Spec => []CountsFree
  <1>1. IInv => CountsFree
    BY UnlockedCount DEF CountsFree
  <1>. QED
    BY Invariance, <1>1, PTL

\* lowest_free is the lowest NULL slot after every operation, under the same
\* proviso.
THEOREM LowestFreeCorrect == Spec => []LowestIsFree
  <1>1. IInv => LowestIsFree
    BY DEF IInv
  <1>. QED
    BY Invariance, <1>1, PTL
-----------------------------------------------------------------------------
(* Parameters under which no operation writes outside the table.  The       *)
(* second invariant adds what grow_table's caller gets from it.             *)

SafeParameters ==
    /\ MaxSize % TABLE_GROW = 0
    /\ HANDLE_MAX > MaxSize
    /\ IndexBound + TABLE_GROW <= INT_MAX
    /\ MemoryBound * TABLE_GROW <= INT_MAX

Fits ==
    /\ NoOverrun
    /\ allocated => size > 0
    /\ max_size = MaxSize \/ (max_size = INT_MAX /\ size <= MemoryBound)
    /\ Growing => pending.new_size <= MemoryBound /\ pending.new_size > 0
    /\ pending.op = "add" => pending.new_size > size
    /\ pending.op \in {"set", "test_and_set"} => pending.index < pending.new_size

\* The table grow_table makes for an index reaches beyond it: soft does, and
\* when soft is above an even maximum, so is the index.
LEMMA GrowReachesIndex ==
    ASSUME SafeParameters, Fits, TypeOK, NEW i \in Indices,
           GrowSucceeds(RoundUp(i), i)
    PROVE  NewSize(RoundUp(i), i) > i /\ NewSize(RoundUp(i), i) \in Nat
  <1>1. /\ i \in Nat /\ i <= IndexBound /\ IndexBound \in Nat
        /\ MaxSize \in Nat /\ INT_MAX \in Nat
    BY ConstantsAssumption DEF Indices
  <1>2. /\ RoundUp(i) > i /\ RoundUp(i) <= i + 2 /\ RoundUp(i) \in Nat
        /\ RoundUp(i) % 2 = 0
    BY <1>1 DEF RoundUp, TABLE_GROW
  <1>3. CASE RoundUp(i) <= max_size
    BY <1>2, <1>3 DEF NewSize, TypeOK
  <1>4. CASE RoundUp(i) > max_size
    <2>1. max_size = MaxSize
      BY <1>1, <1>2, <1>4 DEF Fits, SafeParameters, TABLE_GROW
    <2>2. RoundUp(i) >= MaxSize + 2
      BY <1>1, <1>2, <1>4, <2>1 DEF SafeParameters, TABLE_GROW
    <2>3. i >= max_size
      BY <1>1, <1>2, <2>1, <2>2
    <2>. QED
      BY <1>1, <1>4, <2>1, <2>3 DEF GrowSucceeds, NewSize
  <1>. QED
    BY <1>1, <1>2, <1>3, <1>4 DEF TypeOK

\* The table grow_table makes for add is larger than the one before.
LEMMA GrowReachesAdd ==
    ASSUME SafeParameters, Fits, TypeOK, Fresh,
           NEW STATE soft, soft = IF allocated THEN size * TABLE_GROW ELSE TABLE_INIT,
           GrowSucceeds(soft, HANDLE_MAX)
    PROVE  NewSize(soft, HANDLE_MAX) > size
  <1>1. /\ size \in Nat /\ max_size \in Nat /\ MaxSize \in Nat /\ INT_MAX \in Nat
        /\ MemoryBound \in Nat /\ HANDLE_MAX \in Nat
    BY ConstantsAssumption DEF TypeOK
  <1>2. soft > size /\ soft \in Nat
    BY <1>1 DEF Fits, Fresh, TABLE_GROW, TABLE_INIT
  <1>3. soft > max_size => max_size = MaxSize \/ (~allocated /\ max_size = INT_MAX)
    BY <1>1 DEF Fits, SafeParameters, TABLE_GROW
  <1>4. IndexBound \in Nat
    BY ConstantsAssumption
  <1>5. ~allocated => soft <= INT_MAX
    BY <1>1, <1>4 DEF SafeParameters, TABLE_INIT, TABLE_GROW
  <1>6. soft <= max_size
    BY <1>1, <1>2, <1>3, <1>5 DEF GrowSucceeds, SafeParameters
  <1>. QED
    BY <1>1, <1>2, <1>6 DEF NewSize

\* A table with a free slot has the lowest of them inside.
LEMMA LowestInside ==
    ASSUME IInv, Unlocked, number_free # 0
    PROVE  lowest_free < size
  <1>1. ~overrun /\ number_free = Cardinality(Free(addr))
    BY UnlockedCount
  <1>2. LowestOK(addr, size, lowest_free)
    BY <1>1, LowestSame DEF IInv
  <1>3. Free(addr) # {}
    BY <1>1, FS_EmptySet
  <1>. QED
    BY <1>2, <1>3 DEF IInv, TypeOK, LowestOK, Free

\* Every operation keeps inside the table, and prepares to.
LEMMA NextFits ==
    ASSUME SafeParameters, IInv, Fits, [Next]_vars
    PROVE  Fits'
  <1>T. /\ TypeOK /\ Fresh /\ size \in Nat /\ max_size \in Nat /\ lowest_free \in Nat
        /\ ~overrun /\ LowestOK(addr, size, lowest_free)
    BY LowestSame DEF IInv, TypeOK, Fits, NoOverrun
  <1>C. MaxSize \in Nat /\ INT_MAX \in Nat /\ MemoryBound \in Nat
        /\ InitialSize \in Nat /\ InitialSize > 0
    BY ConstantsAssumption DEF InitialSize
  <1>1. CASE ArrayInit
    BY <1>1, <1>T, <1>C DEF ArrayInit, Fits, NoOverrun, Growing, Unlocked, None
  <1>2. CASE Destruct
    BY <1>2, <1>T, <1>C DEF Destruct, Fits, NoOverrun, Growing, Unlocked, None
  <1>G. ASSUME NEW op \in {"add", "set", "test_and_set", "set_size"}, NEW index \in Nat,
               NEW value, NEW STATE soft, NEW hard,
               NewSize(soft, hard) \in Nat, NewSize(soft, hard) > 0,
               op = "add" => NewSize(soft, hard) > size,
               op \in {"set", "test_and_set"} => index < NewSize(soft, hard),
               GrowBegin(op, index, value, soft, hard)
        PROVE  Fits'
    <2> DEFINE n == NewSize(soft, hard)
    <2>1. /\ pending' = [op |-> op, index |-> index, value |-> value, new_size |-> n]
          /\ UNCHANGED <<size, max_size, allocated, overrun>>
          /\ n <= MemoryBound
      BY <1>G DEF GrowBegin, GrowSucceeds
    <2>2. n \in Nat /\ n > 0 /\ (op = "add" => n > size)
          /\ (op \in {"set", "test_and_set"} => index < n)
      BY <1>G
    <2> HIDE DEF n
    <2>. QED
      BY <2>1, <2>2 DEF Fits, NoOverrun, Growing
  <1>3. ASSUME NEW v \in Values, Add(v)
        PROVE  Fits'
    <2>1. CASE number_free # 0
      <3>1. Unlocked /\ UNCHANGED <<max_size, pending>> /\ AddTo(addr, size, v)
        BY <1>3, <2>1 DEF Add
      <3>2. lowest_free < size
        BY <2>1, <3>1, LowestInside
      <3>3. UNCHANGED <<size, overrun>> /\ allocated' = TRUE
        BY <3>1, <3>2 DEF AddTo, Store
      <3>. QED
        BY <1>T, <3>1, <3>2, <3>3 DEF Fits, NoOverrun, Growing
    <2>2. CASE number_free = 0
      <3> DEFINE soft == IF allocated THEN size * TABLE_GROW ELSE TABLE_INIT
      <3>1. GrowBegin("add", 0, v, soft, HANDLE_MAX)
        BY <1>3, <2>2 DEF Add
      <3>2. GrowSucceeds(soft, HANDLE_MAX)
        BY <3>1 DEF GrowBegin
      <3>3. NewSize(soft, HANDLE_MAX) > size
        BY <1>T, <3>2, GrowReachesAdd
      <3>4. soft \in Nat /\ HANDLE_MAX \in Nat
        BY <1>T, ConstantsAssumption DEF TABLE_GROW, TABLE_INIT
      <3> HIDE DEF soft
      <3>5. NewSize(soft, HANDLE_MAX) \in Nat
        BY <3>4 DEF NewSize
      <3>6. NewSize(soft, HANDLE_MAX) > 0
        BY <1>T, <3>3, <3>5
      <3>. QED
        BY <1>G, <3>1, <3>3, <3>5, <3>6
    <2>. QED
      BY <2>1, <2>2
  <1>I. \A i \in Indices : i \in Nat
    BY ConstantsAssumption DEF Indices
  <1>4. ASSUME NEW i \in Indices, NEW v \in Slots, SetItem(i, v)
        PROVE  Fits'
    <2>1. CASE i < size
      <3>1. /\ UNCHANGED <<max_size, pending, size, overrun>> /\ allocated' = TRUE
        BY <1>4, <1>T, <1>I, <2>1 DEF SetItem, SetIn
      <3>. QED
        BY <1>T, <1>I, <2>1, <3>1 DEF Fits, NoOverrun, Growing
    <2>2. CASE i >= size
      <3>1. GrowBegin("set", i, v, RoundUp(i), i)
        BY <1>4, <1>T, <1>I, <2>2 DEF SetItem
      <3>2. NewSize(RoundUp(i), i) > i /\ NewSize(RoundUp(i), i) \in Nat
        BY <1>T, <3>1, GrowReachesIndex DEF GrowBegin
      <3>. QED
        BY <1>G, <1>I, <3>1, <3>2
    <2>. QED
      BY <1>T, <1>I, <2>1, <2>2
  <1>5. ASSUME NEW i \in Indices, NEW v \in Values, TestAndSetItem(i, v)
        PROVE  Fits'
    <2>1. CASE i < size
      <3>1. /\ UNCHANGED <<max_size, pending, size, overrun>> /\ allocated' = TRUE
        BY <1>5, <1>T, <1>I, <2>1 DEF TestAndSetItem, TestAndSetIn
      <3>. QED
        BY <1>T, <1>I, <2>1, <3>1 DEF Fits, NoOverrun, Growing
    <2>2. CASE i >= size
      <3>1. GrowBegin("test_and_set", i, v, RoundUp(i), i)
        BY <1>5, <1>T, <1>I, <2>2 DEF TestAndSetItem
      <3>2. NewSize(RoundUp(i), i) > i /\ NewSize(RoundUp(i), i) \in Nat
        BY <1>T, <3>1, GrowReachesIndex DEF GrowBegin
      <3>. QED
        BY <1>G, <1>I, <3>1, <3>2
    <2>. QED
      BY <1>T, <1>I, <2>1, <2>2
  <1>6. ASSUME NEW i \in Indices, SetSize(i)
        PROVE  Fits'
    <2>1. GrowBegin("set_size", 0, NULL, i, i) /\ i > size
      BY <1>6 DEF SetSize
    <2>2. NewSize(i, i) = i /\ i \in Nat /\ i > 0
      BY <1>T, <1>I, <2>1 DEF NewSize
    <2>. QED
      BY <1>G, <2>1, <2>2
  <1>7. CASE GrowEnd
    <2>1. /\ pending.op # "none" /\ pending' = None /\ max_size' = max_size
          /\ pending.new_size \in Nat /\ pending.index \in Nat
          /\ pending.new_size <= MemoryBound /\ pending.new_size > 0
      BY <1>7, <1>T DEF GrowEnd, TypeOK, Fits, Growing
    <2>2. pending.op = "add" => lowest_free < pending.new_size
      BY <1>T, <2>1 DEF Fits, LowestOK
    <2>3. UNCHANGED overrun /\ size' = pending.new_size
      BY <1>7, <2>1, <2>2 DEF GrowEnd, AddTo, Store, SetIn, TestAndSetIn, Fits
    <2>. QED
      BY <1>C, <1>T, <2>1, <2>3 DEF Fits, NoOverrun, Growing, None
  <1>8. ASSUME NEW t \in Threads, RemoveAllCall(t) \/ RemoveAll(t)
        PROVE  Fits'
    BY <1>8 DEF RemoveAllCall, RemoveAll, Fits, NoOverrun, Growing
  <1>9. CASE UNCHANGED vars
    BY <1>9 DEF vars, Fits, NoOverrun, Growing
  <1>. QED
    BY <1>1, <1>2, <1>3, <1>4, <1>5, <1>6, <1>7, <1>8, <1>9 DEF Next

\* With an even maximum that OCOMS_FORTRAN_HANDLE_MAX exceeds, no operation
\* writes outside the table.  The run pointer_array_odd_max drops
\* the first condition and finds one that does.
THEOREM StaysInside ==
    ASSUME SafeParameters
    PROVE  Spec => []NoOverrun
  <1>1. Init => Fits
    BY ConstantsAssumption DEF Init, Fits, NoOverrun, Growing, None
  <1>2. IInv /\ Fits /\ [Next]_vars => Fits'
    BY NextFits
  <1>3. Fits => NoOverrun
    BY DEF Fits
  <1>. QED
    BY <1>1, <1>2, <1>3, Invariance, PTL DEF Spec
-----------------------------------------------------------------------------
(* Who may change a slot that is taken.                                     *)

\* Every slot that is taken is there after the step, with the same pointer.
Kept ==
    \A i \in DOMAIN addr :
       addr[i] # NULL => i \in DOMAIN addr' /\ addr'[i] = addr[i]

\* Storing into a table that grew from addr, at a slot that was not taken in it,
\* keeps the others.
LEMMA StoreKeeps ==
    ASSUME TypeOK, NEW n \in Nat, n >= size, NEW k \in 0..(n - 1), NEW v,
           k < size => addr[k] = NULL,
           addr' = [Grown(n) EXCEPT ![k] = v] \/ addr' = Grown(n)
    PROVE  Kept
  <1>1. size \in Nat /\ DOMAIN addr = 0..(size - 1)
    BY DEF TypeOK
  <1> DEFINE g == Grown(n)
  <1>2. g \in [0..(n - 1) -> Slots] /\ \A i \in 0..(size - 1) : g[i] = addr[i]
    BY FreeGrown
  <1> HIDE DEF g
  <1>3. addr' = [g EXCEPT ![k] = v] \/ addr' = g
    BY DEF g
  <1>4. ASSUME NEW i \in DOMAIN addr, addr[i] # NULL
        PROVE  i \in DOMAIN addr' /\ addr'[i] = addr[i]
    <2>1. i \in 0..(size - 1) /\ i \in 0..(n - 1) /\ i # k
      BY <1>1, <1>4
    <2>. QED
      BY <1>2, <1>3, <2>1
  <1>. QED
    BY <1>4 DEF Kept

\* The same, for an operation that does not grow the table.
LEMMA PutKeeps ==
    ASSUME TypeOK, NEW k \in 0..(size - 1), NEW v, addr[k] = NULL,
           addr' = [addr EXCEPT ![k] = v]
    PROVE  Kept
  BY DEF TypeOK, Kept

\* add takes the lowest free slot, test_and_set one that it found free, and what
\* the two or set_size grow only gains slots: when an operation wakes up in a
\* table that is no larger than before, its own slot is outside of it.
LEMMA NextKeeps ==
    ASSUME IInv, Next
    PROVE  \/ Kept
           \/ Destruct
           \/ \E t \in Threads : t \in removing /\ t \notin removing'
           \/ \E i \in Indices, v \in Slots : SetItem(i, v)
  <1>T. /\ TypeOK /\ LowestIsFree /\ PendingOK /\ Fresh
        /\ size \in Nat /\ DOMAIN addr = 0..(size - 1)
    BY DEF IInv, TypeOK
  <1>U. addr' = addr => Kept
    BY DEF Kept
  <1>1. CASE ArrayInit
    <2>1. size = 0
      BY <1>1, <1>T DEF ArrayInit, Fresh
    <2>. QED
      BY <1>T, <2>1 DEF Kept
  <1>2. ASSUME NEW v \in Values, Add(v)
        PROVE  Kept
    <2>1. CASE number_free # 0
      <3>1. Unlocked /\ AddTo(addr, size, v)
        BY <1>2, <2>1 DEF Add
      <3>2. lowest_free < size
        BY <2>1, <3>1, LowestInside
      <3>3. /\ lowest_free \in 0..(size - 1)
            /\ addr[lowest_free] = NULL
            /\ addr' = [addr EXCEPT ![lowest_free] = v]
        BY <1>T, <3>1, <3>2 DEF AddTo, Store, LowestIsFree, TypeOK, Unlocked
      <3>. QED
        BY <1>T, <3>3, PutKeeps
    <2>2. CASE number_free = 0
      BY <1>2, <1>U, <2>2 DEF Add, GrowBegin
    <2>. QED
      BY <2>1, <2>2
  <1>3. ASSUME NEW i \in Indices, NEW v \in Values, TestAndSetItem(i, v)
        PROVE  Kept
    <2>1. i \in Nat
      BY ConstantsAssumption DEF Indices
    <2>2. CASE i < size
      <3>1. i \in 0..(size - 1) /\ addr[i] = NULL /\ addr' = [addr EXCEPT ![i] = v]
        BY <1>3, <1>T, <2>1, <2>2 DEF TestAndSetItem, TestAndSetIn
      <3>. QED
        BY <1>T, <3>1, PutKeeps
    <2>3. CASE i >= size
      BY <1>3, <1>T, <1>U, <2>1, <2>3 DEF TestAndSetItem, GrowBegin
    <2>. QED
      BY <1>T, <2>1, <2>2, <2>3
  <1>4. ASSUME NEW i \in Indices, SetSize(i)
        PROVE  Kept
    BY <1>4, <1>U DEF SetSize, GrowBegin
  <1>5. CASE GrowEnd
    <2> DEFINE n == pending.new_size
    <2>1. ~overrun /\ n \in Nat /\ pending.index \in Nat
      BY <1>5, <1>T DEF GrowEnd, TypeOK
    <2>2. CASE pending.op = "add"
      <3>1. AddTo(Grown(n), n, pending.value) /\ Free(addr) = {}
        BY <1>5, <1>T, <2>2 DEF GrowEnd, PendingOK
      <3>2. lowest_free = size
        BY <1>T, <2>1, <3>1 DEF LowestIsFree, TypeOK, Free
      <3>3. CASE lowest_free < n
        <4>1. addr' = [Grown(n) EXCEPT ![lowest_free] = pending.value]
          BY <3>1, <3>3 DEF AddTo, Store
        <4>2. n >= size /\ lowest_free \in 0..(n - 1) /\ ~(lowest_free < size)
          BY <1>T, <2>1, <3>2, <3>3
        <4>. QED
          BY <1>T, <2>1, <4>1, <4>2, StoreKeeps
      <3>4. CASE ~(lowest_free < n)
        BY <1>U, <3>1, <3>4 DEF AddTo, Overrun
      <3>. QED
        BY <3>3, <3>4
    <2>3. CASE pending.op \in {"set", "test_and_set"}
      <3>1. pending.index >= size
        BY <1>T, <2>3 DEF PendingOK
      <3>2. \/ SetIn(Grown(n), n, pending.index, pending.value)
            \/ TestAndSetIn(Grown(n), n, pending.index, pending.value)
        BY <1>5, <2>3 DEF GrowEnd
      <3>3. CASE pending.index < n
        <4>1. addr' = [Grown(n) EXCEPT ![pending.index] = pending.value]
          BY <2>1, <3>2, <3>3 DEF SetIn, TestAndSetIn
        <4>2. /\ n >= size /\ pending.index \in 0..(n - 1)
              /\ ~(pending.index < size)
          BY <1>T, <2>1, <3>1, <3>3
        <4>. QED
          BY <1>T, <2>1, <4>1, <4>2, StoreKeeps
      <3>4. CASE ~(pending.index < n)
        BY <1>U, <2>1, <3>2, <3>4 DEF SetIn, TestAndSetIn, Overrun
      <3>. QED
        BY <3>3, <3>4
    <2>4. CASE pending.op = "set_size"
      <3>1. addr' = Grown(n) /\ n > size
        BY <1>5, <1>T, <2>4 DEF GrowEnd, PendingOK
      <3>2. n >= size /\ size \in 0..(n - 1) /\ ~(size < size)
        BY <1>T, <2>1, <3>1
      <3>. QED
        BY <1>T, <2>1, <3>1, <3>2, StoreKeeps
    <2>. QED
      BY <1>5, <2>2, <2>3, <2>4 DEF GrowEnd
  <1>6. ASSUME NEW t \in Threads, RemoveAllCall(t)
        PROVE  Kept
    BY <1>6, <1>U DEF RemoveAllCall
  <1>7. ASSUME NEW t \in Threads, RemoveAll(t)
        PROVE  t \in removing /\ t \notin removing'
    BY <1>7 DEF RemoveAll
  <1>. QED
    BY <1>1, <1>2, <1>3, <1>4, <1>5, <1>6, <1>7 DEF Next

\* add and test_and_set only reserve: no step of theirs, and no growing of the
\* table, takes a pointer from a slot or puts another in its place; only set_item,
\* remove_all and the destructor do.
THEOREM ReservesSlots == Spec => Reserves
  <1> DEFINE Allowed ==
        \A i \in DOMAIN addr :
          addr[i] # NULL /\ (i \notin DOMAIN addr' \/ addr'[i] # addr[i]) =>
             \/ Destruct
             \/ \E t \in Threads : t \in removing /\ t \notin removing'
             \/ \E v \in Slots : SetItem(i, v)
  <1>1. ASSUME IInv, Next
        PROVE  Allowed
    <2>1. ASSUME NEW j \in Indices, NEW v \in Slots, SetItem(j, v), ~Kept
          PROVE  \A i \in DOMAIN addr :
                   addr[i] # NULL /\ (i \notin DOMAIN addr' \/ addr'[i] # addr[i])
                      => i = j
      <3>1. size \in Nat /\ addr \in [0..(size - 1) -> Slots] /\ j \in Nat
        BY <1>1, ConstantsAssumption DEF IInv, TypeOK, Indices
      <3>2. ~(j >= size)
        BY <2>1, <3>1 DEF SetItem, GrowBegin, Kept
      <3>3. addr' = [addr EXCEPT ![j] = v]
        BY <2>1, <3>1, <3>2 DEF SetItem, SetIn
      <3>. QED
        BY <3>1, <3>3
    <2>. QED
      BY <1>1, <2>1, NextKeeps DEF Kept
  <1>2. IInv /\ [Next]_vars => [Allowed]_vars
    BY <1>1
  <1>3. Spec => [][Allowed]_vars
    BY <1>2, Invariance, PTL DEF Spec
  <1>. QED
    BY <1>3 DEF Reserves

-----------------------------------------------------------------------------
(***************************************************************************)
(* The hash table.                                                         *)
(*                                                                         *)
(* A key is found because no gap comes before its element in its probes.   *)
(* A removal makes a gap, and while its loop closes it there is one gap    *)
(* that may come before elements, but only before those the loop has not   *)
(* come to.  Between calls the table is sound (Sound).                     *)
(***************************************************************************)
Positions(N) == 0..(N - 1)
Element(type) == [valid : {TRUE}, key : KeysOf(type), value : TableValues]
Tables(N, type) == [Positions(N) -> Element(type) \cup {Invalid}]
Valid(T) == {i \in DOMAIN T : T[i] # Invalid}

\* Where the probes for a key begin, and how many steps they take from a to i.
First(type, key, N) == Hash(type, key) % N
Dist(a, i, N) == IF a <= i THEN i - a ELSE i - a + N

\* The probes for the key at i come to j before they come to i.
Before(T, N, type, j, i) ==
    LET a == First(type, T[i].key, N) IN Dist(a, j, N) < Dist(a, i, N)

Distinct(T) == \A i, j \in Valid(T) : T[i].key = T[j].key => i = j

\* No gap comes before an element in its probes.
Reachable(T, N, type) ==
    \A i \in Valid(T) : \A j \in Positions(N) : Before(T, N, type, j, i) => T[j] # Invalid

\* While a removal closes the gap at hole and has come to g, that gap may come
\* before the elements it has not come to.
ReachableBut(T, N, type, hole, g) ==
    \A i \in Valid(T) : \A j \in Positions(N) : Before(T, N, type, j, i) =>
       T[j] # Invalid \/ (j = hole /\ g # hole /\ Dist(hole, g, N) <= Dist(hole, i, N))

\* What the table holds is the contents.
Elements(T) == {T[i] : i \in Valid(T)}
Holds(T, c) ==
    /\ \A e \in Elements(T) : e.key \in DOMAIN c /\ e.value = c[e.key]
    /\ \A k \in DOMAIN c : \E e \in Elements(T) : e.key = k

\* The types, and the trigger that belongs to the capacity.
TypeInv ==
    /\ ht_capacity \in 0..CapacityBound
    /\ ht_size \in Nat
    /\ ht_growth_trigger = TriggerFor(ht_capacity)
    /\ ht_type_methods \in Types \cup {NoType}
    /\ gap \in Positions(ht_capacity) \cup {NoIndex}
    /\ node \in Positions(ht_capacity) \cup {NoIndex}
    /\ grow_failed \in BOOLEAN /\ spinning \in BOOLEAN

\* Every element is where its probes find it.
TableInv ==
    /\ ht_type_methods = NoType => ht_table = NoElements(ht_capacity) /\ gap = NoIndex
    /\ ht_type_methods # NoType =>
          /\ ht_table \in Tables(ht_capacity, ht_type_methods)
          /\ Distinct(ht_table)
          /\ gap = NoIndex => Reachable(ht_table, ht_capacity, ht_type_methods)
          /\ gap # NoIndex => \E hole \in Positions(ht_capacity) :
                /\ ht_table[hole] = Invalid
                /\ ReachableBut(ht_table, ht_capacity, ht_type_methods, hole, gap)

\* ht_size counts the element that a removal is still taking out.
CountInv ==
    /\ IsFiniteSet(DOMAIN table_contents)
    /\ ht_size = Cardinality(Valid(ht_table)) + (IF gap = NoIndex THEN 0 ELSE 1)
    /\ Cardinality(Valid(ht_table)) = Cardinality(DOMAIN table_contents)
    /\ key_copies = IF ht_type_methods = "ptr" THEN Cardinality(Valid(ht_table)) ELSE 0

\* As long as the table could grow, it has an element that is not valid.
RoomInv ==
    /\ ~grow_failed /\ ht_capacity # 0 => ht_size < ht_capacity
    /\ spinning => grow_failed

\* A traversal has returned the keys of the elements up to the one it is at.
TraversalInv ==
    /\ visited = {ht_table[j].key : j \in {i \in Valid(ht_table) : i <= node}}
    /\ gap # NoIndex => node = NoIndex

HashInv ==
    /\ TypeInv /\ TableInv /\ Holds(ht_table, table_contents)
    /\ CountInv /\ RoomInv /\ TraversalInv

-----------------------------------------------------------------------------
(* Arithmetic *)

\* Dividing by N leaves one remainder.
LEMMA QuotientUnique ==
    ASSUME NEW N \in Nat \ {0}, NEW p \in Int, NEW q \in Int,
           NEW r \in Positions(N), NEW s \in Positions(N), p * N + r = q * N + s
    PROVE  r = s
  <1>1. p - q \in Int /\ (p - q) * N = s - r /\ (q - p) * N = r - s
    BY DEF Positions
  <1>2. CASE p - q >= 1
    <2>1. (p - q) * N >= N
      BY <1>1, <1>2
    <2>. QED
      BY <1>1, <2>1 DEF Positions
  <1>3. CASE p - q <= -1
    <2>1. (q - p) * N >= N
      BY <1>1, <1>3
    <2>. QED
      BY <1>1, <2>1 DEF Positions
  <1>4. CASE p = q
    BY <1>1, <1>4 DEF Positions
  <1>. QED
    BY <1>1, <1>2, <1>3, <1>4

\* The n-th probe goes n steps from the first, around the end.
LEMMA ProbeSteps ==
    ASSUME NEW hash \in Nat, NEW N \in Nat \ {0}, NEW n \in Positions(N)
    PROVE  LET a == hash % N IN
           /\ a \in Positions(N)
           /\ Index(hash, n, N) = (IF a + n < N THEN a + n ELSE a + n - N)
  <1>. DEFINE a == hash % N
              i == (hash + n) % N
  <1>1. hash = (hash \div N) * N + a /\ hash \div N \in Int /\ a \in Positions(N)
    BY DEF Positions
  <1>2. hash + n = ((hash + n) \div N) * N + i /\ (hash + n) \div N \in Int /\ i \in Positions(N)
    <2>1. hash + n \in Nat
      BY DEF Positions
    <2>. QED
      BY <2>1 DEF Positions
  <1>. HIDE DEF a, i
  <1>3. PICK p \in Int : p = hash \div N
    BY <1>1
  <1>4. PICK q \in Int : q = (hash + n) \div N
    BY <1>2
  <1>5. hash = p * N + a /\ hash + n = q * N + i
    BY <1>1, <1>2, <1>3, <1>4
  <1>6. CASE a + n < N
    <2>1. a + n \in Positions(N) /\ p * N + (a + n) = q * N + i
      BY <1>1, <1>5, <1>6 DEF Positions
    <2>. QED
      BY <1>1, <1>2, <1>6, <2>1, QuotientUnique DEF Index, a, i
  <1>7. CASE ~(a + n < N)
    <2>1. PICK r \in Positions(N) : r = a + n - N
      BY <1>1, <1>7 DEF Positions
    <2>2. PICK p1 \in Int : p1 = p + 1
      OBVIOUS
    <2>3. p1 * N + r = q * N + i
      <3>1. p1 * N = p * N + N
        BY <2>2
      <3>. QED
        BY <1>1, <1>5, <2>1, <3>1 DEF Positions
    <2>4. r = i
      BY <1>2, <2>3, QuotientUnique
    <2>. QED
      BY <1>1, <1>7, <2>1, <2>4 DEF Index, a, i
  <1>. QED
    BY <1>6, <1>7

\* The n-th probe is the index n steps from the first, and every index is one of
\* the first N probes.
LEMMA ProbeDistance ==
    ASSUME NEW hash \in Nat, NEW N \in Nat \ {0}
    PROVE  LET a == hash % N IN
           /\ a \in Positions(N)
           /\ \A n \in Positions(N) : /\ Index(hash, n, N) \in Positions(N)
                                    /\ Dist(a, Index(hash, n, N), N) = n
           /\ \A i \in Positions(N) : /\ Dist(a, i, N) \in Positions(N)
                                    /\ Index(hash, Dist(a, i, N), N) = i
  <1>. DEFINE a == hash % N
  <1>1. a \in Positions(N)
    BY DEF Positions
  <1>2. ASSUME NEW n \in Positions(N)
        PROVE  Index(hash, n, N) = (IF a + n < N THEN a + n ELSE a + n - N)
    BY ProbeSteps
  <1>. HIDE DEF a
  <1>3. ASSUME NEW n \in Positions(N)
        PROVE  Index(hash, n, N) \in Positions(N) /\ Dist(a, Index(hash, n, N), N) = n
    BY <1>1, <1>2 DEF Positions, Dist
  <1>4. ASSUME NEW i \in Positions(N)
        PROVE  Dist(a, i, N) \in Positions(N) /\ Index(hash, Dist(a, i, N), N) = i
    <2>1. Dist(a, i, N) \in Positions(N)
      BY <1>1 DEF Positions, Dist
    <2>. QED
      BY <1>1, <1>2, <2>1 DEF Positions, Dist
  <1>. QED
    BY <1>1, <1>3, <1>4 DEF a

\* Two indices that are as far away are the same.
LEMMA DistanceUnique ==
    ASSUME NEW N \in Nat \ {0}, NEW a \in Positions(N), NEW i \in Positions(N), NEW j \in Positions(N)
    PROVE  /\ Dist(a, i, N) \in Positions(N)
           /\ Dist(a, i, N) = Dist(a, j, N) => i = j
  BY DEF Positions, Dist

\* A probe stops at the first of its stops.
LEMMA ProbeStops ==
    ASSUME NEW hash \in Nat, NEW N \in Nat \ {0}, NEW stops
    PROVE  LET a == hash % N
               r == FirstProbe(hash, N, stops)
           IN  /\ stops \cap Positions(N) = {} => r = NoIndex
               /\ stops \cap Positions(N) # {} =>
                     /\ r \in stops \cap Positions(N)
                     /\ \A j \in stops \cap Positions(N) : Dist(a, r, N) <= Dist(a, j, N)
  <1>. DEFINE a == hash % N
              ns == {n \in 0..(N - 1) : Index(hash, n, N) \in stops}
  <1>1. /\ \A n \in ns : Index(hash, n, N) \in stops \cap Positions(N)
        /\ \A j \in stops \cap Positions(N) : Dist(a, j, N) \in ns
    BY ProbeDistance DEF Positions
  <1>2. CASE ns = {}
    BY <1>1, <1>2 DEF FirstProbe
  <1>3. CASE ns # {}
    <2>. DEFINE m == CHOOSE n \in ns : \A k \in ns : n <= k
    <2>1. ns \in SUBSET Nat
      OBVIOUS
    <2>2. m \in ns /\ \A k \in ns : m <= k
      <3>. HIDE DEF ns
      <3>. QED
        BY <1>3, <2>1, LeastElement
    <2>3. FirstProbe(hash, N, stops) = Index(hash, m, N)
      BY <1>3 DEF FirstProbe
    <2>4. Dist(a, Index(hash, m, N), N) = m
      BY <2>2, ProbeDistance DEF Positions
    <2>. HIDE DEF m, ns, a
    <2>5. /\ FirstProbe(hash, N, stops) \in stops \cap Positions(N)
          /\ \A j \in stops \cap Positions(N) : Dist(a, FirstProbe(hash, N, stops), N) <= Dist(a, j, N)
      BY <1>1, <2>2, <2>3, <2>4
    <2>. QED
      BY <2>5 DEF a
  <1>. QED
    BY <1>2, <1>3

-----------------------------------------------------------------------------
(* Hashes *)

\* A byte is a number.
LEMMA ByteType ==
    ASSUME NEW b \in 0..255
    PROVE  b \in Nat
  OBVIOUS

\* g is the hash of the bytes so far, from the first to the n-th.
HashOf(g, key, n) ==
    /\ g \in [0..n -> Nat]
    /\ \A i \in 0..n : g[i] = IF i = 0 THEN 0 ELSE (31 * g[i - 1] + key[i]) % Word

\* One more byte.
LEMMA HashExtends ==
    ASSUME NEW key \in Seq(0..255), NEW m \in 1..Len(key), NEW g, HashOf(g, key, m - 1)
    PROVE  \E h : HashOf(h, key, m)
  <1>1. key[m] \in Nat /\ m \in Nat
    <2>1. key[m] \in 0..255
      BY ElementOfSeq
    <2>2. Len(key) \in Nat
      OBVIOUS
    <2>3. m \in Nat
      BY <2>2
    <2>4. key[m] \in Nat
      BY <2>1, ByteType
    <2>. QED
      BY <2>3, <2>4
  <1>2. g[m - 1] \in Nat /\ 31 * g[m - 1] + key[m] \in Nat
    BY <1>1 DEF HashOf
  <1>3. PICK v \in Nat : v = (31 * g[m - 1] + key[m]) % Word
    BY <1>2, HashTableAssumption
  <1>. DEFINE h == [i \in 0..m |-> IF i = m THEN v ELSE g[i]]
  <1>4. h \in [0..m -> Nat]
    BY <1>1 DEF HashOf
  <1>5. ASSUME NEW i \in 0..m
        PROVE  h[i] = IF i = 0 THEN 0 ELSE (31 * h[i - 1] + key[i]) % Word
    <2>1. CASE i = m
      <3>1. h[i] = v /\ h[i - 1] = g[m - 1] /\ i # 0
        BY <1>1, <2>1
      <3>. QED
        BY <1>3, <2>1, <3>1
    <2>2. CASE i # m
      <3>1. i \in 0..(m - 1) /\ h[i] = g[i] /\ (i # 0 => h[i - 1] = g[i - 1])
        BY <1>1, <2>2
      <3>. QED
        BY <3>1 DEF HashOf
    <2>. QED
      BY <2>1, <2>2
  <1>6. HashOf(h, key, m)
    <2>. HIDE DEF h
    <2>. QED
      BY <1>4, <1>5 DEF HashOf
  <1>. QED
    BY <1>6

\* A function that satisfies the recursion of hash_key_ptr exists.
LEMMA HashExists ==
    ASSUME NEW key \in Seq(0..255)
    PROVE  \E g : HashOf(g, key, Len(key))
  <1>. DEFINE S == {n \in 0..Len(key) : ~\E g : HashOf(g, key, n)}
  <1>1. ASSUME S # {}
        PROVE  FALSE
    <2>1. PICK m \in S : \A j \in S : m <= j
      <3>1. S \in SUBSET Nat
        OBVIOUS
      <3>. HIDE DEF S
      <3>. QED
        BY <1>1, <3>1, LeastElement
    <2>2. CASE m = 0
      <3>. DEFINE g == [i \in 0..0 |-> 0]
      <3>1. HashOf(g, key, 0)
        BY DEF HashOf
      <3>. HIDE DEF g
      <3>. QED
        BY <2>2, <3>1
    <2>3. CASE m # 0
      <3>1. m \in 1..Len(key) /\ m - 1 \in 0..Len(key) /\ ~(m <= m - 1)
        BY <2>3
      <3>2. m - 1 \notin S
        BY <2>1, <3>1
      <3>3. PICK g : HashOf(g, key, m - 1)
        BY <3>1, <3>2
      <3>4. \E h : HashOf(h, key, m)
        BY <3>1, <3>3, HashExtends
      <3>. QED
        BY <3>4
    <2>. QED
      BY <2>2, <2>3
  <1>2. Len(key) \in 0..Len(key)
    OBVIOUS
  <1>. QED
    BY <1>1, <1>2

\* hash_key_ptr is a number.
LEMMA HashKeyType ==
    ASSUME NEW key \in Seq(0..255)
    PROVE  hash_key_ptr(key) \in Nat
  <1>. DEFINE f == CHOOSE hash : hash = [n \in 0..Len(key) |->
                     IF n = 0 THEN 0 ELSE (31 * hash[n - 1] + key[n]) % Word]
  <1>1. hash_key_ptr(key) = f[Len(key)]
    BY DEF hash_key_ptr
  <1>2. \E g : g = [n \in 0..Len(key) |->
                     IF n = 0 THEN 0 ELSE (31 * g[n - 1] + key[n]) % Word]
    <2>1. PICK g : HashOf(g, key, Len(key))
      BY HashExists
    <2>2. g = [n \in 0..Len(key) |->
                     IF n = 0 THEN 0 ELSE (31 * g[n - 1] + key[n]) % Word]
      BY <2>1 DEF HashOf
    <2>. QED
      BY <2>2
  <1>3. f = [n \in 0..Len(key) |->
                     IF n = 0 THEN 0 ELSE (31 * f[n - 1] + key[n]) % Word]
    BY <1>2
  <1>. HIDE DEF f
  <1>. DEFINE S == {n \in 0..Len(key) : f[n] \notin Nat}
  <1>4. ASSUME S # {}
        PROVE  FALSE
    <2>1. PICK m \in S : \A j \in S : m <= j
      <3>1. S \in SUBSET Nat
        OBVIOUS
      <3>. HIDE DEF S
      <3>. QED
        BY <1>4, <3>1, LeastElement
    <2>2. m # 0
      BY <1>3
    <2>3. m \in 1..Len(key) /\ m - 1 \in 0..Len(key) /\ ~(m <= m - 1)
      BY <2>2
    <2>4. f[m - 1] \in Nat
      BY <2>1, <2>3
    <2>5. key[m] \in Nat
      <3>1. key[m] \in 0..255
        BY <2>3, ElementOfSeq
      <3>. QED
        BY <3>1, ByteType
    <2>6. 31 * f[m - 1] + key[m] \in Nat
      BY <2>4, <2>5
    <2>7. f[m] = (31 * f[m - 1] + key[m]) % Word
      BY <1>3, <2>2
    <2>. QED
      BY <2>6, <2>7, HashTableAssumption
  <1>5. Len(key) \in 0..Len(key)
    OBVIOUS
  <1>. QED
    BY <1>1, <1>4, <1>5

\* So is the hash of a key of any type.
LEMMA HashType ==
    ASSUME NEW type \in Types, NEW key \in KeysOf(type)
    PROVE  Hash(type, key) \in Nat
  <1>1. CASE type = "ptr"
    <2>1. key \in Seq(0..255)
      BY <1>1, HashTableAssumption DEF KeysOf
    <2>. QED
      BY <1>1, <2>1, HashKeyType DEF Hash
  <1>2. CASE type # "ptr"
    <2>1. key \in Nat
      BY <1>2, HashTableAssumption DEF KeysOf, Types
    <2>. QED
      BY <1>2, <2>1 DEF Hash
  <1>. QED
    BY <1>1, <1>2

-----------------------------------------------------------------------------
(* Elements *)

\* A valid element is not Invalid, and has a key of its type and a value.
LEMMA ElementFields ==
    ASSUME NEW type, NEW e \in Element(type)
    PROVE  /\ e # Invalid
           /\ e.key \in KeysOf(type) /\ e.value \in TableValues
  <1>1. e.key \in KeysOf(type) /\ e.value \in TableValues
    BY DEF Element
  <1>2. "key" \in DOMAIN e
    BY DEF Element
  <1>3. "key" \notin DOMAIN Invalid
    BY DEF Invalid
  <1>. QED
    BY <1>1, <1>2, <1>3

\* The element an insertion makes.
LEMMA NewElement ==
    ASSUME NEW type, NEW k \in KeysOf(type), NEW v \in TableValues
    PROVE  LET e == [valid |-> TRUE, key |-> k, value |-> v] IN
           e \in Element(type) /\ e.key = k /\ e.value = v
  BY DEF Element

\* The element a replacement makes.
LEMMA OtherValue ==
    ASSUME NEW type, NEW e \in Element(type), NEW v \in TableValues
    PROVE  LET f == [e EXCEPT !.value = v] IN
           f \in Element(type) /\ f.key = e.key /\ f.value = v
  BY DEF Element

-----------------------------------------------------------------------------
(* Tables *)

Sound(T, N, type) == T \in Tables(N, type) /\ Distinct(T) /\ Reachable(T, N, type)
Put(T, i, e) == [T EXCEPT ![i] = e]

\* The valid elements of a table, which are no more than it has places.
LEMMA ValidElements ==
    ASSUME NEW N \in Nat, NEW type, NEW T \in Tables(N, type)
    PROVE  /\ DOMAIN T = Positions(N)
           /\ Valid(T) \subseteq Positions(N)
           /\ \A i \in Positions(N) : i \in Valid(T) <=> T[i] # Invalid
           /\ \A i \in Valid(T) : T[i] \in Element(type) /\ T[i].key \in KeysOf(type)
           /\ IsFiniteSet(Valid(T)) /\ Cardinality(Valid(T)) \in Nat
           /\ Cardinality(Valid(T)) <= N
           /\ Cardinality(Valid(T)) = N => Valid(T) = Positions(N)
  <1>1. DOMAIN T = Positions(N) /\ Valid(T) = {i \in Positions(N) : T[i] # Invalid}
    BY DEF Tables, Valid
  <1>2. \A i \in Positions(N) : T[i] \in Element(type) \cup {Invalid}
    BY DEF Tables
  <1>3. \A i \in Valid(T) : T[i] \in Element(type) /\ T[i].key \in KeysOf(type)
    BY <1>1, <1>2, ElementFields
  <1>4. IsFiniteSet(Positions(N)) /\ Cardinality(Positions(N)) = N
    <2>1. IsFiniteSet(0..(N - 1)) /\ Cardinality(0..(N - 1)) = IF 0 > N - 1 THEN 0 ELSE (N - 1) - 0 + 1
      BY FS_Interval, 0 \in Int, N - 1 \in Int
    <2>. QED
      BY <2>1 DEF Positions
  <1>5. /\ IsFiniteSet(Valid(T)) /\ Cardinality(Valid(T)) <= Cardinality(Positions(N))
        /\ Cardinality(Valid(T)) = Cardinality(Positions(N)) => Valid(T) = Positions(N)
    BY <1>1, <1>4, FS_Subset
  <1>. QED
    BY <1>1, <1>3, <1>4, <1>5, FS_CardinalityType

\* The first index probed for a key is one of the table's.
LEMMA FirstType ==
    ASSUME NEW type \in Types, NEW key \in KeysOf(type), NEW N \in Nat \ {0}
    PROVE  First(type, key, N) \in Positions(N)
  BY HashType, ProbeDistance DEF First

\* Where a search for a key stops.
Stops(T, N, key) == {i \in 0..(N - 1) : T[i] = Invalid \/ T[i].key = key}

\* A search in a sound table comes to the key if it is there, or to the first free
\* index of its probes, or the table is full.
LEMMA SearchResult ==
    ASSUME NEW type \in Types, NEW N \in Nat \ {0}, NEW T, Sound(T, N, type),
           NEW key \in KeysOf(type)
    PROVE  LET r == FirstProbe(Hash(type, key), N, Stops(T, N, key))
               a == First(type, key, N)
           IN  /\ r = NoIndex => Valid(T) = Positions(N)
               /\ r # NoIndex => r \in Positions(N)
               /\ \A i \in Valid(T) : T[i].key = key => r = i
               /\ r # NoIndex /\ T[r] # Invalid => T[r].key = key
               /\ r # NoIndex /\ T[r] = Invalid =>
                     /\ \A i \in Valid(T) : T[i].key # key
                     /\ \A j \in Positions(N) : Dist(a, j, N) < Dist(a, r, N) => T[j] # Invalid
  <1>. DEFINE r == FirstProbe(Hash(type, key), N, Stops(T, N, key))
              a == First(type, key, N)
              stops == Stops(T, N, key)
  <1>1. Hash(type, key) \in Nat /\ a = Hash(type, key) % N /\ a \in Positions(N)
    BY HashType, FirstType DEF First
  <1>2. /\ stops \cap Positions(N) = stops
        /\ \A i \in Positions(N) : i \in stops <=> T[i] = Invalid \/ T[i].key = key
    BY DEF Stops, Positions
  <1>3. /\ stops = {} => r = NoIndex
        /\ stops # {} => r \in stops /\ r \in Positions(N) /\ \A j \in stops : Dist(a, r, N) <= Dist(a, j, N)
    <2>. HIDE DEF stops
    <2>. QED
      BY <1>1, <1>2, ProbeStops DEF stops
  <1>. HIDE DEF r, a, stops
  <1>4. /\ Valid(T) \subseteq Positions(N)
        /\ \A i \in Positions(N) : i \in Valid(T) <=> T[i] # Invalid
    BY ValidElements DEF Sound
  <1>5. NoIndex \notin Positions(N)
    BY DEF NoIndex, Positions
  <1>6. \A i \in Positions(N) : Dist(a, i, N) \in Nat
    BY <1>1, DistanceUnique DEF Positions
  <1>7. ASSUME NEW i \in Valid(T), T[i].key = key
        PROVE  r = i
    <2>1. i \in stops /\ r \in stops /\ r \in Positions(N) /\ Dist(a, r, N) <= Dist(a, i, N)
      BY <1>2, <1>3, <1>4, <1>7
    <2>2. a = First(type, T[i].key, N)
      BY <1>7 DEF a
    <2>3. CASE Dist(a, r, N) < Dist(a, i, N)
      <3>1. T[r] # Invalid
        BY <2>1, <2>2, <2>3 DEF Sound, Reachable, Before
      <3>2. T[r].key = key /\ r \in Valid(T)
        BY <1>2, <1>4, <2>1, <3>1
      <3>. QED
        BY <1>7, <3>2 DEF Sound, Distinct
    <2>4. CASE Dist(a, r, N) = Dist(a, i, N)
      BY <1>1, <1>4, <2>1, <2>4, DistanceUnique
    <2>. QED
      BY <1>4, <1>6, <2>1, <2>3, <2>4
  <1>8. r = NoIndex => Valid(T) = Positions(N)
    BY <1>2, <1>3, <1>4, <1>5
  <1>9. r # NoIndex => r \in stops /\ r \in Positions(N) /\ \A j \in stops : Dist(a, r, N) <= Dist(a, j, N)
    BY <1>3
  <1>10. r # NoIndex /\ T[r] # Invalid => T[r].key = key
    BY <1>2, <1>9
  <1>11. ASSUME r # NoIndex, T[r] = Invalid
         PROVE  /\ \A i \in Valid(T) : T[i].key # key
                /\ \A j \in Positions(N) : Dist(a, j, N) < Dist(a, r, N) => T[j] # Invalid
    <2>1. \A i \in Valid(T) : T[i].key # key
      BY <1>4, <1>7, <1>11
    <2>2. ASSUME NEW j \in Positions(N), Dist(a, j, N) < Dist(a, r, N), T[j] = Invalid
          PROVE  FALSE
      <3>1. Dist(a, r, N) <= Dist(a, j, N)
        BY <1>2, <1>9, <1>11, <2>2
      <3>. QED
        BY <1>6, <1>9, <1>11, <2>2, <3>1
    <2>. QED
      BY <2>1, <2>2
  <1>. QED
    BY <1>7, <1>8, <1>9, <1>10, <1>11 DEF r, a, stops

\* A new element, at the end of its probes.
LEMMA Inserted ==
    ASSUME NEW type \in Types, NEW N \in Nat \ {0}, NEW T, Sound(T, N, type),
           NEW e \in Element(type), NEW r \in Positions(N), T[r] = Invalid,
           \A i \in Valid(T) : T[i].key # e.key,
           \A j \in Positions(N) :
              Dist(First(type, e.key, N), j, N) < Dist(First(type, e.key, N), r, N)
              => T[j] # Invalid
    PROVE  LET U == Put(T, r, e) IN
           /\ Sound(U, N, type)
           /\ Valid(U) = Valid(T) \cup {r} /\ r \notin Valid(T)
           /\ Cardinality(Valid(U)) = Cardinality(Valid(T)) + 1
           /\ Elements(U) = Elements(T) \cup {e}
  <1>. DEFINE U == Put(T, r, e)
  <1>1. /\ DOMAIN T = Positions(N) /\ Valid(T) \subseteq Positions(N)
        /\ \A i \in Positions(N) : i \in Valid(T) <=> T[i] # Invalid
        /\ IsFiniteSet(Valid(T))
    BY ValidElements DEF Sound
  <1>2. e # Invalid
    BY ElementFields
  <1>3. U \in Tables(N, type)
    BY DEF Sound, Tables, Put
  <1>4. U[r] = e /\ \A i \in Positions(N) : i # r => U[i] = T[i]
    BY <1>1 DEF Put
  <1>. HIDE DEF U
  <1>5. Valid(U) = Valid(T) \cup {r} /\ r \notin Valid(T)
    <2>1. \A i \in Positions(N) : i \in Valid(U) <=> U[i] # Invalid
      BY <1>3, ValidElements
    <2>2. Valid(U) \subseteq Positions(N)
      BY <1>3, ValidElements
    <2>3. \A i \in Positions(N) : i \in Valid(U) <=> i \in Valid(T) \/ i = r
      BY <1>1, <1>2, <1>4, <2>1
    <2>. QED
      BY <1>1, <2>2, <2>3
  <1>6. Distinct(U)
    BY <1>1, <1>4, <1>5 DEF Sound, Distinct
  <1>7. Reachable(U, N, type)
    <2>. SUFFICES ASSUME NEW i \in Valid(U), NEW j \in Positions(N), Before(U, N, type, j, i)
                  PROVE  U[j] # Invalid
      BY DEF Reachable
    <2>1. CASE i = r
      <3>1. Dist(First(type, e.key, N), j, N) < Dist(First(type, e.key, N), r, N)
        BY <1>4, <2>1 DEF Before
      <3>. QED
        BY <1>2, <1>4, <3>1
    <2>2. CASE i # r
      <3>1. i \in Valid(T) /\ Before(T, N, type, j, i)
        BY <1>1, <1>4, <1>5, <2>2 DEF Before
      <3>2. T[j] # Invalid
        BY <3>1 DEF Sound, Reachable
      <3>. QED
        BY <1>2, <1>4, <3>2
    <2>. QED
      BY <2>1, <2>2
  <1>8. Cardinality(Valid(U)) = Cardinality(Valid(T)) + 1
    <2>1. Cardinality(Valid(T) \cup {r}) =
            IF r \in Valid(T) THEN Cardinality(Valid(T)) ELSE Cardinality(Valid(T)) + 1
      BY <1>1, FS_AddElement
    <2>. QED
      BY <1>5, <2>1
  <1>9. Elements(U) = Elements(T) \cup {e}
    BY <1>1, <1>4, <1>5 DEF Elements
  <1>. QED
    BY <1>3, <1>5, <1>6, <1>7, <1>8, <1>9 DEF Sound, U

-----------------------------------------------------------------------------
(* Growth *)

\* An empty table is sound.
LEMMA NoElementsSound ==
    ASSUME NEW type, NEW N \in Nat
    PROVE  /\ Sound(NoElements(N), N, type)
           /\ Valid(NoElements(N)) = {} /\ Elements(NoElements(N)) = {}
  <1>1. NoElements(N) \in Tables(N, type)
    BY DEF NoElements, Tables, Positions
  <1>2. Valid(NoElements(N)) = {}
    BY DEF NoElements, Valid
  <1>. QED
    BY <1>1, <1>2 DEF Sound, Distinct, Reachable, Elements

\* An element of the old table gets a place in the new one.
LEMMA Placed ==
    ASSUME NEW type \in Types, NEW M \in Nat \ {0}, NEW T, Sound(T, M, type),
           NEW e \in Element(type), \A i \in Valid(T) : T[i].key # e.key,
           Cardinality(Valid(T)) < M
    PROVE  LET U == Place(T, e, type, M) IN
           /\ Sound(U, M, type)
           /\ Cardinality(Valid(U)) = Cardinality(Valid(T)) + 1
           /\ Elements(U) = Elements(T) \cup {e}
  <1>. DEFINE free == {i \in 0..(M - 1) : T[i] = Invalid}
              r == FirstProbe(Hash(type, e.key), M, free)
              a == First(type, e.key, M)
  <1>1. e # Invalid /\ e.key \in KeysOf(type)
    BY ElementFields
  <1>2. Place(T, e, type, M) = Put(T, r, e)
    BY <1>1 DEF Place, Put
  <1>3. Hash(type, e.key) \in Nat /\ a = Hash(type, e.key) % M /\ a \in Positions(M)
    BY <1>1, HashType, FirstType DEF First
  <1>4. /\ free \cap Positions(M) = free
        /\ \A i \in Positions(M) : i \in free <=> T[i] = Invalid
    BY DEF Positions
  <1>5. free # {}
    <2>1. /\ Valid(T) # Positions(M) /\ Valid(T) \subseteq Positions(M)
          /\ \A i \in Positions(M) : i \in Valid(T) <=> T[i] # Invalid
      <3>1. Cardinality(Positions(M)) = M
        <4>1. Cardinality(0..(M - 1)) = IF 0 > M - 1 THEN 0 ELSE (M - 1) - 0 + 1
          BY FS_Interval, 0 \in Int, M - 1 \in Int
        <4>. QED
          BY <4>1 DEF Positions
      <3>. QED
        BY <3>1, ValidElements DEF Sound
    <2>2. PICK i \in Positions(M) : i \notin Valid(T)
      BY <2>1
    <2>. QED
      BY <1>4, <2>1, <2>2
  <1>. HIDE DEF free
  <1>6. r \in free /\ \A j \in free : Dist(a, r, M) <= Dist(a, j, M)
    BY <1>3, <1>4, <1>5, ProbeStops
  <1>. HIDE DEF r, a
  <1>7. r \in Positions(M) /\ T[r] = Invalid
    BY <1>4, <1>6
  <1>8. ASSUME NEW j \in Positions(M), Dist(a, j, M) < Dist(a, r, M)
        PROVE  T[j] # Invalid
    <2>1. Dist(a, r, M) \in Nat
      <3>1. Dist(a, r, M) \in Positions(M)
        BY <1>3, <1>7, DistanceUnique
      <3>. QED
        BY <3>1 DEF Positions
    <2>2. Dist(a, j, M) \in Nat
      <3>1. Dist(a, j, M) \in Positions(M)
        BY <1>3, <1>8, DistanceUnique
      <3>. QED
        BY <3>1 DEF Positions
    <2>. QED
      BY <1>4, <1>6, <1>8, <2>1, <2>2
  <1>9. \A j \in Positions(M) :
           Dist(First(type, e.key, M), j, M) < Dist(First(type, e.key, M), r, M)
           => T[j] # Invalid
    BY <1>8 DEF a
  <1>10. LET U == Put(T, r, e) IN
           /\ Sound(U, M, type)
           /\ Cardinality(Valid(U)) = Cardinality(Valid(T)) + 1
           /\ Elements(U) = Elements(T) \cup {e}
    BY <1>7, <1>9, Inserted
  <1>. QED
    BY <1>2, <1>10

\* g holds the new tables with the first elements of the old one placed, up to n.
RehashOf(g, old, type, M, n) ==
    /\ g = [j \in 0..n |-> g[j]]
    /\ \A j \in 0..n : g[j] = IF j = 0 THEN NoElements(M)
                              ELSE Place(g[j - 1], old[j - 1], type, M)

\* A function that satisfies the recursion of Rehashed exists.
LEMMA RehashExists ==
    ASSUME NEW old, NEW type, NEW M, NEW N \in Nat
    PROVE  \E g : RehashOf(g, old, type, M, N)
  <1>. DEFINE S == {n \in 0..N : ~\E g : RehashOf(g, old, type, M, n)}
  <1>1. ASSUME S # {}
        PROVE  FALSE
    <2>1. PICK m \in S : \A j \in S : m <= j
      <3>1. S \in SUBSET Nat
        OBVIOUS
      <3>. HIDE DEF S
      <3>. QED
        BY <1>1, <3>1, LeastElement
    <2>2. CASE m = 0
      <3>. DEFINE g == [j \in 0..0 |-> NoElements(M)]
      <3>1. RehashOf(g, old, type, M, 0)
        BY DEF RehashOf
      <3>. HIDE DEF g
      <3>. QED
        BY <2>2, <3>1
    <2>3. CASE m # 0
      <3>1. m \in 1..N /\ m - 1 \in 0..N /\ ~(m <= m - 1)
        BY <2>3
      <3>2. m - 1 \notin S
        BY <2>1, <3>1
      <3>3. PICK g : RehashOf(g, old, type, M, m - 1)
        BY <3>1, <3>2
      <3>. DEFINE h == [j \in 0..m |-> IF j = m THEN Place(g[m - 1], old[m - 1], type, M)
                                      ELSE g[j]]
      <3>4. h = [j \in 0..m |-> h[j]]
        OBVIOUS
      <3>5. ASSUME NEW j \in 0..m
            PROVE  h[j] = IF j = 0 THEN NoElements(M)
                          ELSE Place(h[j - 1], old[j - 1], type, M)
        <4>1. CASE j = m
          <5>1. h[j] = Place(g[m - 1], old[m - 1], type, M) /\ h[j - 1] = g[m - 1] /\ j # 0
            BY <3>1, <4>1
          <5>. QED
            BY <4>1, <5>1
        <4>2. CASE j # m
          <5>1. j \in 0..(m - 1) /\ h[j] = g[j] /\ (j # 0 => h[j - 1] = g[j - 1])
            BY <3>1, <4>2
          <5>2. g[j] = IF j = 0 THEN NoElements(M) ELSE Place(g[j - 1], old[j - 1], type, M)
            BY <3>3, <5>1 DEF RehashOf
          <5>. HIDE DEF h
          <5>. QED
            BY <5>1, <5>2
        <4>. QED
          BY <4>1, <4>2
      <3>6. RehashOf(h, old, type, M, m)
        <4>. HIDE DEF h
        <4>. QED
          BY <3>4, <3>5 DEF RehashOf
      <3>. HIDE DEF h
      <3>. QED
        BY <3>6
    <2>. QED
      BY <2>2, <2>3
  <1>. QED
    BY <1>1

\* The table that a growth makes holds the same elements, where they are found.
Upto(old, j) == {i \in Valid(old) : i < j}
RehashedTo(T, old, type, M, j) ==
    /\ Sound(T, M, type)
    /\ Cardinality(Valid(T)) = Cardinality(Upto(old, j))
    /\ Elements(T) = {old[i] : i \in Upto(old, j)}

\* One more element of the old table.
LEMMA RehashStep ==
    ASSUME NEW type \in Types, NEW N \in Nat, NEW old \in Tables(N, type), Distinct(old),
           NEW M \in Nat \ {0}, N < M, NEW j \in 1..N, NEW T, RehashedTo(T, old, type, M, j - 1)
    PROVE  RehashedTo(Place(T, old[j - 1], type, M), old, type, M, j)
  <1>. DEFINE e == old[j - 1]
  <1>1. /\ Valid(old) \subseteq Positions(N) /\ Positions(N) \subseteq Nat
        /\ \A i \in Positions(N) : i \in Valid(old) <=> old[i] # Invalid
        /\ \A i \in Valid(old) : old[i] \in Element(type)
        /\ IsFiniteSet(Valid(old)) /\ Cardinality(Valid(old)) <= N
        /\ Cardinality(Valid(old)) \in Nat
    BY ValidElements DEF Positions
  <1>2. j - 1 \in Positions(N) /\ j \in Nat
    BY DEF Positions
  <1>3. CASE e = Invalid
    <2>1. Upto(old, j) = Upto(old, j - 1)
      <3>1. j - 1 \notin Valid(old)
        BY <1>1, <1>2, <1>3
      <3>2. \A i \in Valid(old) : i \in Nat /\ i # j - 1
        BY <1>1, <3>1
      <3>3. \A i \in Valid(old) : i < j <=> i < j - 1
        BY <1>2, <3>2
      <3>. QED
        BY <3>3 DEF Upto
    <2>2. Place(T, e, type, M) = T
      BY <1>3 DEF Place
    <2>. QED
      BY <2>1, <2>2 DEF RehashedTo
  <1>4. CASE e # Invalid
    <2>1. j - 1 \in Valid(old) /\ e \in Element(type)
      BY <1>1, <1>2, <1>4
    <2>2. Upto(old, j) = Upto(old, j - 1) \cup {j - 1} /\ j - 1 \notin Upto(old, j - 1)
      <3>1. \A i \in Valid(old) : i \in Nat
        BY <1>1
      <3>2. \A i \in Valid(old) : i < j <=> i < j - 1 \/ i = j - 1
        BY <1>2, <3>1
      <3>3. ~(j - 1 < j - 1)
        BY <1>2
      <3>. QED
        BY <2>1, <3>2, <3>3 DEF Upto
    <2>3. /\ IsFiniteSet(Upto(old, j - 1)) /\ IsFiniteSet(Upto(old, j))
          /\ Cardinality(Upto(old, j)) <= Cardinality(Valid(old))
      BY <1>1, FS_Subset DEF Upto
    <2>4. /\ Cardinality(Upto(old, j)) = Cardinality(Upto(old, j - 1)) + 1
          /\ Cardinality(Upto(old, j - 1)) \in Nat
      <3>1. Cardinality(Upto(old, j - 1) \cup {j - 1}) =
              IF j - 1 \in Upto(old, j - 1) THEN Cardinality(Upto(old, j - 1))
              ELSE Cardinality(Upto(old, j - 1)) + 1
        BY <2>3, FS_AddElement
      <3>. QED
        BY <2>2, <2>3, <3>1, FS_CardinalityType
    <2>5. Cardinality(Valid(T)) < M
      BY <1>1, <2>3, <2>4 DEF RehashedTo
    <2>6. ASSUME NEW i \in Valid(T)
          PROVE  T[i].key # e.key
      <3>1. T[i] \in {old[n] : n \in Upto(old, j - 1)}
        BY DEF RehashedTo, Elements
      <3>2. PICK n \in Upto(old, j - 1) : T[i] = old[n]
        BY <3>1
      <3>3. n \in Valid(old) /\ n # j - 1
        BY <2>2 DEF Upto
      <3>. QED
        BY <2>1, <3>2, <3>3 DEF Distinct
    <2>. DEFINE U == Place(T, e, type, M)
    <2>7. /\ Sound(U, M, type)
          /\ Cardinality(Valid(U)) = Cardinality(Valid(T)) + 1
          /\ Elements(U) = Elements(T) \cup {e}
      BY <2>1, <2>5, <2>6, Placed DEF RehashedTo
    <2>8. {old[i] : i \in Upto(old, j)} = {old[i] : i \in Upto(old, j - 1)} \cup {e}
      BY <2>2
    <2>. HIDE DEF U, e
    <2>9. RehashedTo(U, old, type, M, j)
      BY <2>4, <2>7, <2>8 DEF RehashedTo
    <2>. QED
      BY <2>9 DEF U, e
  <1>. QED
    BY <1>3, <1>4

\* The table that a growth makes is sound and holds the same elements.
LEMMA RehashedSound ==
    ASSUME NEW type \in Types, ht_capacity \in Nat, NEW old \in Tables(ht_capacity, type),
           Distinct(old), NEW M \in Nat \ {0}, ht_capacity < M
    PROVE  LET U == Rehashed(old, type, M) IN
           /\ Sound(U, M, type)
           /\ Cardinality(Valid(U)) = Cardinality(Valid(old))
           /\ Elements(U) = Elements(old)
  <1>. DEFINE f == CHOOSE table : table = [j \in 0..ht_capacity |->
                     IF j = 0 THEN NoElements(M)
                     ELSE Place(table[j - 1], old[j - 1], type, M)]
  <1>1. Rehashed(old, type, M) = f[ht_capacity]
    BY DEF Rehashed
  <1>2. f = [j \in 0..ht_capacity |-> IF j = 0 THEN NoElements(M)
                                      ELSE Place(f[j - 1], old[j - 1], type, M)]
    <2>1. PICK g : RehashOf(g, old, type, M, ht_capacity)
      BY RehashExists
    <2>2. g = [j \in 0..ht_capacity |-> IF j = 0 THEN NoElements(M)
                                        ELSE Place(g[j - 1], old[j - 1], type, M)]
      BY <2>1 DEF RehashOf
    <2>. QED
      BY <2>2
  <1>. HIDE DEF f
  <1>. DEFINE S == {j \in 0..ht_capacity : ~RehashedTo(f[j], old, type, M, j)}
  <1>3. ASSUME S # {}
        PROVE  FALSE
    <2>1. PICK m \in S : \A j \in S : m <= j
      <3>1. S \in SUBSET Nat
        OBVIOUS
      <3>. HIDE DEF S
      <3>. QED
        BY <1>3, <3>1, LeastElement
    <2>2. CASE m = 0
      <3>1. f[0] = NoElements(M)
        BY <1>2
      <3>2. Upto(old, 0) = {}
        <4>1. Valid(old) \subseteq 0..(ht_capacity - 1)
          BY ValidElements DEF Positions
        <4>2. \A i \in 0..(ht_capacity - 1) : ~(i < 0)
          OBVIOUS
        <4>. QED
          BY <4>1, <4>2 DEF Upto
      <3>3. RehashedTo(f[0], old, type, M, 0)
        BY <3>1, <3>2, NoElementsSound DEF RehashedTo
      <3>. QED
        BY <2>2, <3>3
    <2>3. CASE m # 0
      <3>1. m \in 1..ht_capacity /\ m - 1 \in 0..ht_capacity /\ ~(m <= m - 1)
        BY <2>3
      <3>2. m - 1 \notin S
        BY <2>1, <3>1
      <3>3. RehashedTo(f[m - 1], old, type, M, m - 1)
        BY <3>1, <3>2
      <3>4. f[m] = Place(f[m - 1], old[m - 1], type, M)
        BY <1>2, <3>1
      <3>5. RehashedTo(f[m], old, type, M, m)
        BY <3>1, <3>3, <3>4, RehashStep
      <3>. QED
        BY <3>5
    <2>. QED
      BY <2>2, <2>3
  <1>4. RehashedTo(f[ht_capacity], old, type, M, ht_capacity)
    BY <1>3
  <1>5. Upto(old, ht_capacity) = Valid(old)
    <2>1. Valid(old) \subseteq 0..(ht_capacity - 1)
      BY ValidElements DEF Positions
    <2>2. \A i \in 0..(ht_capacity - 1) : i < ht_capacity
      OBVIOUS
    <2>. QED
      BY <2>1, <2>2 DEF Upto
  <1>. QED
    BY <1>1, <1>4, <1>5 DEF RehashedTo, Elements

-----------------------------------------------------------------------------
(* Replacing and removing *)

\* An element of the same key takes the place of another.
LEMMA Replaced ==
    ASSUME NEW type \in Types, NEW N \in Nat, NEW T, Sound(T, N, type),
           NEW i \in Valid(T), NEW e \in Element(type), e.key = T[i].key
    PROVE  LET U == Put(T, i, e) IN
           /\ Sound(U, N, type)
           /\ Valid(U) = Valid(T)
           /\ Elements(U) = {x \in Elements(T) : x.key # e.key} \cup {e}
  <1>. DEFINE U == Put(T, i, e)
  <1>1. /\ DOMAIN T = Positions(N) /\ Valid(T) \subseteq Positions(N)
        /\ \A j \in Positions(N) : j \in Valid(T) <=> T[j] # Invalid
    BY ValidElements DEF Sound
  <1>2. e # Invalid
    BY ElementFields
  <1>3. U \in Tables(N, type)
    BY DEF Sound, Tables, Put
  <1>4. U[i] = e /\ \A j \in Positions(N) : j # i => U[j] = T[j]
    BY <1>1 DEF Put
  <1>. HIDE DEF U
  <1>5. \A j \in Positions(N) : j \in Valid(U) <=> U[j] # Invalid
    BY <1>3, ValidElements
  <1>6. Valid(U) = Valid(T)
    <2>1. Valid(U) \subseteq Positions(N)
      BY <1>3, ValidElements
    <2>2. \A j \in Positions(N) : j \in Valid(U) <=> j \in Valid(T)
      BY <1>1, <1>2, <1>4, <1>5
    <2>. QED
      BY <1>1, <2>1, <2>2
  <1>7. \A j \in Valid(T) : U[j].key = T[j].key
    BY <1>1, <1>4
  <1>8. Distinct(U)
    BY <1>6, <1>7 DEF Sound, Distinct
  <1>9. Reachable(U, N, type)
    <2>. SUFFICES ASSUME NEW k \in Valid(U), NEW j \in Positions(N), Before(U, N, type, j, k)
                  PROVE  U[j] # Invalid
      BY DEF Reachable
    <2>1. k \in Valid(T) /\ Before(T, N, type, j, k)
      BY <1>6, <1>7 DEF Before
    <2>2. T[j] # Invalid
      BY <2>1 DEF Sound, Reachable
    <2>. QED
      BY <1>1, <1>5, <1>6, <2>2
  <1>10. Elements(U) = {x \in Elements(T) : x.key # e.key} \cup {e}
    <2>1. \A j \in Valid(T) : j # i => T[j].key # e.key
      BY DEF Sound, Distinct
    <2>2. \A x \in Elements(U) : x = e \/ (x \in Elements(T) /\ x.key # e.key)
      BY <1>1, <1>4, <1>6, <2>1 DEF Elements
    <2>3. \A x \in Elements(T) : x.key # e.key => x \in Elements(U)
      BY <1>1, <1>4, <1>6 DEF Elements
    <2>4. e \in Elements(U)
      BY <1>4, <1>6 DEF Elements
    <2>. QED
      BY <2>2, <2>3, <2>4
  <1>. QED
    BY <1>3, <1>6, <1>8, <1>9, <1>10 DEF Sound, U

Following(i, N) == IF i + 1 = N THEN 0 ELSE i + 1

\* The index after another is one step away.
LEMMA NextStep ==
    ASSUME NEW N \in Nat \ {0}, NEW h \in Positions(N), NEW i \in Positions(N), NEW g \in Positions(N)
    PROVE  /\ Following(g, N) \in Positions(N)
           /\ i # g => Following(g, N) # g /\ Dist(g, Following(g, N), N) <= Dist(g, i, N)
           /\ i # g /\ g # h /\ Dist(h, g, N) <= Dist(h, i, N)
                 => Following(g, N) # h /\ Dist(h, Following(g, N), N) <= Dist(h, i, N)
  BY DEF Positions, Following, Dist

\* What lies between two indices comes before the second.
LEMMA Between ==
    ASSUME NEW N \in Nat \ {0}, NEW a \in Positions(N), NEW h \in Positions(N),
           NEW g \in Positions(N), NEW i \in Positions(N),
           Dist(a, h, N) < Dist(a, i, N), Dist(h, g, N) <= Dist(h, i, N), g # i
    PROVE  Dist(a, g, N) < Dist(a, i, N)
  BY DEF Positions, Dist

\* An element becomes invalid.
LEMMA Cleared ==
    ASSUME NEW type, NEW N \in Nat, NEW T \in Tables(N, type), Distinct(T), NEW s \in Valid(T)
    PROVE  LET U == Put(T, s, Invalid) IN
           /\ U \in Tables(N, type) /\ Distinct(U)
           /\ U[s] = Invalid
           /\ \A j \in Positions(N) : j # s => U[j] = T[j]
           /\ Valid(U) = Valid(T) \ {s}
           /\ Cardinality(Valid(U)) = Cardinality(Valid(T)) - 1
           /\ Elements(U) = {x \in Elements(T) : x.key # T[s].key}
  <1>. DEFINE U == Put(T, s, Invalid)
  <1>1. /\ DOMAIN T = Positions(N) /\ Valid(T) \subseteq Positions(N)
        /\ \A j \in Positions(N) : j \in Valid(T) <=> T[j] # Invalid
        /\ IsFiniteSet(Valid(T))
    BY ValidElements
  <1>2. U \in Tables(N, type)
    BY DEF Tables, Put
  <1>3. U[s] = Invalid /\ \A j \in Positions(N) : j # s => U[j] = T[j]
    BY <1>1 DEF Put
  <1>. HIDE DEF U
  <1>4. Valid(U) = Valid(T) \ {s}
    <2>1. /\ Valid(U) \subseteq Positions(N)
          /\ \A j \in Positions(N) : j \in Valid(U) <=> U[j] # Invalid
      BY <1>2, ValidElements
    <2>. QED
      BY <1>1, <1>3, <2>1
  <1>5. Distinct(U)
    BY <1>1, <1>3, <1>4 DEF Distinct
  <1>6. Cardinality(Valid(U)) = Cardinality(Valid(T)) - 1
    <2>1. Cardinality(Valid(T) \ {s}) =
            IF s \in Valid(T) THEN Cardinality(Valid(T)) - 1 ELSE Cardinality(Valid(T))
      BY <1>1, FS_RemoveElement
    <2>. QED
      BY <1>4, <2>1
  <1>7. Elements(U) = {x \in Elements(T) : x.key # T[s].key}
    <2>1. \A x \in Elements(U) : x \in Elements(T) /\ x.key # T[s].key
      BY <1>1, <1>3, <1>4 DEF Elements, Distinct
    <2>2. \A x \in Elements(T) : x.key # T[s].key => x \in Elements(U)
      BY <1>1, <1>3, <1>4 DEF Elements
    <2>. QED
      BY <2>1, <2>2
  <1>. QED
    BY <1>2, <1>3, <1>4, <1>5, <1>6, <1>7 DEF U

\* Only the gap a removal has made may come before an element in its probes.
LEMMA Removed ==
    ASSUME NEW type \in Types, NEW N \in Nat \ {0}, NEW T, Sound(T, N, type), NEW s \in Valid(T)
    PROVE  LET U == Put(T, s, Invalid) IN
           ReachableBut(U, N, type, s, Following(s, N))
  <1>. DEFINE U == Put(T, s, Invalid)
  <1>1. /\ Valid(T) \subseteq Positions(N)
        /\ \A j \in Positions(N) : j # s => U[j] = T[j]
        /\ Valid(U) = Valid(T) \ {s}
    BY ValidElements, Cleared DEF Sound
  <1>. HIDE DEF U
  <1>. SUFFICES ASSUME NEW i \in Valid(U), NEW j \in Positions(N), Before(U, N, type, j, i),
                       U[j] = Invalid
                PROVE  j = s /\ Following(s, N) # s /\ Dist(s, Following(s, N), N) <= Dist(s, i, N)
    BY DEF ReachableBut, U
  <1>2. i \in Valid(T) /\ i # s /\ i \in Positions(N) /\ s \in Positions(N)
    BY <1>1
  <1>3. Before(T, N, type, j, i)
    BY <1>1, <1>2 DEF Before
  <1>4. T[j] # Invalid
    BY <1>2, <1>3 DEF Sound, Reachable
  <1>. QED
    BY <1>1, <1>2, <1>4, NextStep

\* The loop of a removal comes to the element at g, with a gap at hole: either
\* the element comes to itself first, or it moves to the gap and leaves another.
LEMMA Reconsidered ==
    ASSUME NEW type \in Types, NEW N \in Nat \ {0}, NEW T \in Tables(N, type), Distinct(T),
           NEW hole \in Positions(N), T[hole] = Invalid,
           NEW g \in Valid(T), ReachableBut(T, N, type, hole, g)
    PROVE  LET to == FirstProbe(Hash(type, T[g].key), N, {i \in 0..(N - 1) : T[i] = Invalid} \cup {g})
               U == Put(Put(T, to, T[g]), g, Invalid)
           IN  \/ to = g /\ ReachableBut(T, N, type, hole, Following(g, N))
               \/ /\ to # g
                  /\ U \in Tables(N, type) /\ Distinct(U)
                  /\ U[g] = Invalid
                  /\ ReachableBut(U, N, type, g, Following(g, N))
                  /\ Cardinality(Valid(U)) = Cardinality(Valid(T))
                  /\ Elements(U) = Elements(T)
  <1>. DEFINE stops == {i \in 0..(N - 1) : T[i] = Invalid} \cup {g}
              to == FirstProbe(Hash(type, T[g].key), N, stops)
              a == First(type, T[g].key, N)
              V == Put(T, to, T[g])
              U == Put(V, g, Invalid)
  <1>1. /\ DOMAIN T = Positions(N) /\ Valid(T) \subseteq Positions(N)
        /\ \A i \in Positions(N) : i \in Valid(T) <=> T[i] # Invalid
        /\ \A i \in Valid(T) : T[i] \in Element(type) /\ T[i].key \in KeysOf(type)
        /\ IsFiniteSet(Valid(T)) /\ Cardinality(Valid(T)) \in Nat
    BY ValidElements
  <1>2. g \in Positions(N) /\ T[g] # Invalid /\ T[g].key \in KeysOf(type) /\ g # hole
    BY <1>1
  <1>3. Hash(type, T[g].key) \in Nat /\ a = Hash(type, T[g].key) % N /\ a \in Positions(N)
    BY <1>2, HashType, FirstType DEF First
  <1>4. /\ stops \cap Positions(N) = stops
        /\ \A i \in Positions(N) : i \in stops <=> T[i] = Invalid \/ i = g
    BY <1>2 DEF Positions
  <1>5. /\ to \in stops /\ to \in Positions(N)
        /\ \A j \in stops : Dist(a, to, N) <= Dist(a, j, N)
    <2>1. stops # {}
      BY <1>2, <1>4
    <2>. HIDE DEF stops
    <2>2. stops \cap Positions(N) # {}
      BY <1>4, <2>1
    <2>. QED
      BY <1>3, <1>4, <2>2, ProbeStops
  <1>6. \A i \in Positions(N) : Dist(a, i, N) \in Nat
    <2>1. \A i \in Positions(N) : Dist(a, i, N) \in Positions(N)
      BY <1>3, DistanceUnique
    <2>. QED
      BY <2>1 DEF Positions
  <1>. HIDE DEF stops, to, a
  <1>7. CASE to = g
    <2>. SUFFICES ASSUME NEW i \in Valid(T), NEW j \in Positions(N), Before(T, N, type, j, i),
                         T[j] = Invalid
                  PROVE  /\ j = hole /\ Following(g, N) # hole
                         /\ Dist(hole, Following(g, N), N) <= Dist(hole, i, N)
      BY <1>7 DEF ReachableBut, to, stops
    <2>1. j = hole /\ g # hole /\ Dist(hole, g, N) <= Dist(hole, i, N) /\ i \in Positions(N)
      BY <1>1 DEF ReachableBut
    <2>2. i # g
      <3>1. SUFFICES ASSUME i = g
                     PROVE  FALSE
        OBVIOUS
      <3>2. Dist(a, j, N) < Dist(a, g, N)
        BY <3>1 DEF Before, a
      <3>3. Dist(a, g, N) <= Dist(a, j, N)
        BY <1>4, <1>5, <1>7
      <3>. QED
        BY <1>2, <1>6, <3>2, <3>3
    <2>. QED
      BY <1>2, <2>1, <2>2, NextStep
  <1>8. CASE to # g
    <2>1. T[to] = Invalid
      BY <1>4, <1>5, <1>8
    <2>2. V \in Tables(N, type) /\ V[to] = T[g] /\ \A i \in Positions(N) : i # to => V[i] = T[i]
      BY <1>1, <1>2, <1>5 DEF Tables, Put
    <2>3. U \in Tables(N, type)
      BY <2>2 DEF Tables, Put
    <2>4. /\ U[g] = Invalid /\ U[to] = T[g]
          /\ \A i \in Positions(N) : i # to /\ i # g => U[i] = T[i]
      <3>. HIDE DEF V
      <3>1. DOMAIN V = Positions(N)
        BY <2>2, ValidElements
      <3>. QED
        BY <1>2, <1>5, <1>8, <2>2, <3>1 DEF Put
    <2>. HIDE DEF V, U
    <2>5. Valid(U) = (Valid(T) \ {g}) \cup {to} /\ to \notin Valid(T)
      <3>1. /\ Valid(U) \subseteq Positions(N)
            /\ \A i \in Positions(N) : i \in Valid(U) <=> U[i] # Invalid
        BY <2>3, ValidElements
      <3>2. \A i \in Positions(N) : i \in Valid(U) <=> (i \in Valid(T) /\ i # g) \/ i = to
        BY <1>1, <1>2, <1>8, <2>1, <2>4, <3>1
      <3>. QED
        BY <1>1, <1>5, <2>1, <3>1, <3>2
    <2>6. Distinct(U)
      BY <1>1, <2>4, <2>5 DEF Distinct
    <2>7. Cardinality(Valid(U)) = Cardinality(Valid(T))
      <3>1. Cardinality(Valid(T) \ {g}) =
              IF g \in Valid(T) THEN Cardinality(Valid(T)) - 1 ELSE Cardinality(Valid(T))
        BY <1>1, FS_RemoveElement
      <3>2. IsFiniteSet(Valid(T) \ {g})
        BY <1>1, FS_Subset
      <3>3. Cardinality((Valid(T) \ {g}) \cup {to}) =
              IF to \in Valid(T) \ {g} THEN Cardinality(Valid(T) \ {g})
              ELSE Cardinality(Valid(T) \ {g}) + 1
        BY <3>2, FS_AddElement
      <3>. QED
        BY <1>1, <2>5, <3>1, <3>3
    <2>8. Elements(U) = Elements(T)
      <3>1. \A x \in Elements(U) : x \in Elements(T)
        BY <1>1, <2>4, <2>5 DEF Elements
      <3>2. \A x \in Elements(T) : x \in Elements(U)
        BY <1>1, <2>4, <2>5 DEF Elements
      <3>. QED
        BY <3>1, <3>2
    <2>9. ReachableBut(U, N, type, g, Following(g, N))
      <3>. SUFFICES ASSUME NEW i \in Valid(U), NEW j \in Positions(N), Before(U, N, type, j, i),
                           U[j] = Invalid
                    PROVE  /\ j = g /\ Following(g, N) # g
                           /\ Dist(g, Following(g, N), N) <= Dist(g, i, N)
        BY DEF ReachableBut
      <3>1. i \in Positions(N) /\ i # g
        BY <1>1, <1>5, <1>8, <2>5
      <3>2. i = to => j = g
        <4>. SUFFICES ASSUME i = to, j # g
                      PROVE  FALSE
          OBVIOUS
        <4>1. Dist(a, j, N) < Dist(a, to, N)
          BY <2>4 DEF Before, a
        <4>2. j # to
          BY <1>5, <1>6, <4>1
        <4>3. j \in stops
          BY <1>4, <2>4, <4>2
        <4>. QED
          BY <1>5, <1>6, <4>1, <4>3
      <3>3. i # to => j = g
        <4>. SUFFICES ASSUME i # to, j # g
                      PROVE  FALSE
          OBVIOUS
        <4>1. i \in Valid(T) /\ U[i] = T[i]
          BY <2>4, <2>5, <3>1
        <4>2. Before(T, N, type, j, i)
          BY <4>1 DEF Before
        <4>3. j # to /\ T[j] = Invalid
          BY <1>2, <2>4
        <4>4. j = hole /\ Dist(hole, g, N) <= Dist(hole, i, N)
          BY <4>1, <4>2, <4>3 DEF ReachableBut
        <4>5. to # hole
          BY <4>3, <4>4
        <4>6. Before(T, N, type, to, g)
          <5>1. Dist(a, to, N) <= Dist(a, g, N)
            BY <1>2, <1>4, <1>5
          <5>2. Dist(a, to, N) # Dist(a, g, N)
            BY <1>2, <1>3, <1>5, <1>8, DistanceUnique
          <5>. QED
            BY <1>2, <1>5, <1>6, <5>1, <5>2 DEF Before, a
        <4>7. to = hole
          BY <1>5, <2>1, <4>6 DEF ReachableBut
        <4>. QED
          BY <4>5, <4>7
      <3>. QED
        BY <1>2, <3>1, <3>2, <3>3, NextStep
    <2>. QED
      BY <1>8, <2>3, <2>4, <2>6, <2>7, <2>8, <2>9 DEF U, V, to, stops
  <1>. QED
    BY <1>7, <1>8 DEF U, V, to, stops

\* The loop comes to an element that is not valid: no gap is left.
LEMMA Closed ==
    ASSUME NEW type \in Types, NEW N \in Nat \ {0}, NEW T \in Tables(N, type),
           NEW hole \in Positions(N), NEW g \in Positions(N), T[g] = Invalid,
           ReachableBut(T, N, type, hole, g)
    PROVE  Reachable(T, N, type)
  <1>. SUFFICES ASSUME NEW i \in Valid(T), NEW j \in Positions(N), Before(T, N, type, j, i),
                       T[j] = Invalid
                PROVE  FALSE
    BY DEF Reachable
  <1>1. /\ i \in Positions(N) /\ T[i] # Invalid /\ i # g
        /\ First(type, T[i].key, N) \in Positions(N)
    <2>1. i \in Positions(N) /\ T[i] # Invalid /\ T[i].key \in KeysOf(type)
      BY ValidElements
    <2>. QED
      BY <2>1, FirstType
  <1>2. j = hole /\ g # hole /\ Dist(hole, g, N) <= Dist(hole, i, N)
    BY DEF ReachableBut
  <1>3. Before(T, N, type, g, i)
    BY <1>1, <1>2, Between DEF Before
  <1>. QED
    BY <1>2, <1>3 DEF ReachableBut

-----------------------------------------------------------------------------
(* Contents *)

With(c, k, v) == [x \in DOMAIN c \cup {k} |-> IF x = k THEN v ELSE c[x]]
Without(c, k) == [x \in DOMAIN c \ {k} |-> c[x]]

\* The contents after a set.
LEMMA HoldsWith ==
    ASSUME NEW c, NEW T, NEW U, NEW e, Holds(T, c),
           Elements(U) = {x \in Elements(T) : x.key # e.key} \cup {e}
    PROVE  Holds(U, With(c, e.key, e.value))
  <1>1. /\ DOMAIN With(c, e.key, e.value) = DOMAIN c \cup {e.key}
        /\ \A k \in DOMAIN c \cup {e.key} :
              With(c, e.key, e.value)[k] = IF k = e.key THEN e.value ELSE c[k]
    BY DEF With
  <1>2. ASSUME NEW x \in Elements(U)
        PROVE  /\ x.key \in DOMAIN c \cup {e.key}
               /\ x.value = With(c, e.key, e.value)[x.key]
    <2>1. CASE x = e
      BY <1>1, <2>1
    <2>2. CASE x # e
      <3>1. x \in Elements(T) /\ x.key # e.key
        BY <2>2
      <3>2. x.key \in DOMAIN c /\ x.value = c[x.key]
        BY <3>1 DEF Holds
      <3>. QED
        BY <1>1, <3>1, <3>2
    <2>. QED
      BY <2>1, <2>2
  <1>3. ASSUME NEW k \in DOMAIN c \cup {e.key}
        PROVE  \E x \in Elements(U) : x.key = k
    <2>1. CASE k = e.key
      BY <2>1
    <2>2. CASE k # e.key
      <3>1. PICK x \in Elements(T) : x.key = k
        BY <2>2 DEF Holds
      <3>. QED
        BY <2>2, <3>1
    <2>. QED
      BY <2>1, <2>2
  <1>. QED
    BY <1>1, <1>2, <1>3 DEF Holds

\* The contents after a removal.
LEMMA HoldsWithout ==
    ASSUME NEW c, NEW T, NEW U, NEW k, Holds(T, c),
           Elements(U) = {x \in Elements(T) : x.key # k}
    PROVE  Holds(U, Without(c, k))
  <1>1. /\ DOMAIN Without(c, k) = DOMAIN c \ {k}
        /\ \A x \in DOMAIN c \ {k} : Without(c, k)[x] = c[x]
    BY DEF Without
  <1>2. ASSUME NEW x \in Elements(U)
        PROVE  x.key \in DOMAIN c \ {k} /\ x.value = Without(c, k)[x.key]
    <2>1. x \in Elements(T) /\ x.key # k
      OBVIOUS
    <2>2. x.key \in DOMAIN c /\ x.value = c[x.key]
      BY <2>1 DEF Holds
    <2>. QED
      BY <1>1, <2>1, <2>2
  <1>3. ASSUME NEW x \in DOMAIN c \ {k}
        PROVE  \E e \in Elements(U) : e.key = x
    <2>1. PICK e \in Elements(T) : e.key = x
      BY DEF Holds
    <2>. QED
      BY <2>1
  <1>. QED
    BY <1>1, <1>2, <1>3 DEF Holds

\* The keys of the contents are those of the valid elements.
LEMMA HeldKeys ==
    ASSUME NEW c, NEW T, NEW k, Holds(T, c)
    PROVE  k \in DOMAIN c <=> \E i \in Valid(T) : T[i].key = k
  BY DEF Holds, Elements

\* How many keys there are after a set.
LEMMA DomainWith ==
    ASSUME NEW c, NEW k, NEW v, IsFiniteSet(DOMAIN c)
    PROVE  /\ IsFiniteSet(DOMAIN With(c, k, v))
           /\ Cardinality(DOMAIN With(c, k, v)) =
                 IF k \in DOMAIN c THEN Cardinality(DOMAIN c) ELSE Cardinality(DOMAIN c) + 1
  <1>1. DOMAIN With(c, k, v) = DOMAIN c \cup {k}
    BY DEF With
  <1>2. IsFiniteSet(DOMAIN c \cup {k})
    BY FS_AddElement
  <1>3. Cardinality(DOMAIN c \cup {k}) =
          IF k \in DOMAIN c THEN Cardinality(DOMAIN c) ELSE Cardinality(DOMAIN c) + 1
    BY FS_AddElement
  <1>. QED
    BY <1>1, <1>2, <1>3

\* How many keys there are after a removal.
LEMMA DomainWithout ==
    ASSUME NEW c, NEW k \in DOMAIN c, IsFiniteSet(DOMAIN c)
    PROVE  /\ IsFiniteSet(DOMAIN Without(c, k))
           /\ Cardinality(DOMAIN Without(c, k)) = Cardinality(DOMAIN c) - 1
  <1>1. DOMAIN Without(c, k) = DOMAIN c \ {k}
    BY DEF Without
  <1>2. IsFiniteSet(DOMAIN c \ {k})
    BY FS_RemoveElement
  <1>3. Cardinality(DOMAIN c \ {k}) =
          IF k \in DOMAIN c THEN Cardinality(DOMAIN c) - 1 ELSE Cardinality(DOMAIN c)
    BY FS_RemoveElement
  <1>. QED
    BY <1>1, <1>2, <1>3

\* round_capacity_up makes room for one more than it is asked for.
LEMMA RoundedUp ==
    ASSUME NEW x \in Nat
    PROVE  round_capacity_up(x) \in Nat /\ round_capacity_up(x) >= x + 1
  <1>1. PICK R \in Nat \ {0} : R = Round
    BY HashTableAssumption
  <1>2. ((x + R - 1) \div R) * R + 1 >= x + 1
    OBVIOUS
  <1>3. ((x + R - 1) \div R) * R + 1 \in Int
    OBVIOUS
  <1>. QED
    BY <1>1, <1>2, <1>3 DEF round_capacity_up

-----------------------------------------------------------------------------
(* Steps *)

\* What a call for a type finds when it is not refused.
LEMMA TableAccepted ==
    ASSUME HashInv, NEW type \in Types, Accepted(type)
    PROVE  /\ ht_capacity \in Nat \ {0} /\ ht_capacity <= CapacityBound
           /\ Sound(ht_table, ht_capacity, type)
           /\ gap = NoIndex /\ ~spinning
           /\ ht_size = Cardinality(Valid(ht_table)) /\ ht_size \in Nat
           /\ key_copies = IF type = "ptr" THEN ht_size ELSE 0
           /\ ht_type_methods = NoType => Valid(ht_table) = {}
  <1>1. gap = NoIndex /\ ~spinning /\ ht_capacity # 0 /\ ht_type_methods \in {NoType, type}
    BY DEF Accepted, Idle
  <1>2. ht_capacity \in Nat \ {0} /\ ht_capacity <= CapacityBound /\ CapacityBound \in Nat
    BY <1>1, HashTableAssumption DEF HashInv, TypeInv
  <1>3. ht_size = Cardinality(Valid(ht_table)) /\ ht_size \in Nat
    <2>1. Cardinality(Valid(ht_table)) \in Nat
      BY FS_CardinalityType DEF HashInv, CountInv
    <2>. QED
      BY <1>1, <2>1 DEF HashInv, CountInv
  <1>4. CASE ht_type_methods = NoType
    <2>1. ht_table = NoElements(ht_capacity)
      BY <1>4 DEF HashInv, TableInv
    <2>2. Sound(ht_table, ht_capacity, type) /\ Valid(ht_table) = {}
      BY <1>2, <2>1, NoElementsSound
    <2>3. ht_size = 0 /\ key_copies = 0
      BY <1>3, <1>4, <2>2, FS_EmptySet DEF HashInv, CountInv, NoType
    <2>. QED
      BY <1>1, <1>2, <1>3, <2>2, <2>3
  <1>5. CASE ht_type_methods # NoType
    <2>1. ht_type_methods = type
      BY <1>1, <1>5
    <2>2. Sound(ht_table, ht_capacity, type)
      BY <1>1, <1>5, <2>1 DEF HashInv, TableInv, Sound
    <2>. QED
      BY <1>1, <1>2, <1>3, <1>5, <2>1, <2>2 DEF HashInv, CountInv
  <1>. QED
    BY <1>4, <1>5

\* The search of an accepted call.
LEMMA Searched ==
    ASSUME HashInv, NEW type \in Types, NEW key \in KeysOf(type), Accepted(type)
    PROVE  LET r == Search(type, key)
               a == First(type, key, ht_capacity)
           IN  /\ r = NoIndex => grow_failed
               /\ r # NoIndex => r \in Positions(ht_capacity)
               /\ \A i \in Valid(ht_table) : ht_table[i].key = key => r = i
               /\ r # NoIndex /\ ht_table[r] # Invalid => r \in Valid(ht_table) /\ ht_table[r].key = key
               /\ r # NoIndex /\ ht_table[r] = Invalid =>
                     /\ \A i \in Valid(ht_table) : ht_table[i].key # key
                     /\ \A j \in Positions(ht_capacity) :
                           Dist(a, j, ht_capacity) < Dist(a, r, ht_capacity) => ht_table[j] # Invalid
  <1>. DEFINE r == Search(type, key)
              a == First(type, key, ht_capacity)
  <1>1. r = FirstProbe(Hash(type, key), ht_capacity, Stops(ht_table, ht_capacity, key))
    BY DEF Search, Stops
  <1>2. /\ ht_capacity \in Nat \ {0} /\ Sound(ht_table, ht_capacity, type)
        /\ ht_size = Cardinality(Valid(ht_table)) /\ gap = NoIndex
    BY TableAccepted
  <1>3. /\ r = NoIndex => Valid(ht_table) = Positions(ht_capacity)
        /\ r # NoIndex => r \in Positions(ht_capacity)
        /\ \A i \in Valid(ht_table) : ht_table[i].key = key => r = i
        /\ r # NoIndex /\ ht_table[r] # Invalid => ht_table[r].key = key
        /\ r # NoIndex /\ ht_table[r] = Invalid =>
              /\ \A i \in Valid(ht_table) : ht_table[i].key # key
              /\ \A j \in Positions(ht_capacity) :
                    Dist(a, j, ht_capacity) < Dist(a, r, ht_capacity) => ht_table[j] # Invalid
    <2>. HIDE DEF r
    <2>. QED
      BY <1>1, <1>2, SearchResult
  <1>. HIDE DEF r, a
  <1>4. r = NoIndex => grow_failed
    <2>. SUFFICES ASSUME r = NoIndex
                  PROVE  grow_failed
      OBVIOUS
    <2>1. Cardinality(Valid(ht_table)) = ht_capacity
      <3>1. Cardinality(0..(ht_capacity - 1)) =
              IF 0 > ht_capacity - 1 THEN 0 ELSE (ht_capacity - 1) - 0 + 1
        BY <1>2, FS_Interval, 0 \in Int, ht_capacity - 1 \in Int
      <3>2. Valid(ht_table) = 0..(ht_capacity - 1)
        BY <1>3 DEF Positions
      <3>. QED
        BY <1>2, <3>1, <3>2
    <2>2. ~(ht_size < ht_capacity)
      BY <1>2, <2>1
    <2>. QED
      BY <1>2, <2>2 DEF HashInv, RoomInv
  <1>5. r \in Positions(ht_capacity) /\ ht_table[r] # Invalid => r \in Valid(ht_table)
    BY <1>2, ValidElements DEF Sound
  <1>. QED
    BY <1>3, <1>4, <1>5 DEF r, a

\* A state between two calls, without a traversal.
LEMMA Settled ==
    ASSUME NEW type \in Types, ht_type_methods' = type,
           ht_capacity' \in 1..CapacityBound, ht_growth_trigger' = TriggerFor(ht_capacity'),
           Sound(ht_table', ht_capacity', type),
           gap' = NoIndex, node' = NoIndex, visited' = {},
           Holds(ht_table', table_contents'), IsFiniteSet(DOMAIN table_contents'),
           Cardinality(DOMAIN table_contents') = Cardinality(Valid(ht_table')),
           ht_size' = Cardinality(Valid(ht_table')),
           key_copies' = IF type = "ptr" THEN Cardinality(Valid(ht_table')) ELSE 0,
           grow_failed' \in BOOLEAN, spinning' = FALSE,
           ~grow_failed' => ht_size' < ht_capacity'
    PROVE  HashInv'
  <1>1. type # NoType
    BY DEF Types, NoType
  <1>2. ht_capacity' \in 0..CapacityBound /\ ht_capacity' \in Nat
    BY HashTableAssumption
  <1>3. Valid(ht_table)' = Valid(ht_table')
    BY DEF Valid
  <1>4. Valid(ht_table') \subseteq Positions(ht_capacity') /\ Cardinality(Valid(ht_table')) \in Nat
    BY <1>2, ValidElements DEF Sound
  <1>5. TypeInv'
    BY <1>2, <1>4 DEF TypeInv
  <1>6. TableInv'
    BY <1>1 DEF TableInv, Sound
  <1>7. Holds(ht_table, table_contents)'
    BY DEF Holds, Elements, Valid
  <1>8. CountInv'
    <2>1. ht_size' = Cardinality(Valid(ht_table')) + (IF gap' = NoIndex THEN 0 ELSE 1)
      BY <1>4
    <2>. QED
      BY <1>3, <2>1 DEF CountInv
  <1>9. RoomInv'
    BY DEF RoomInv
  <1>10. TraversalInv'
    <2>1. \A i \in Positions(ht_capacity') : ~(i <= -1)
      BY <1>2 DEF Positions
    <2>2. {i \in Valid(ht_table') : i <= node'} = {}
      BY <1>4, <2>1 DEF NoIndex
    <2>. QED
      BY <1>3, <2>2 DEF TraversalInv
  <1>. QED
    BY <1>5, <1>6, <1>7, <1>8, <1>9, <1>10 DEF HashInv

\* A call that changes at most the type, or does not come back.
LEMMA Retyped ==
    ASSUME HashInv, NEW type \in Types, Accepted(type), ht_type_methods' = type,
           UNCHANGED <<ht_table, ht_capacity, ht_size, ht_growth_trigger, gap, node,
                       visited, key_copies, table_contents, grow_failed>>,
           spinning' \in BOOLEAN, spinning' => grow_failed
    PROVE  HashInv'
  <1>1. /\ ht_capacity \in Nat \ {0} /\ Sound(ht_table, ht_capacity, type) /\ gap = NoIndex
        /\ ht_size = Cardinality(Valid(ht_table)) /\ ht_size \in Nat
        /\ key_copies = IF type = "ptr" THEN ht_size ELSE 0
    BY TableAccepted
  <1>2. type # NoType
    BY DEF Types, NoType
  <1>3. TypeInv'
    BY <1>1 DEF HashInv, TypeInv
  <1>4. TableInv'
    BY <1>1, <1>2 DEF TableInv, Sound
  <1>5. Holds(ht_table, table_contents)'
    BY DEF HashInv, Holds, Elements, Valid
  <1>6. Valid(ht_table)' = Valid(ht_table)
    BY DEF Valid
  <1>7. CountInv'
    BY <1>1, <1>6 DEF HashInv, CountInv
  <1>8. RoomInv'
    BY DEF HashInv, RoomInv
  <1>9. TraversalInv'
    BY <1>6 DEF HashInv, TraversalInv
  <1>. QED
    BY <1>3, <1>4, <1>5, <1>7, <1>8, <1>9 DEF HashInv

\* A call that does not come back.
LEMMA SpinsStep ==
    ASSUME HashInv, NEW type \in Types, NEW key \in KeysOf(type), Accepted(type), Spins(type, key)
    PROVE  HashInv'
  <1>1. grow_failed
    BY Searched DEF Spins
  <1>. QED
    BY <1>1, Retyped DEF Spins

\* get_value keeps the invariant.
LEMMA GetStep ==
    ASSUME HashInv, NEW type \in Types, NEW key \in KeysOf(type), GetValue(type, key)
    PROVE  HashInv'
  <1>1. Accepted(type)
    BY DEF GetValue
  <1>2. CASE Spins(type, key)
    BY <1>1, <1>2, SpinsStep
  <1>3. CASE ~Spins(type, key)
    <2>1. ~spinning
      BY <1>1 DEF Accepted, Idle
    <2>2. /\ ht_type_methods' = type /\ spinning' = spinning
          /\ UNCHANGED <<ht_table, ht_capacity, ht_size, ht_growth_trigger, gap, node,
                         visited, key_copies, table_contents, grow_failed>>
      BY <1>3 DEF GetValue
    <2>3. spinning' \in BOOLEAN
      BY <2>2 DEF HashInv, TypeInv
    <2>. QED
      BY <1>1, <2>1, <2>2, <2>3, Retyped
  <1>. QED
    BY <1>2, <1>3

\* What a set does to the table, when it inserts.
LEMMA InsertTable ==
    ASSUME HashInv, NEW type \in Types, NEW key \in KeysOf(type), NEW value \in TableValues,
           Accepted(type), Insert(type, key, value)
    PROVE  /\ ht_capacity' \in 1..CapacityBound
           /\ ht_growth_trigger' = TriggerFor(ht_capacity')
           /\ Sound(ht_table', ht_capacity', type)
           /\ Elements(ht_table') = Elements(ht_table) \cup {[valid |-> TRUE, key |-> key, value |-> value]}
           /\ Cardinality(Valid(ht_table')) = Cardinality(Valid(ht_table)) + 1
           /\ \A i \in Valid(ht_table) : ht_table[i].key # key
           /\ grow_failed' \in BOOLEAN
           /\ ~grow_failed' => ht_size' < ht_capacity'
  <1>. DEFINE e == [valid |-> TRUE, key |-> key, value |-> value]
              r == Search(type, key)
              T == Put(ht_table, r, e)
  <1>1. /\ ht_capacity \in Nat \ {0} /\ ht_capacity <= CapacityBound
        /\ Sound(ht_table, ht_capacity, type) /\ ht_size \in Nat
    BY TableAccepted
  <1>2. e \in Element(type) /\ e.key = key
    BY NewElement
  <1>3. T = [ht_table EXCEPT ![r] = e]
    BY DEF Put
  <1>4. /\ r # NoIndex /\ ht_table[r] = Invalid
        /\ ht_size' = ht_size + 1
        /\ \/ /\ ~Triggered
              /\ ht_table' = T
              /\ UNCHANGED <<ht_capacity, ht_growth_trigger, grow_failed>>
           \/ /\ Triggered
              /\ ht_table' = T
              /\ grow_failed' = TRUE
              /\ UNCHANGED <<ht_capacity, ht_growth_trigger>>
           \/ /\ Triggered /\ NewCapacity <= CapacityBound
              /\ ht_table' = Rehashed(T, type, NewCapacity)
              /\ ht_capacity' = NewCapacity
              /\ ht_growth_trigger' = TriggerFor(NewCapacity)
              /\ UNCHANGED grow_failed
    BY <1>3 DEF Insert
  <1>. HIDE DEF r, T, e
  <1>5. /\ r \in Positions(ht_capacity)
        /\ \A i \in Valid(ht_table) : ht_table[i].key # key
        /\ \A j \in Positions(ht_capacity) :
              Dist(First(type, key, ht_capacity), j, ht_capacity)
                < Dist(First(type, key, ht_capacity), r, ht_capacity) => ht_table[j] # Invalid
    BY <1>4, Searched DEF r
  <1>6. /\ Sound(T, ht_capacity, type)
        /\ Cardinality(Valid(T)) = Cardinality(Valid(ht_table)) + 1
        /\ Elements(T) = Elements(ht_table) \cup {e}
    BY <1>1, <1>2, <1>4, <1>5, Inserted DEF T
  <1>7. /\ ht_growth_trigger = TriggerFor(ht_capacity) /\ grow_failed \in BOOLEAN
        /\ ~grow_failed => ht_size < ht_capacity
    BY <1>1 DEF HashInv, TypeInv, RoomInv
  <1>8. CASE ht_table' = T /\ UNCHANGED <<ht_capacity, ht_growth_trigger>> /\ ~Triggered
                /\ UNCHANGED grow_failed
    <2>1. ht_size' < ht_capacity'
      BY <1>1, <1>4, <1>7, <1>8 DEF Triggered, TriggerFor
    <2>. QED
      BY <1>1, <1>5, <1>6, <1>7, <1>8, <2>1, HashTableAssumption DEF e
  <1>9. CASE ht_table' = T /\ UNCHANGED <<ht_capacity, ht_growth_trigger>> /\ grow_failed' = TRUE
    BY <1>1, <1>5, <1>6, <1>7, <1>9, HashTableAssumption DEF e
  <1>10. CASE /\ NewCapacity <= CapacityBound
              /\ ht_table' = Rehashed(T, type, NewCapacity)
              /\ ht_capacity' = NewCapacity
              /\ ht_growth_trigger' = TriggerFor(NewCapacity)
              /\ UNCHANGED grow_failed
    <2>1. NewCapacity \in Nat /\ NewCapacity >= ht_capacity * 2 + 1
      BY <1>1, RoundedUp DEF NewCapacity
    <2>2. NewCapacity \in Nat \ {0} /\ ht_capacity < NewCapacity
      BY <1>1, <2>1
    <2>. DEFINE R == Rehashed(T, type, NewCapacity)
    <2>3. /\ Sound(R, NewCapacity, type)
          /\ Cardinality(Valid(R)) = Cardinality(Valid(T))
          /\ Elements(R) = Elements(T)
      BY <1>1, <1>6, <2>2, RehashedSound DEF Sound
    <2>4. NewCapacity \in 1..CapacityBound
      BY <1>10, <2>2, HashTableAssumption
    <2>5. ~grow_failed' => ht_size' < ht_capacity'
      BY <1>1, <1>4, <1>7, <1>10, <2>2
    <2>. HIDE DEF R
    <2>. QED
      BY <1>5, <1>6, <1>7, <1>10, <2>3, <2>4, <2>5 DEF e, R
  <1>. QED
    BY <1>4, <1>8, <1>9, <1>10

\* set_value keeps it.
LEMMA SetStep ==
    ASSUME HashInv, NEW type \in Types, NEW key \in KeysOf(type), NEW value \in TableValues,
           SetValue(type, key, value)
    PROVE  HashInv'
  <1>. DEFINE c == With(table_contents, key, value)
  <1>1. Accepted(type)
    BY DEF SetValue
  <1>2. /\ ht_capacity \in Nat \ {0} /\ ht_capacity <= CapacityBound
        /\ Sound(ht_table, ht_capacity, type) /\ gap = NoIndex /\ ~spinning
        /\ ht_size = Cardinality(Valid(ht_table)) /\ ht_size \in Nat
        /\ key_copies = IF type = "ptr" THEN ht_size ELSE 0
    BY <1>1, TableAccepted
  <1>3. /\ Holds(ht_table, table_contents) /\ IsFiniteSet(DOMAIN table_contents)
        /\ Cardinality(DOMAIN table_contents) = Cardinality(Valid(ht_table))
        /\ grow_failed \in BOOLEAN /\ ht_growth_trigger = TriggerFor(ht_capacity)
        /\ ~grow_failed => ht_size < ht_capacity
        /\ spinning \in BOOLEAN
    BY <1>2 DEF HashInv, CountInv, TypeInv, RoomInv
  <1>4. CASE Spins(type, key)
    BY <1>1, <1>4, SpinsStep
  <1>5. CASE ~Spins(type, key)
    <2>1. /\ ht_type_methods' = type
          /\ table_contents' = c
          /\ node' = NoIndex /\ visited' = {} /\ gap' = NoIndex /\ spinning' = FALSE
          /\ Insert(type, key, value) \/ Replace(type, key, value)
      BY <1>2, <1>3, <1>5 DEF SetValue, With
    <2>2. CASE Insert(type, key, value)
      <3>. DEFINE e == [valid |-> TRUE, key |-> key, value |-> value]
      <3>1. /\ ht_capacity' \in 1..CapacityBound
            /\ ht_growth_trigger' = TriggerFor(ht_capacity')
            /\ Sound(ht_table', ht_capacity', type)
            /\ Elements(ht_table') = Elements(ht_table) \cup {e}
            /\ Cardinality(Valid(ht_table')) = Cardinality(Valid(ht_table)) + 1
            /\ \A i \in Valid(ht_table) : ht_table[i].key # key
            /\ grow_failed' \in BOOLEAN
            /\ ~grow_failed' => ht_size' < ht_capacity'
        BY <1>1, <2>2, InsertTable
      <3>2. /\ ht_size' = ht_size + 1
            /\ key_copies' = IF type = "ptr" THEN key_copies + 1 ELSE key_copies
        BY <2>2 DEF Insert
      <3>3. e.key = key /\ e.value = value
        OBVIOUS
      <3>. HIDE DEF e
      <3>4. Elements(ht_table') = {x \in Elements(ht_table) : x.key # e.key} \cup {e}
        BY <3>1, <3>3 DEF Elements
      <3>5. Holds(ht_table', c)
        BY <1>3, <3>3, <3>4, HoldsWith
      <3>6. key \notin DOMAIN table_contents
        BY <1>3, <3>1, HeldKeys
      <3>7. IsFiniteSet(DOMAIN c) /\ Cardinality(DOMAIN c) = Cardinality(Valid(ht_table'))
        BY <1>3, <3>1, <3>6, DomainWith
      <3>8. /\ ht_size' = Cardinality(Valid(ht_table'))
            /\ key_copies' = IF type = "ptr" THEN Cardinality(Valid(ht_table')) ELSE 0
        BY <1>2, <3>1, <3>2
      <3>. HIDE DEF c
      <3>. QED
        BY <2>1, <3>1, <3>5, <3>7, <3>8, Settled
    <2>3. CASE Replace(type, key, value)
      <3>. DEFINE i == Search(type, key)
                  e == [ht_table[i] EXCEPT !.value = value]
                  T == Put(ht_table, i, e)
      <3>1. i # NoIndex /\ ht_table[i] # Invalid
        BY <2>3 DEF Replace, Finds
      <3>2. ht_table' = T
        BY <2>3 DEF Replace, Put
      <3>3. UNCHANGED <<ht_capacity, ht_size, ht_growth_trigger, key_copies, grow_failed>>
        BY <2>3 DEF Replace
      <3>4. i \in Valid(ht_table) /\ ht_table[i].key = key
        BY <1>1, <3>1, Searched
      <3>. HIDE DEF i, T
      <3>5. ht_table[i] \in Element(type)
        BY <1>2, <3>4, ValidElements DEF Sound
      <3>6. e \in Element(type) /\ e.key = ht_table[i].key /\ e.value = value
        BY <3>5, OtherValue
      <3>. HIDE DEF e
      <3>7. /\ Sound(T, ht_capacity, type)
            /\ Valid(T) = Valid(ht_table)
            /\ Elements(T) = {x \in Elements(ht_table) : x.key # e.key} \cup {e}
        BY <1>2, <3>4, <3>6, Replaced DEF T
      <3>8. Holds(T, c)
        BY <1>3, <3>4, <3>6, <3>7, HoldsWith
      <3>9. key \in DOMAIN table_contents
        BY <1>3, <3>4, HeldKeys
      <3>10. IsFiniteSet(DOMAIN c) /\ Cardinality(DOMAIN c) = Cardinality(Valid(T))
        BY <1>3, <3>7, <3>9, DomainWith
      <3>11. ht_capacity' \in 1..CapacityBound
        BY <1>2, <3>3, HashTableAssumption
      <3>12. /\ ht_size' = Cardinality(Valid(T))
             /\ key_copies' = IF type = "ptr" THEN Cardinality(Valid(T)) ELSE 0
             /\ grow_failed' \in BOOLEAN /\ ht_growth_trigger' = TriggerFor(ht_capacity')
             /\ ~grow_failed' => ht_size' < ht_capacity'
        BY <1>2, <1>3, <3>3, <3>7
      <3>13. Sound(ht_table', ht_capacity', type)
        BY <3>2, <3>3, <3>7
      <3>. HIDE DEF c
      <3>. QED
        BY <2>1, <3>2, <3>8, <3>10, <3>11, <3>12, <3>13, Settled
    <2>. QED
      BY <2>1, <2>2, <2>3
  <1>. QED
    BY <1>4, <1>5

\* remove_value, up to its loop, keeps it.
LEMMA RemoveStep ==
    ASSUME HashInv, NEW type \in Types, NEW key \in KeysOf(type), RemoveValue(type, key)
    PROVE  HashInv'
  <1>. DEFINE c == Without(table_contents, key)
              s == Search(type, key)
              T == Put(ht_table, s, Invalid)
  <1>1. Accepted(type)
    BY DEF RemoveValue
  <1>2. /\ ht_capacity \in Nat \ {0} /\ ht_capacity <= CapacityBound
        /\ Sound(ht_table, ht_capacity, type) /\ gap = NoIndex /\ ~spinning
        /\ ht_size = Cardinality(Valid(ht_table)) /\ ht_size \in Nat
        /\ key_copies = IF type = "ptr" THEN ht_size ELSE 0
    BY <1>1, TableAccepted
  <1>3. CASE Spins(type, key)
    BY <1>1, <1>3, SpinsStep
  <1>4. CASE ~Spins(type, key)
    <2>1. /\ s # NoIndex /\ ht_table[s] # Invalid
          /\ ht_table' = T
          /\ gap' = NextIndex(s)
          /\ key_copies' = IF type = "ptr" THEN key_copies - 1 ELSE key_copies
          /\ table_contents' = c
          /\ ht_type_methods' = type
          /\ node' = NoIndex /\ visited' = {}
          /\ UNCHANGED <<ht_capacity, ht_size, ht_growth_trigger, grow_failed, spinning>>
      BY <1>4 DEF RemoveValue, Finds, Put, Without
    <2>. HIDE DEF c, s, T
    <2>2. s \in Valid(ht_table) /\ ht_table[s].key = key /\ s \in Positions(ht_capacity)
      BY <1>1, <2>1, Searched DEF s
    <2>3. gap' = Following(s, ht_capacity) /\ gap' \in Positions(ht_capacity)
      BY <1>2, <2>1, <2>2, NextStep DEF NextIndex, Following
    <2>4. gap' # NoIndex /\ type # NoType
      BY <1>2, <2>3 DEF Positions, NoIndex, Types, NoType
    <2>5. /\ T \in Tables(ht_capacity, type) /\ Distinct(T) /\ T[s] = Invalid
          /\ Cardinality(Valid(T)) = Cardinality(Valid(ht_table)) - 1
          /\ Elements(T) = {x \in Elements(ht_table) : x.key # key}
      BY <1>2, <2>2, Cleared DEF T, Sound
    <2>6. ReachableBut(T, ht_capacity, type, s, Following(s, ht_capacity))
      BY <1>2, <2>2, Removed DEF T
    <2>7. TypeInv'
      BY <1>2, <2>1, <2>3 DEF HashInv, TypeInv
    <2>8. TableInv'
      <3>1. \E hole \in Positions(ht_capacity) :
               T[hole] = Invalid /\ ReachableBut(T, ht_capacity, type, hole, gap')
        BY <2>2, <2>3, <2>5, <2>6
      <3>. QED
        BY <2>1, <2>4, <2>5, <3>1 DEF TableInv
    <2>9. Holds(ht_table, table_contents)'
      <3>1. Holds(T, c)
        BY <2>5, HoldsWithout DEF HashInv, c
      <3>. QED
        BY <2>1, <3>1 DEF Holds, Elements, Valid
    <2>10. CountInv'
      <3>1. key \in DOMAIN table_contents
        BY <2>2, HeldKeys DEF HashInv
      <3>2. /\ IsFiniteSet(DOMAIN table_contents)
            /\ Cardinality(Valid(ht_table)) = Cardinality(DOMAIN table_contents)
        BY DEF HashInv, CountInv
      <3>3. IsFiniteSet(DOMAIN c) /\ Cardinality(DOMAIN c) = Cardinality(DOMAIN table_contents) - 1
        BY <3>1, <3>2, DomainWithout DEF c
      <3>4. Valid(ht_table)' = Valid(T)
        BY <2>1 DEF Valid
      <3>5. /\ ht_size' = Cardinality(Valid(T)) + 1
            /\ Cardinality(Valid(T)) = Cardinality(DOMAIN c)
            /\ key_copies' = IF type = "ptr" THEN Cardinality(Valid(T)) ELSE 0
        BY <1>2, <2>1, <2>5, <3>2, <3>3
      <3>. QED
        BY <2>1, <2>4, <3>3, <3>4, <3>5 DEF CountInv
    <2>11. RoomInv'
      BY <2>1 DEF HashInv, RoomInv
    <2>12. TraversalInv'
      <3>1. Valid(ht_table)' = Valid(T)
        BY <2>1 DEF Valid
      <3>2. Valid(T) \subseteq Positions(ht_capacity)
        BY <1>2, <2>5, ValidElements
      <3>3. \A i \in Positions(ht_capacity) : ~(i <= -1)
        BY <1>2 DEF Positions
      <3>4. {i \in Valid(T) : i <= node'} = {}
        BY <2>1, <3>2, <3>3 DEF NoIndex
      <3>. QED
        BY <2>1, <3>1, <3>4 DEF TraversalInv
    <2>. QED
      BY <2>7, <2>8, <2>9, <2>10, <2>11, <2>12 DEF HashInv
  <1>. QED
    BY <1>3, <1>4

\* While a removal runs.
LEMMA Removing ==
    ASSUME HashInv, gap # NoIndex
    PROVE  /\ ht_capacity \in Nat \ {0} /\ gap \in Positions(ht_capacity)
           /\ ht_type_methods \in Types
           /\ ht_table \in Tables(ht_capacity, ht_type_methods) /\ Distinct(ht_table)
           /\ \E hole \in Positions(ht_capacity) :
                 /\ ht_table[hole] = Invalid
                 /\ ReachableBut(ht_table, ht_capacity, ht_type_methods, hole, gap)
           /\ node = NoIndex /\ visited = {}
           /\ IsFiniteSet(Valid(ht_table)) /\ Cardinality(Valid(ht_table)) \in Nat
  <1>1. ht_capacity \in Nat /\ gap \in Positions(ht_capacity)
    BY HashTableAssumption DEF HashInv, TypeInv
  <1>2. ht_capacity # 0
    BY <1>1 DEF Positions
  <1>3. ht_type_methods # NoType /\ ht_type_methods \in Types
    BY DEF HashInv, TableInv, TypeInv
  <1>4. /\ ht_table \in Tables(ht_capacity, ht_type_methods) /\ Distinct(ht_table)
        /\ \E hole \in Positions(ht_capacity) :
              /\ ht_table[hole] = Invalid
              /\ ReachableBut(ht_table, ht_capacity, ht_type_methods, hole, gap)
    BY <1>3 DEF HashInv, TableInv
  <1>5. /\ Valid(ht_table) \subseteq Positions(ht_capacity)
        /\ IsFiniteSet(Valid(ht_table)) /\ Cardinality(Valid(ht_table)) \in Nat
    BY <1>1, <1>4, ValidElements
  <1>6. node = NoIndex /\ visited = {ht_table[j].key : j \in {i \in Valid(ht_table) : i <= node}}
    BY DEF HashInv, TraversalInv
  <1>7. \A i \in Positions(ht_capacity) : ~(i <= -1)
    BY <1>1 DEF Positions
  <1>8. {i \in Valid(ht_table) : i <= node} = {}
    BY <1>5, <1>6, <1>7 DEF NoIndex
  <1>. QED
    BY <1>1, <1>2, <1>3, <1>4, <1>5, <1>6, <1>8

\* An element that the loop of a removal reconsiders.
LEMMA RemoveNextStep ==
    ASSUME HashInv, RemoveNext
    PROVE  HashInv'
  <1>. DEFINE type == ht_type_methods
              hash == Hash(type, ht_table[gap].key)
              stops == {i \in 0..(ht_capacity - 1) : ht_table[i] = Invalid} \cup {gap}
              to == FirstProbe(hash, ht_capacity, stops)
              T == Put(Put(ht_table, to, ht_table[gap]), gap, Invalid)
  <1>1. /\ gap # NoIndex /\ ht_table[gap] # Invalid
        /\ gap' = NextIndex(gap)
        /\ UNCHANGED <<ht_capacity, ht_size, ht_growth_trigger, ht_type_methods, node,
                       visited, key_copies, table_contents, grow_failed, spinning>>
    BY DEF RemoveNext
  <1>2. ht_table' = IF to = gap THEN ht_table ELSE T
    BY DEF RemoveNext, FreeIndices, Put
  <1>3. /\ ht_capacity \in Nat \ {0} /\ gap \in Positions(ht_capacity)
        /\ type \in Types
        /\ ht_table \in Tables(ht_capacity, type) /\ Distinct(ht_table)
        /\ \E hole \in Positions(ht_capacity) :
              /\ ht_table[hole] = Invalid
              /\ ReachableBut(ht_table, ht_capacity, type, hole, gap)
        /\ node = NoIndex /\ visited = {}
        /\ IsFiniteSet(Valid(ht_table)) /\ Cardinality(Valid(ht_table)) \in Nat
    BY <1>1, Removing
  <1>4. PICK hole \in Positions(ht_capacity) :
            /\ ht_table[hole] = Invalid
            /\ ReachableBut(ht_table, ht_capacity, type, hole, gap)
    BY <1>3
  <1>5. gap \in Valid(ht_table)
    BY <1>1, <1>3, ValidElements
  <1>6. gap' = Following(gap, ht_capacity) /\ gap' \in Positions(ht_capacity) /\ gap' # NoIndex
    BY <1>1, <1>3, NextStep DEF NextIndex, Following, Positions, NoIndex
  <1>7. \/ to = gap /\ ReachableBut(ht_table, ht_capacity, type, hole, Following(gap, ht_capacity))
        \/ /\ to # gap
           /\ T \in Tables(ht_capacity, type) /\ Distinct(T)
           /\ T[gap] = Invalid
           /\ ReachableBut(T, ht_capacity, type, gap, Following(gap, ht_capacity))
           /\ Cardinality(Valid(T)) = Cardinality(Valid(ht_table))
           /\ Elements(T) = Elements(ht_table)
    BY <1>3, <1>4, <1>5, Reconsidered
  <1>. HIDE DEF to, T
  <1>8. /\ ht_table' \in Tables(ht_capacity, type) /\ Distinct(ht_table')
        /\ \E h \in Positions(ht_capacity) :
              ht_table'[h] = Invalid /\ ReachableBut(ht_table', ht_capacity, type, h, gap')
        /\ Cardinality(Valid(ht_table')) = Cardinality(Valid(ht_table))
        /\ Elements(ht_table') = Elements(ht_table)
    BY <1>2, <1>3, <1>4, <1>6, <1>7
  <1>9. TypeInv'
    BY <1>1, <1>6 DEF HashInv, TypeInv
  <1>10. TableInv'
    BY <1>1, <1>3, <1>6, <1>8 DEF TableInv, Types, NoType
  <1>11. Holds(ht_table, table_contents)'
    <2>1. Holds(ht_table', table_contents)
      BY <1>8 DEF HashInv, Holds
    <2>. QED
      BY <1>1, <2>1 DEF Holds, Elements, Valid
  <1>12. Valid(ht_table)' = Valid(ht_table')
    BY DEF Valid
  <1>13. CountInv'
    BY <1>1, <1>6, <1>8, <1>12 DEF HashInv, CountInv
  <1>14. RoomInv'
    BY <1>1 DEF HashInv, RoomInv
  <1>15. TraversalInv'
    <2>1. Valid(ht_table') \subseteq Positions(ht_capacity)
      BY <1>3, <1>8, ValidElements
    <2>2. \A i \in Positions(ht_capacity) : ~(i <= -1)
      BY <1>3 DEF Positions
    <2>3. {i \in Valid(ht_table') : i <= node'} = {}
      BY <1>1, <1>3, <2>1, <2>2 DEF NoIndex
    <2>. QED
      BY <1>1, <1>3, <1>12, <2>3 DEF TraversalInv
  <1>. QED
    BY <1>9, <1>10, <1>11, <1>13, <1>14, <1>15 DEF HashInv

\* The end of that loop.
LEMMA RemoveEndStep ==
    ASSUME HashInv, RemoveEnd
    PROVE  HashInv'
  <1>1. /\ gap # NoIndex /\ ht_table[gap] = Invalid /\ gap' = NoIndex
        /\ ht_size' = ht_size - 1
        /\ UNCHANGED <<ht_table, ht_capacity, ht_growth_trigger, ht_type_methods, node,
                       visited, key_copies, table_contents, grow_failed, spinning>>
    BY DEF RemoveEnd
  <1>2. /\ ht_capacity \in Nat \ {0} /\ gap \in Positions(ht_capacity)
        /\ ht_type_methods \in Types
        /\ ht_table \in Tables(ht_capacity, ht_type_methods) /\ Distinct(ht_table)
        /\ \E hole \in Positions(ht_capacity) :
              /\ ht_table[hole] = Invalid
              /\ ReachableBut(ht_table, ht_capacity, ht_type_methods, hole, gap)
        /\ Cardinality(Valid(ht_table)) \in Nat
    BY <1>1, Removing
  <1>3. Reachable(ht_table, ht_capacity, ht_type_methods)
    BY <1>1, <1>2, Closed
  <1>4. Valid(ht_table)' = Valid(ht_table)
    BY <1>1 DEF Valid
  <1>5. ht_size = Cardinality(Valid(ht_table)) + 1
    BY <1>1 DEF HashInv, CountInv
  <1>6. ht_size' = Cardinality(Valid(ht_table)) /\ ht_size' \in Nat /\ ht_size' < ht_size
    BY <1>1, <1>2, <1>5
  <1>7. TypeInv'
    BY <1>1, <1>6 DEF HashInv, TypeInv
  <1>8. TableInv'
    BY <1>1, <1>2, <1>3 DEF TableInv, Types, NoType
  <1>9. Holds(ht_table, table_contents)'
    BY <1>1 DEF HashInv, Holds, Elements, Valid
  <1>10. CountInv'
    BY <1>1, <1>2, <1>4, <1>6 DEF HashInv, CountInv
  <1>11. RoomInv'
    <2>1. ht_size \in Nat /\ ht_capacity \in Nat
      BY <1>2 DEF HashInv, TypeInv
    <2>. QED
      BY <1>1, <1>6, <2>1 DEF HashInv, RoomInv
  <1>12. TraversalInv'
    BY <1>1, <1>4 DEF HashInv, TraversalInv
  <1>. QED
    BY <1>7, <1>8, <1>9, <1>10, <1>11, <1>12 DEF HashInv

\* A table without elements.
Empty ==
    /\ ht_capacity \in 0..CapacityBound
    /\ ht_table = NoElements(ht_capacity)
    /\ ht_size = 0 /\ ht_growth_trigger = TriggerFor(ht_capacity)
    /\ ht_type_methods = NoType
    /\ gap = NoIndex /\ node = NoIndex /\ visited = {}
    /\ key_copies = 0
    /\ DOMAIN table_contents = {}
    /\ grow_failed \in BOOLEAN /\ spinning = FALSE

\* A table without elements satisfies the invariant.
LEMMA EmptyTable == Empty => HashInv
  <1>. SUFFICES ASSUME Empty
                PROVE  HashInv
    OBVIOUS
  <1>1. ht_capacity \in Nat
    BY HashTableAssumption DEF Empty
  <1>2. Valid(ht_table) = {} /\ Elements(ht_table) = {}
    BY <1>1, NoElementsSound DEF Empty
  <1>3. Cardinality({}) = 0 /\ IsFiniteSet({})
    BY FS_EmptySet
  <1>4. TypeInv
    BY DEF Empty, TypeInv
  <1>5. TableInv
    BY DEF Empty, TableInv
  <1>6. Holds(ht_table, table_contents)
    BY <1>2 DEF Empty, Holds
  <1>7. CountInv
    BY <1>2, <1>3 DEF Empty, CountInv, NoType
  <1>8. RoomInv
    BY <1>1 DEF Empty, RoomInv
  <1>9. TraversalInv
    BY <1>2 DEF Empty, TraversalInv
  <1>. QED
    BY <1>4, <1>5, <1>6, <1>7, <1>8, <1>9 DEF HashInv

\* So does one in the next state.
LEMMA EmptyTableNext == Empty' => HashInv'
  BY EmptyTable, PTL

\* The table that was never initialised.
LEMMA NoCapacity == 0 \in 0..CapacityBound /\ TriggerFor(0) = 0
  <1>1. 0 \div 2 = 0
    OBVIOUS
  <1>. QED
    BY <1>1, HashTableAssumption DEF TriggerFor

\* The invariant holds at first.
LEMMA InitHash == HashInit => HashInv
  <1>1. HashInit => Empty
    BY NoCapacity DEF HashInit, Empty, Nothing
  <1>. QED
    BY <1>1, EmptyTable

\* elt_destructor frees every copy of a key.
LEMMA EmptiedCopies ==
    ASSUME HashInv, Idle
    PROVE  (IF ht_type_methods = "ptr"
            THEN key_copies - Cardinality({i \in DOMAIN ht_table : ht_table[i] # Invalid})
            ELSE key_copies) = 0
  <1>1. Cardinality(Valid(ht_table)) \in Nat
    BY FS_CardinalityType DEF HashInv, CountInv
  <1>2. key_copies = IF ht_type_methods = "ptr" THEN Cardinality(Valid(ht_table)) ELSE 0
    BY DEF HashInv, CountInv
  <1>. QED
    BY <1>1, <1>2 DEF Valid

\* remove_all keeps the invariant.
LEMMA RemoveAllStep ==
    ASSUME HashInv, RemoveAllKeys
    PROVE  HashInv'
  <1>1. gap = NoIndex /\ ~spinning /\ Idle
    BY DEF RemoveAllKeys, Idle
  <1>2. key_copies' = 0
    BY <1>1, EmptiedCopies DEF RemoveAllKeys, Emptied
  <1>3. Empty'
    BY <1>1, <1>2 DEF HashInv, TypeInv, RemoveAllKeys, Emptied, Empty, Nothing
  <1>. QED
    BY <1>3, EmptyTableNext

\* The destructor keeps it.
LEMMA DestructStep ==
    ASSUME HashInv, DestructTable
    PROVE  HashInv'
  <1>1. gap = NoIndex /\ ~spinning /\ Idle
    BY DEF DestructTable, Idle
  <1>2. key_copies' = 0
    BY <1>1, EmptiedCopies DEF DestructTable
  <1>3. Empty'
    BY <1>1, <1>2, NoCapacity DEF HashInv, TypeInv, DestructTable, Empty, Nothing
  <1>. QED
    BY <1>3, EmptyTableNext

\* ocoms_hash_table_init keeps it.
LEMMA TableInitStep ==
    ASSUME HashInv, NEW n \in TableSizes, TableInit(n)
    PROVE  HashInv'
  <1>1. gap = NoIndex /\ ~spinning /\ ht_capacity = 0
    BY DEF TableInit, Idle
  <1>2. Valid(ht_table) = {}
    <2>1. CASE ht_type_methods = NoType
      BY <1>1, <2>1, NoElementsSound DEF HashInv, TableInv
    <2>2. CASE ht_type_methods # NoType
      <3>1. Valid(ht_table) \subseteq Positions(0)
        BY <1>1, <2>2, ValidElements DEF HashInv, TableInv
      <3>. QED
        BY <3>1 DEF Positions
    <2>. QED
      BY <2>1, <2>2
  <1>3. DOMAIN table_contents = {} /\ visited = {} /\ ht_size = 0 /\ key_copies = 0
    <2>1. Elements(ht_table) = {}
      BY <1>2 DEF Elements
    <2>2. DOMAIN table_contents = {}
      BY <2>1 DEF HashInv, Holds
    <2>3. visited = {}
      BY <1>2 DEF HashInv, TraversalInv
    <2>4. Cardinality(Valid(ht_table)) = 0
      BY <1>2, FS_EmptySet
    <2>. QED
      BY <1>1, <2>2, <2>3, <2>4 DEF HashInv, CountInv
  <1>4. node = NoIndex
    BY <1>1 DEF HashInv, TypeInv, Positions
  <1>5. /\ round_capacity_up(n * 2) \in Nat
        /\ round_capacity_up(n * 2) <= CapacityBound => round_capacity_up(n * 2) \in 0..CapacityBound
    <2>1. n \in Nat
      BY HashTableAssumption
    <2>2. n * 2 \in Nat
      BY <2>1
    <2>3. round_capacity_up(n * 2) \in Nat
      BY <2>2, RoundedUp
    <2>. QED
      BY <2>3, HashTableAssumption
  <1>6. Empty'
    BY <1>1, <1>3, <1>4, <1>5 DEF HashInv, TypeInv, TableInit, Empty
  <1>. QED
    BY <1>6, EmptyTableNext

\* A step of a traversal keeps it.
LEMMA GetNextKeyStep ==
    ASSUME HashInv, GetNextKey
    PROVE  HashInv'
  <1>. DEFINE S == NextElements(node)
  <1>1. /\ gap = NoIndex /\ S # {}
        /\ node' = CHOOSE j \in S : \A k \in S : j <= k
        /\ visited' = visited \cup {ht_table[node'].key}
        /\ UNCHANGED <<ht_table, ht_capacity, ht_size, ht_growth_trigger,
                       ht_type_methods, gap, key_copies, table_contents, grow_failed,
                       spinning>>
    BY DEF GetNextKey, Idle
  <1>2. ht_capacity \in Nat /\ node \in Positions(ht_capacity) \cup {-1}
    BY HashTableAssumption DEF HashInv, TypeInv, NoIndex
  <1>3. S \in SUBSET Nat /\ S \subseteq Positions(ht_capacity)
        /\ (\A j \in S : j > node /\ ht_table[j] # Invalid)
        /\ \A j \in Positions(ht_capacity) : j > node /\ ht_table[j] # Invalid => j \in S
    BY <1>2 DEF NextElements, Positions
  <1>4. DOMAIN ht_table = Positions(ht_capacity)
    <2>1. CASE ht_type_methods = NoType
      BY <2>1 DEF HashInv, TableInv, NoElements, Positions
    <2>2. CASE ht_type_methods # NoType
      BY <1>2, <2>2, ValidElements DEF HashInv, TableInv
    <2>. QED
      BY <2>1, <2>2
  <1>5. Valid(ht_table) = {i \in Positions(ht_capacity) : ht_table[i] # Invalid}
    BY <1>4 DEF Valid
  <1>. HIDE DEF S
  <1>6. node' \in S /\ \A k \in S : node' <= k
    BY <1>1, <1>3, LeastElement
  <1>7. {i \in Valid(ht_table) : i <= node'} = {i \in Valid(ht_table) : i <= node} \cup {node'}
    <2>1. node' \in Valid(ht_table) /\ node' \in Nat /\ node' > node
      BY <1>3, <1>5, <1>6
    <2>2. ASSUME NEW i \in Valid(ht_table)
          PROVE  i <= node' <=> i <= node \/ i = node'
      <3>1. i \in Positions(ht_capacity) /\ i \in Nat /\ ht_table[i] # Invalid
        BY <1>2, <1>5 DEF Positions
      <3>2. i > node => node' <= i
        BY <1>3, <1>6, <3>1
      <3>3. node \in Int
        BY <1>2 DEF Positions
      <3>. QED
        BY <2>1, <3>1, <3>2, <3>3
    <2>3. node' <= node'
      BY <2>1
    <2>. QED
      BY <2>1, <2>2, <2>3
  <1>8. Valid(ht_table)' = Valid(ht_table)
    BY <1>1 DEF Valid
  <1>9. TypeInv'
    BY <1>1, <1>3, <1>6 DEF HashInv, TypeInv
  <1>10. TableInv'
    BY <1>1 DEF HashInv, TableInv
  <1>11. Holds(ht_table, table_contents)'
    BY <1>1 DEF HashInv, Holds, Elements, Valid
  <1>12. CountInv'
    BY <1>1, <1>8 DEF HashInv, CountInv
  <1>13. RoomInv'
    BY <1>1 DEF HashInv, RoomInv
  <1>14. TraversalInv'
    BY <1>1, <1>7, <1>8 DEF HashInv, TraversalInv
  <1>. QED
    BY <1>9, <1>10, <1>11, <1>12, <1>13, <1>14 DEF HashInv

\* HashInv is inductive.
LEMMA NextHash == HashInv /\ [HashNext]_tableVars => HashInv'
  <1>. SUFFICES ASSUME HashInv, [HashNext]_tableVars
                PROVE  HashInv'
    OBVIOUS
  <1>1. ASSUME NEW n \in TableSizes, TableInit(n)
        PROVE  HashInv'
    BY <1>1, TableInitStep
  <1>2. CASE RemoveAllKeys
    BY <1>2, RemoveAllStep
  <1>3. CASE DestructTable
    BY <1>3, DestructStep
  <1>4. ASSUME NEW type \in Types, NEW k \in KeysOf(type),
               \/ \E v \in TableValues : SetValue(type, k, v)
               \/ GetValue(type, k) \/ RemoveValue(type, k)
        PROVE  HashInv'
    <2>1. ASSUME NEW v \in TableValues, SetValue(type, k, v)
          PROVE  HashInv'
      BY <2>1, SetStep
    <2>2. CASE GetValue(type, k)
      BY <2>2, GetStep
    <2>3. CASE RemoveValue(type, k)
      BY <2>3, RemoveStep
    <2>. QED
      BY <1>4, <2>1, <2>2, <2>3
  <1>5. ASSUME NEW k \in KeysUint32,
               \/ \E v \in TableValues : SetValueUint32(k, v)
               \/ GetValueUint32(k) \/ RemoveValueUint32(k)
        PROVE  HashInv'
    <2>1. "uint32" \in Types /\ KeysOf("uint32") = KeysUint32
      BY DEF Types, KeysOf
    <2>. QED
      BY <1>4, <1>5, <2>1 DEF SetValueUint32, GetValueUint32, RemoveValueUint32
  <1>6. ASSUME NEW k \in KeysUint64,
               \/ \E v \in TableValues : SetValueUint64(k, v)
               \/ GetValueUint64(k) \/ RemoveValueUint64(k)
        PROVE  HashInv'
    <2>1. "uint64" \in Types /\ KeysOf("uint64") = KeysUint64
      BY DEF Types, KeysOf
    <2>. QED
      BY <1>4, <1>6, <2>1 DEF SetValueUint64, GetValueUint64, RemoveValueUint64
  <1>7. ASSUME NEW k \in KeysPtr,
               \/ \E v \in TableValues : SetValuePtr(k, v)
               \/ GetValuePtr(k) \/ RemoveValuePtr(k)
        PROVE  HashInv'
    <2>1. "ptr" \in Types /\ KeysOf("ptr") = KeysPtr
      BY DEF Types, KeysOf
    <2>. QED
      BY <1>4, <1>7, <2>1 DEF SetValuePtr, GetValuePtr, RemoveValuePtr
  <1>8. CASE RemoveNext
    BY <1>8, RemoveNextStep
  <1>9. CASE RemoveEnd
    BY <1>9, RemoveEndStep
  <1>10. CASE GetNextKey
    BY <1>10, GetNextKeyStep
  <1>11. CASE UNCHANGED tableVars
    BY <1>11 DEF tableVars, HashInv, TypeInv, TableInv, Holds, Elements, Valid, CountInv,
                 RoomInv, TraversalInv, Reachable, ReachableBut, Before, Distinct
  <1>12. CASE HashNext
    <2>1. \/ \E n \in TableSizes : TableInit(n)
          \/ RemoveAllKeys \/ DestructTable
          \/ \E k \in KeysUint32 : \/ \E v \in TableValues : SetValueUint32(k, v)
                                   \/ GetValueUint32(k) \/ RemoveValueUint32(k)
          \/ \E k \in KeysUint64 : \/ \E v \in TableValues : SetValueUint64(k, v)
                                   \/ GetValueUint64(k) \/ RemoveValueUint64(k)
          \/ \E k \in KeysPtr : \/ \E v \in TableValues : SetValuePtr(k, v)
                                \/ GetValuePtr(k) \/ RemoveValuePtr(k)
          \/ RemoveNext \/ RemoveEnd
          \/ GetNextKey
      BY <1>12 DEF HashNext
    <2>. QED
      BY <1>1, <1>2, <1>3, <1>5, <1>6, <1>7, <1>8, <1>9, <1>10, <2>1
  <1>. QED
    BY <1>11, <1>12

-----------------------------------------------------------------------------
(* The property *)

\* What the invariant says of the calls: what was set is found, and a traversal
\* that has come to its end has returned every key.
LEMMA FindsKeys == HashInv => FindsWhatWasSet
  <1>. SUFFICES ASSUME HashInv, Idle, ht_type_methods # NoType, ht_capacity # 0
                PROVE  /\ \A k \in KeysOf(ht_type_methods) :
                             /\ Finds(ht_type_methods, k) <=> k \in DOMAIN table_contents
                             /\ k \in DOMAIN table_contents =>
                                   ht_table[Search(ht_type_methods, k)].value = table_contents[k]
                       /\ node # NoIndex /\ NextElements(node) = {} =>
                             visited = DOMAIN table_contents
    BY DEF FindsWhatWasSet
  <1>. DEFINE type == ht_type_methods
  <1>1. type \in Types /\ Accepted(type)
    BY DEF HashInv, TypeInv, Accepted
  <1>2. ht_capacity \in Nat \ {0} /\ Sound(ht_table, ht_capacity, type)
    BY <1>1, TableAccepted
  <1>3. /\ Valid(ht_table) \subseteq Positions(ht_capacity)
        /\ \A i \in Positions(ht_capacity) : i \in Valid(ht_table) <=> ht_table[i] # Invalid
    BY <1>2, ValidElements DEF Sound
  <1>. HIDE DEF type
  <1>4. ASSUME NEW k \in KeysOf(type)
        PROVE  /\ Finds(type, k) <=> k \in DOMAIN table_contents
               /\ k \in DOMAIN table_contents =>
                     ht_table[Search(type, k)].value = table_contents[k]
    <2>. DEFINE r == Search(type, k)
    <2>1. /\ r # NoIndex => r \in Positions(ht_capacity)
          /\ \A i \in Valid(ht_table) : ht_table[i].key = k => r = i
          /\ r # NoIndex /\ ht_table[r] # Invalid => r \in Valid(ht_table) /\ ht_table[r].key = k
      BY <1>1, Searched
    <2>2. Finds(type, k) <=> r # NoIndex /\ ht_table[r] # Invalid
      BY DEF Finds
    <2>. HIDE DEF r
    <2>3. k \in DOMAIN table_contents <=> \E i \in Valid(ht_table) : ht_table[i].key = k
      BY HeldKeys DEF HashInv
    <2>4. NoIndex \notin Positions(ht_capacity)
      BY <1>2 DEF NoIndex, Positions
    <2>5. Finds(type, k) <=> k \in DOMAIN table_contents
      BY <1>3, <2>1, <2>2, <2>3, <2>4
    <2>6. ASSUME k \in DOMAIN table_contents
          PROVE  ht_table[r].value = table_contents[k]
      <3>1. r \in Valid(ht_table) /\ ht_table[r].key = k
        BY <2>1, <2>3, <2>6
      <3>2. ht_table[r] \in Elements(ht_table)
        BY <3>1 DEF Elements
      <3>. QED
        BY <3>1, <3>2 DEF HashInv, Holds
    <2>. QED
      BY <2>5, <2>6 DEF r
  <1>5. ASSUME node # NoIndex, NextElements(node) = {}
        PROVE  visited = DOMAIN table_contents
    <2>1. node \in Positions(ht_capacity)
      BY <1>5 DEF HashInv, TypeInv
    <2>2. ASSUME NEW i \in Valid(ht_table)
          PROVE  i <= node
      <3>1. i \in Positions(ht_capacity) /\ ht_table[i] # Invalid
        BY <1>3
      <3>2. i \notin (node + 1)..(ht_capacity - 1)
        BY <1>5, <3>1 DEF NextElements
      <3>. QED
        BY <1>2, <2>1, <3>1, <3>2 DEF Positions
    <2>3. visited = {ht_table[j].key : j \in Valid(ht_table)}
      <3>1. {i \in Valid(ht_table) : i <= node} = Valid(ht_table)
        BY <2>2
      <3>. QED
        BY <3>1 DEF HashInv, TraversalInv
    <2>4. \A k : k \in DOMAIN table_contents <=> \E i \in Valid(ht_table) : ht_table[i].key = k
      BY HeldKeys DEF HashInv
    <2>. QED
      BY <2>3, <2>4
  <1>. QED
    BY <1>4, <1>5 DEF type

\* The types.
LEMMA TypesHold == HashInv => HashTypeOK
  <1>. SUFFICES ASSUME HashInv
                PROVE  HashTypeOK
    OBVIOUS
  <1>1. ht_capacity \in 0..CapacityBound /\ ht_capacity \in Nat
    BY HashTableAssumption DEF HashInv, TypeInv
  <1>2. ht_growth_trigger \in Nat
    <2>1. PICK n \in Nat : n = ht_capacity
      BY <1>1
    <2>2. n \div 2 \in Nat
      OBVIOUS
    <2>. QED
      BY <2>1, <2>2 DEF HashInv, TypeInv, TriggerFor
  <1>3. key_copies \in Nat
    BY FS_CardinalityType DEF HashInv, CountInv
  <1>4. /\ DOMAIN ht_table = 0..(ht_capacity - 1)
        /\ \A i \in DOMAIN ht_table : ht_table[i] # Invalid => ht_table[i].value \in TableValues
    <2>1. CASE ht_type_methods = NoType
      BY <2>1 DEF HashInv, TableInv, NoElements
    <2>2. CASE ht_type_methods # NoType
      <3>1. /\ DOMAIN ht_table = Positions(ht_capacity)
            /\ \A i \in Positions(ht_capacity) : i \in Valid(ht_table) <=> ht_table[i] # Invalid
            /\ \A i \in Valid(ht_table) : ht_table[i] \in Element(ht_type_methods)
        BY <1>1, <2>2, ValidElements DEF HashInv, TableInv
      <3>. QED
        BY <3>1, ElementFields DEF Positions
    <2>. QED
      BY <2>1, <2>2
  <1>. QED
    BY <1>1, <1>2, <1>3, <1>4 DEF HashInv, TypeInv, HashTypeOK, Positions

\* The counters.
LEMMA Counts == HashInv => CountsElements
  <1>. SUFFICES ASSUME HashInv, Idle
                PROVE  /\ ht_size = Cardinality(Valid(ht_table))
                       /\ Cardinality(Valid(ht_table)) = Cardinality(DOMAIN table_contents)
                       /\ key_copies = IF ht_type_methods = "ptr"
                                       THEN Cardinality(Valid(ht_table)) ELSE 0
    BY DEF CountsElements, Valid
  <1>1. Cardinality(Valid(ht_table)) \in Nat
    BY FS_CardinalityType DEF HashInv, CountInv
  <1>. QED
    BY <1>1 DEF HashInv, CountInv, Idle

\* ocoms_hash_table_get_value and remove_value find exactly the keys that were set
\* and not removed, with the value set last, whatever the keys and hashes are; the
\* counters agree; and no search goes on for ever while the table could grow.
THEOREM TableFindsKeys == HashSpec => []TableFindsWhatWasSet
  <1>1. HashInv => TableFindsWhatWasSet
    BY FindsKeys, TypesHold, Counts DEF TableFindsWhatWasSet, SearchStops, HashInv, RoomInv
  <1>. QED
    BY <1>1, InitHash, NextHash, PTL DEF HashSpec

-----------------------------------------------------------------------------
(* Linked lists: the nodes of a usable list are a ring, and every node is on *)
(* at most one; inserting, cutting out and moving a part keep the ring.      *)

\* The nodes around a list with items c: its sentinel, the items, and the
\* sentinel again.
NodeAt(l, c, k) == IF k \in 1..Len(c) THEN c[k] ELSE l

Ring(nx, pv, l, c) ==
    \A k \in 0..Len(c) : /\ nx[NodeAt(l, c, k)] = NodeAt(l, c, k + 1)
                         /\ pv[NodeAt(l, c, k + 1)] = NodeAt(l, c, k)

NoRepeats(c) == \A j, k \in 1..Len(c) : c[j] = c[k] => j = k

LinksType ==
    /\ next \in [Nodes -> Nodes \cup {NoItem}]
    /\ prev \in [Nodes -> Nodes \cup {NoItem}]
    /\ length \in [Lists -> Int]
    /\ belong_to \in [Nodes -> Lists \cup {NoItem}]
    /\ contents \in [Lists -> Seq(ListItems)]
    /\ miscounted \subseteq Lists

ListOK(l) ==
    /\ NoRepeats(contents[l])
    /\ \A k \in 1..Len(contents[l]) : belong_to[contents[l][k]] = l
    /\ Usable(l) => Ring(next, prev, l, contents[l]) /\ belong_to[l] = l
    /\ ~Usable(l) => contents[l] = <<>>
    /\ Usable(l) /\ l \notin miscounted => length[l] = Len(contents[l])

LinksInv == LinksType /\ \A l \in Lists : ListOK(l)

-----------------------------------------------------------------------------
\* What SubSeq and \o give, and the two operations on contents.
IsPart(s, c, a, b) ==
    /\ s = SubSeq(c, a, b) /\ Len(s) = b - a + 1
    /\ \A i \in 1..(b - a + 1) : s[i] = c[a + i - 1]

IsJoin(s, c, d) ==
    /\ s = c \o d /\ Len(s) = Len(c) + Len(d)
    /\ \A i \in 1..Len(c) : s[i] = c[i]
    /\ \A i \in (Len(c) + 1)..Len(s) : s[i] = d[i - Len(c)]

IsInsertion(s, c, p, t) ==
    /\ s = InsertedBefore(c, p, t) /\ Len(s) = Len(c) + Len(t)
    /\ \A k \in 1..(p - 1) : s[k] = c[k]
    /\ \A k \in p..(p + Len(t) - 1) : s[k] = t[k - p + 1]
    /\ \A k \in (p + Len(t))..Len(s) : s[k] = c[k - Len(t)]

IsCut(s, c, a, b) ==
    /\ s = CutOut(c, a, b) /\ Len(s) = Len(c) - (b - a)
    /\ \A k \in 1..(a - 1) : s[k] = c[k]
    /\ \A k \in a..Len(s) : s[k] = c[k + (b - a)]

LEMMA Part ==
    ASSUME NEW S, NEW c \in Seq(S), NEW a \in 1..(Len(c) + 1), NEW b \in (a - 1)..Len(c)
    PROVE  \E s \in Seq(S) : IsPart(s, c, a, b)
  <1>0. Len(c) \in Nat /\ a \in Int /\ b \in Int
    BY LenProperties
  <1>1. \A i \in a..b : c[i] \in S
    BY <1>0, ElementOfSeq
  <1>2. /\ SubSeq(c, a, b) \in Seq(S)
        /\ Len(SubSeq(c, a, b)) = IF a <= b THEN b - a + 1 ELSE 0
        /\ \A i \in 1..(b - a + 1) : SubSeq(c, a, b)[i] = c[a + i - 1]
    BY <1>0, <1>1, SubSeqProperties
  <1>3. (IF a <= b THEN b - a + 1 ELSE 0) = b - a + 1
    BY <1>0
  <1>. QED
    BY <1>2, <1>3, Zenon DEF IsPart

LEMMA Joined ==
    ASSUME NEW S, NEW c \in Seq(S), NEW d \in Seq(S)
    PROVE  \E s \in Seq(S) : IsJoin(s, c, d)
  <1>1. PICK s : s = c \o d
    OBVIOUS
  <1>2. PICK n \in Nat, m \in Nat : n = Len(c) /\ m = Len(d)
    BY LenProperties
  <1>3. /\ s \in Seq(S) /\ Len(s) = n + m
        /\ \A i \in 1..(n + m) : s[i] = IF i <= n THEN c[i] ELSE d[i - n]
    BY <1>1, <1>2, ConcatProperties, Zenon
  <1>4. \A i \in 1..n : i \in 1..(n + m) /\ i <= n
    OBVIOUS
  <1>5. \A i \in (n + 1)..(n + m) : i \in 1..(n + m) /\ ~(i <= n)
    OBVIOUS
  <1>. QED
    BY <1>1, <1>2, <1>3, <1>4, <1>5, Zenon DEF IsJoin

LEMMA Insertion ==
    ASSUME NEW S, NEW c \in Seq(S), NEW t \in Seq(S), NEW p \in 1..(Len(c) + 1)
    PROVE  \E s \in Seq(S) : IsInsertion(s, c, p, t)
  <1>0. PICK n \in Nat, m \in Nat : n = Len(c) /\ m = Len(t)
    BY LenProperties
  <1>1. PICK q \in Nat : q = p - 1
    BY <1>0
  <1>2. 1 \in 1..(Len(c) + 1) /\ q \in (1 - 1)..Len(c)
    BY <1>0, <1>1
  <1>3. n \in (p - 1)..Len(c)
    BY <1>0
  <1>4. PICK a \in Seq(S) : IsPart(a, c, 1, q)
    BY <1>2, Part
  <1>5. PICK b \in Seq(S) : IsPart(b, c, p, n)
    BY <1>3, Part
  <1>6. PICK d \in Seq(S) : IsJoin(d, a, t)
    BY Joined
  <1>7. PICK s \in Seq(S) : IsJoin(s, d, b)
    BY Joined
  <1>8. s = InsertedBefore(c, p, t)
    BY <1>0, <1>1, <1>4, <1>5, <1>6, <1>7 DEF InsertedBefore, IsPart, IsJoin
  <1>9. /\ Len(a) = q /\ \A i \in 1..q : a[i] = c[i]
        /\ Len(b) = n - q /\ \A i \in 1..(n - q) : b[i] = c[q + i]
    BY <1>0, <1>1, <1>4, <1>5 DEF IsPart
  <1>10. /\ Len(d) = q + m /\ \A i \in 1..q : d[i] = a[i]
         /\ \A i \in (q + 1)..(q + m) : d[i] = t[i - q]
    BY <1>0, <1>6, <1>9 DEF IsJoin
  <1>11. /\ Len(s) = n + m /\ \A i \in 1..(q + m) : s[i] = d[i]
         /\ \A i \in (q + m + 1)..(n + m) : s[i] = b[i - (q + m)]
    <2>1. q + m + (n - q) = n + m
      BY <1>0, <1>1
    <2>2. /\ Len(s) = Len(d) + Len(b) /\ \A i \in 1..Len(d) : s[i] = d[i]
          /\ \A i \in (Len(d) + 1)..Len(s) : s[i] = b[i - Len(d)]
      BY <1>7 DEF IsJoin
    <2>. QED
      BY <1>9, <1>10, <2>1, <2>2
  <1>12. ASSUME NEW k \in 1..(p - 1) PROVE s[k] = c[k]
    <2>1. k \in 1..q /\ k \in 1..(q + m)
      BY <1>0, <1>1
    <2>. QED
      BY <1>9, <1>10, <1>11, <2>1
  <1>13. \A k \in p..(p + m - 1) : s[k] = t[k - p + 1]
    BY <1>1, <1>10, <1>11
  <1>14. ASSUME NEW k \in (p + m)..(n + m) PROVE s[k] = c[k - m]
    <2>1. k \in (q + m + 1)..(n + m) /\ k - (q + m) \in 1..(n - q) /\ q + (k - (q + m)) = k - m
      BY <1>0, <1>1
    <2>. QED
      BY <1>9, <1>11, <2>1
  <1>. QED
    BY <1>0, <1>8, <1>11, <1>12, <1>13, <1>14 DEF IsInsertion

LEMMA CutShort ==
    ASSUME NEW S, NEW c \in Seq(S), NEW b \in 1..(Len(c) + 1), NEW a \in 1..b
    PROVE  \E s \in Seq(S) : IsCut(s, c, a, b)
  <1>0. PICK n \in Nat : n = Len(c)
    BY LenProperties
  <1>1. PICK q \in Nat : q = a - 1
    BY <1>0
  <1>2. 1 \in 1..(Len(c) + 1) /\ q \in (1 - 1)..Len(c)
    BY <1>0, <1>1
  <1>3. n \in (b - 1)..Len(c)
    BY <1>0
  <1>4. PICK d \in Seq(S) : IsPart(d, c, 1, q)
    BY <1>2, Part
  <1>5. PICK e \in Seq(S) : IsPart(e, c, b, n)
    BY <1>3, Part
  <1>6. PICK s \in Seq(S) : IsJoin(s, d, e)
    BY Joined
  <1>7. s = CutOut(c, a, b)
    BY <1>0, <1>1, <1>4, <1>5, <1>6 DEF CutOut, IsPart, IsJoin
  <1>8. /\ Len(d) = q /\ \A i \in 1..q : d[i] = c[i]
        /\ Len(e) = n - b + 1 /\ \A i \in 1..(n - b + 1) : e[i] = c[b + i - 1]
    BY <1>0, <1>1, <1>4, <1>5 DEF IsPart
  <1>9. /\ Len(s) = n - (b - a) /\ \A i \in 1..q : s[i] = d[i]
        /\ \A i \in (q + 1)..(n - (b - a)) : s[i] = e[i - q]
    <2>1. q + (n - b + 1) = n - (b - a)
      BY <1>0, <1>1
    <2>2. /\ Len(s) = Len(d) + Len(e) /\ \A i \in 1..Len(d) : s[i] = d[i]
          /\ \A i \in (Len(d) + 1)..Len(s) : s[i] = e[i - Len(d)]
      BY <1>6 DEF IsJoin
    <2>. QED
      BY <1>8, <2>1, <2>2
  <1>10. \A k \in 1..(a - 1) : s[k] = c[k]
    BY <1>1, <1>8, <1>9
  <1>11. ASSUME NEW k \in a..(n - (b - a)) PROVE s[k] = c[k + (b - a)]
    <2>1. k \in (q + 1)..(n - (b - a)) /\ k - q \in 1..(n - b + 1) /\ b + (k - q) - 1 = k + (b - a)
      BY <1>0, <1>1
    <2>. QED
      BY <1>8, <1>9, <2>1
  <1>. QED
    BY <1>0, <1>7, <1>9, <1>10, <1>11 DEF IsCut

-----------------------------------------------------------------------------
\* The nodes around a list after an insertion and after a cut.
NodesMoveUp(l, s, c, p, t) ==
    /\ \A k \in 0..(p - 1) : NodeAt(l, s, k) = NodeAt(l, c, k)
    /\ \A k \in 1..Len(t) : NodeAt(l, s, p - 1 + k) = t[k]
    /\ \A k \in (p + Len(t))..(Len(s) + 1) : NodeAt(l, s, k) = NodeAt(l, c, k - Len(t))

LEMMA NodesInserted ==
    ASSUME NEW S, NEW c \in Seq(S), NEW t \in Seq(S), NEW p \in 1..(Len(c) + 1),
           NEW s \in Seq(S), IsInsertion(s, c, p, t), NEW l
    PROVE  NodesMoveUp(l, s, c, p, t)
  <1>1. PICK n \in Nat, m \in Nat : n = Len(c) /\ m = Len(t)
    BY LenProperties
  <1>2. /\ Len(s) = n + m
        /\ \A k \in 1..(p - 1) : s[k] = c[k]
        /\ \A k \in p..(p + m - 1) : s[k] = t[k - p + 1]
        /\ \A k \in (p + m)..(n + m) : s[k] = c[k - m]
    BY <1>1 DEF IsInsertion
  <1>3. \A k \in 0..(p - 1) : NodeAt(l, s, k) = NodeAt(l, c, k)
    BY <1>1, <1>2 DEF NodeAt
  <1>4. ASSUME NEW k \in 1..m PROVE NodeAt(l, s, p - 1 + k) = t[k]
    <2>1. p - 1 + k \in p..(p + m - 1) /\ p - 1 + k \in 1..(n + m) /\ p - 1 + k - p + 1 = k
      BY <1>1
    <2>. QED
      BY <1>2, <2>1 DEF NodeAt
  <1>5. ASSUME NEW k \in (p + m)..(n + m + 1) PROVE NodeAt(l, s, k) = NodeAt(l, c, k - m)
    <2>1. k \in 1..(n + m) <=> k - m \in 1..n
      BY <1>1
    <2>2. k \in 1..(n + m) => k \in (p + m)..(n + m)
      OBVIOUS
    <2>. QED
      BY <1>1, <1>2, <2>1, <2>2 DEF NodeAt
  <1>. QED
    BY <1>1, <1>2, <1>3, <1>4, <1>5 DEF NodesMoveUp

LEMMA NodesCut ==
    ASSUME NEW S, NEW c \in Seq(S), NEW b \in 1..(Len(c) + 1), NEW a \in 1..b,
           NEW s \in Seq(S), IsCut(s, c, a, b), NEW l
    PROVE  /\ \A k \in 0..(a - 1) : NodeAt(l, s, k) = NodeAt(l, c, k)
           /\ \A k \in a..(Len(s) + 1) : NodeAt(l, s, k) = NodeAt(l, c, k + (b - a))
  <1>1. PICK n \in Nat : n = Len(c)
    BY LenProperties
  <1>2. /\ Len(s) = n - (b - a)
        /\ \A k \in 1..(a - 1) : s[k] = c[k]
        /\ \A k \in a..(n - (b - a)) : s[k] = c[k + (b - a)]
    BY <1>1 DEF IsCut
  <1>3. \A k \in 0..(a - 1) : NodeAt(l, s, k) = NodeAt(l, c, k)
    BY <1>1, <1>2 DEF NodeAt
  <1>4. ASSUME NEW k \in a..(n - (b - a) + 1) PROVE NodeAt(l, s, k) = NodeAt(l, c, k + (b - a))
    <2>1. k \in 1..(n - (b - a)) <=> k + (b - a) \in 1..n
      BY <1>1
    <2>2. k \in 1..(n - (b - a)) => k \in a..(n - (b - a))
      OBVIOUS
    <2>. QED
      BY <1>1, <1>2, <2>1, <2>2 DEF NodeAt
  <1>. QED
    BY <1>1, <1>2, <1>3, <1>4

\* Different places are different nodes.
LEMMA NodesDiffer ==
    ASSUME NEW S, NEW c \in Seq(S), NEW l, l \notin S, NoRepeats(c)
    PROVE  /\ \A j, k \in 0..Len(c) : NodeAt(l, c, j) = NodeAt(l, c, k) => j = k
           /\ \A j, k \in 1..(Len(c) + 1) : NodeAt(l, c, j) = NodeAt(l, c, k) => j = k
  <1>1. PICK n \in Nat : n = Len(c) /\ \A k \in 1..n : c[k] # l
    BY LenProperties, ElementOfSeq
  <1>. QED
    BY <1>1 DEF NodeAt, NoRepeats

\* A sequence of nodes that are linked to each other, between x and y.
Chained(nx, pv, t) ==
    \A k \in 1..(Len(t) - 1) : nx[t[k]] = t[k + 1] /\ pv[t[k + 1]] = t[k]

Hooked(nx, pv, x, t, y) ==
    /\ nx[x] = t[1] /\ pv[t[1]] = x
    /\ nx[t[Len(t)]] = y /\ pv[y] = t[Len(t)]

\* The links of a ring but those over the gap before its p-th node.
SameButAt(nx, pv, nx2, pv2, l, c, p) ==
    /\ \A k \in 0..Len(c) : k # p - 1 => nx2[NodeAt(l, c, k)] = nx[NodeAt(l, c, k)]
    /\ \A k \in 1..(Len(c) + 1) : k # p => pv2[NodeAt(l, c, k)] = pv[NodeAt(l, c, k)]

LEMMA RingInserted ==
    ASSUME NEW S, NEW c \in Seq(S), NEW t \in Seq(S), t # <<>>, NEW p \in 1..(Len(c) + 1),
           NEW s \in Seq(S), IsInsertion(s, c, p, t),
           NEW l, NEW nx, NEW pv, NEW nx2, NEW pv2,
           Ring(nx, pv, l, c), SameButAt(nx, pv, nx2, pv2, l, c, p), Chained(nx2, pv2, t),
           Hooked(nx2, pv2, NodeAt(l, c, p - 1), t, NodeAt(l, c, p))
    PROVE  Ring(nx2, pv2, l, s)
  <1>1. PICK n \in Nat, m \in Nat : n = Len(c) /\ m = Len(t) /\ m >= 1
    BY LenProperties, EmptySeq
  <1>2. Len(s) = n + m
    BY <1>1 DEF IsInsertion
  <1>. DEFINE f(k) == NodeAt(l, s, k)
              g(k) == NodeAt(l, c, k)
  <1>3. /\ \A k \in 0..(p - 1) : f(k) = g(k)
        /\ \A k \in 1..m : f(p - 1 + k) = t[k]
        /\ \A k \in (p + m)..(n + m + 1) : f(k) = g(k - m)
    <2>0. NodesMoveUp(l, s, c, p, t)
      BY NodesInserted
    <2>1. /\ \A k \in 0..(p - 1) : f(k) = g(k)
          /\ \A k \in 1..Len(t) : f(p - 1 + k) = t[k]
          /\ \A k \in (p + Len(t))..(Len(s) + 1) : f(k) = g(k - Len(t))
      BY <2>0 DEF NodesMoveUp
    <2>. QED
      BY <1>1, <1>2, <2>1
  <1>4. /\ \A k \in 0..n : nx[g(k)] = g(k + 1) /\ pv[g(k + 1)] = g(k)
        /\ \A k \in 0..n : k # p - 1 => nx2[g(k)] = nx[g(k)]
        /\ \A k \in 1..(n + 1) : k # p => pv2[g(k)] = pv[g(k)]
        /\ \A k \in 1..(m - 1) : nx2[t[k]] = t[k + 1] /\ pv2[t[k + 1]] = t[k]
        /\ nx2[g(p - 1)] = t[1] /\ pv2[t[1]] = g(p - 1)
        /\ nx2[t[m]] = g(p) /\ pv2[g(p)] = t[m]
    BY <1>1 DEF Ring, SameButAt, Chained, Hooked
  <1>. SUFFICES ASSUME NEW k \in 0..(n + m)
                PROVE  nx2[f(k)] = f(k + 1) /\ pv2[f(k + 1)] = f(k)
    BY <1>2, Zenon DEF Ring
  <1>. HIDE DEF f, g
  <1>5. CASE k < p - 1
    <2>1. k \in 0..n /\ k \in 0..(p - 1) /\ k + 1 \in 0..(p - 1) /\ k # p - 1
          /\ k + 1 \in 1..(n + 1) /\ k + 1 # p
      BY <1>1, <1>5
    <2>2. f(k) = g(k) /\ f(k + 1) = g(k + 1)
      BY <1>3, <2>1
    <2>. QED
      BY <1>4, <2>1, <2>2
  <1>6. CASE k = p - 1
    <2>1. k \in 0..(p - 1) /\ 1 \in 1..m /\ p - 1 + 1 = k + 1
      BY <1>1, <1>6
    <2>. QED
      BY <1>3, <1>4, <1>6, <2>1
  <1>7. CASE k > p - 1 /\ k < p - 1 + m
    <2>1. PICK j \in 1..(m - 1) : j = k - (p - 1)
      BY <1>1, <1>7
    <2>2. j \in 1..m /\ j + 1 \in 1..m /\ p - 1 + j = k /\ p - 1 + (j + 1) = k + 1
      BY <1>1, <2>1
    <2>3. f(k) = t[j] /\ f(k + 1) = t[j + 1]
      BY <1>3, <2>2
    <2>. QED
      BY <1>4, <2>3
  <1>8. CASE k = p - 1 + m
    <2>1. m \in 1..m /\ k + 1 \in (p + m)..(n + m + 1) /\ k + 1 - m = p
      BY <1>1, <1>8
    <2>2. f(k) = t[m] /\ f(k + 1) = g(p)
      BY <1>3, <1>8, <2>1
    <2>. QED
      BY <1>4, <2>2
  <1>9. CASE k > p - 1 + m
    <2>1. PICK j \in 0..n : j = k - m
      <3>1. k - m \in 0..n
        BY <1>1, <1>9
      <3>. QED
        BY <3>1
    <2>2. /\ k \in (p + m)..(n + m + 1) /\ k + 1 \in (p + m)..(n + m + 1)
          /\ k - m = j /\ k + 1 - m = j + 1 /\ j # p - 1 /\ j + 1 # p /\ j + 1 \in 1..(n + 1)
      BY <1>1, <1>9, <2>1
    <2>3. f(k) = g(j) /\ f(k + 1) = g(j + 1)
      BY <1>3, <2>2
    <2>. QED
      BY <1>4, <2>2, <2>3
  <1>10. \/ k < p - 1 \/ k = p - 1 \/ (k > p - 1 /\ k < p - 1 + m)
         \/ k = p - 1 + m \/ k > p - 1 + m
    BY <1>1
  <1>. QED
    BY <1>5, <1>6, <1>7, <1>8, <1>9, <1>10, Zenon

\* The links of a ring but those of the nodes from the a-th to before the b-th.
SameOutside(nx, pv, nx2, pv2, l, c, a, b) ==
    /\ \A k \in 0..Len(c) : k < a - 1 \/ k >= b => nx2[NodeAt(l, c, k)] = nx[NodeAt(l, c, k)]
    /\ \A k \in 1..(Len(c) + 1) : k < a \/ k > b => pv2[NodeAt(l, c, k)] = pv[NodeAt(l, c, k)]

LEMMA RingCut ==
    ASSUME NEW S, NEW c \in Seq(S), NEW b \in 1..(Len(c) + 1), NEW a \in 1..b,
           NEW s \in Seq(S), IsCut(s, c, a, b),
           NEW l, NEW nx, NEW pv, NEW nx2, NEW pv2,
           Ring(nx, pv, l, c), SameOutside(nx, pv, nx2, pv2, l, c, a, b),
           nx2[NodeAt(l, c, a - 1)] = NodeAt(l, c, b),
           pv2[NodeAt(l, c, b)] = NodeAt(l, c, a - 1)
    PROVE  Ring(nx2, pv2, l, s)
  <1>1. PICK n \in Nat : n = Len(c)
    BY LenProperties
  <1>2. Len(s) = n - (b - a)
    BY <1>1 DEF IsCut
  <1>. DEFINE f(k) == NodeAt(l, s, k)
              g(k) == NodeAt(l, c, k)
  <1>3. /\ \A k \in 0..(a - 1) : f(k) = g(k)
        /\ \A k \in a..(n - (b - a) + 1) : f(k) = g(k + (b - a))
    <2>1. /\ \A k \in 0..(a - 1) : f(k) = g(k)
          /\ \A k \in a..(Len(s) + 1) : f(k) = g(k + (b - a))
      BY NodesCut
    <2>. QED
      BY <1>1, <1>2, <2>1
  <1>4. /\ \A k \in 0..n : nx[g(k)] = g(k + 1) /\ pv[g(k + 1)] = g(k)
        /\ \A k \in 0..n : k < a - 1 \/ k >= b => nx2[g(k)] = nx[g(k)]
        /\ \A k \in 1..(n + 1) : k < a \/ k > b => pv2[g(k)] = pv[g(k)]
        /\ nx2[g(a - 1)] = g(b) /\ pv2[g(b)] = g(a - 1)
    BY <1>1 DEF Ring, SameOutside
  <1>. SUFFICES ASSUME NEW k \in 0..(n - (b - a))
                PROVE  nx2[f(k)] = f(k + 1) /\ pv2[f(k + 1)] = f(k)
    BY <1>2, Zenon DEF Ring
  <1>. HIDE DEF f, g
  <1>5. CASE k < a - 1
    <2>1. k \in 0..n /\ k \in 0..(a - 1) /\ k + 1 \in 0..(a - 1) /\ k + 1 \in 1..(n + 1)
          /\ k + 1 < a
      BY <1>1, <1>5
    <2>. QED
      BY <1>3, <1>4, <1>5, <2>1
  <1>6. CASE k = a - 1
    <2>1. k \in 0..(a - 1) /\ k + 1 \in a..(n - (b - a) + 1) /\ k + 1 + (b - a) = b
      BY <1>1, <1>6
    <2>. QED
      BY <1>3, <1>4, <1>6, <2>1
  <1>7. CASE k > a - 1
    <2>1. PICK j \in 0..n : j = k + (b - a)
      BY <1>1, <1>7
    <2>2. /\ k \in a..(n - (b - a) + 1) /\ k + 1 \in a..(n - (b - a) + 1)
          /\ k + (b - a) = j /\ k + 1 + (b - a) = j + 1 /\ j >= b /\ j + 1 > b
          /\ j + 1 \in 1..(n + 1)
      BY <1>1, <1>7, <2>1
    <2>3. f(k) = g(j) /\ f(k + 1) = g(j + 1)
      BY <1>3, <2>2
    <2>. QED
      BY <1>4, <2>2, <2>3
  <1>. QED
    BY <1>1, <1>5, <1>6, <1>7

-----------------------------------------------------------------------------
\* What the invariant says of the nodes of a list.
LEMMA ListFacts ==
    ASSUME LinksInv, NEW l \in Lists
    PROVE  /\ contents[l] \in Seq(ListItems) /\ Len(contents[l]) \in Nat
           /\ \A k \in 1..Len(contents[l]) : contents[l][k] \in ListItems
           /\ NoRepeats(contents[l])
           /\ Range(contents[l]) \subseteq ListItems /\ NodesOf(l) \subseteq Nodes
           /\ l \notin ListItems /\ l \notin Range(contents[l])
           /\ \A k \in 0..(Len(contents[l]) + 1) : NodeAt(l, contents[l], k) \in NodesOf(l)
           /\ \A n \in Range(contents[l]) : belong_to[n] = l
  <1>1. PICK c \in Seq(ListItems) : c = contents[l]
    BY DEF LinksInv, LinksType
  <1>2. /\ Len(c) \in Nat /\ DOMAIN c = 1..Len(c)
        /\ \A k \in 1..Len(c) : c[k] \in ListItems
    BY LenProperties, ElementOfSeq
  <1>3. Range(c) = {c[k] : k \in 1..Len(c)}
    BY <1>2 DEF Range
  <1>4. Range(c) \subseteq ListItems
    BY <1>2, <1>3
  <1>5. NodesOf(l) = {l} \cup Range(c)
    BY <1>1 DEF NodesOf
  <1>6. l \notin ListItems
    BY ListAssumption
  <1>7. \A k \in 0..(Len(c) + 1) : NodeAt(l, c, k) \in NodesOf(l)
    BY <1>2, <1>3, <1>5 DEF NodeAt
  <1>8. NoRepeats(c) /\ \A k \in 1..Len(c) : belong_to[c[k]] = l
    BY <1>1 DEF LinksInv, ListOK
  <1>. QED
    BY <1>1, <1>2, <1>3, <1>4, <1>5, <1>6, <1>7, <1>8 DEF Nodes

LEMMA ListsApart ==
    ASSUME LinksInv, NEW l \in Lists, NEW x \in Lists, l # x
    PROVE  NodesOf(l) \cap NodesOf(x) = {}
  <1>1. /\ NodesOf(l) = {l} \cup Range(contents[l]) /\ Range(contents[l]) \subseteq ListItems
        /\ \A n \in Range(contents[l]) : belong_to[n] = l
    BY ListFacts DEF NodesOf
  <1>2. /\ NodesOf(x) = {x} \cup Range(contents[x]) /\ Range(contents[x]) \subseteq ListItems
        /\ \A n \in Range(contents[x]) : belong_to[n] = x
    BY ListFacts DEF NodesOf
  <1>. QED
    BY <1>1, <1>2, ListAssumption

LEMMA IndexFound ==
    ASSUME LinksInv, NEW l \in Lists, NEW n \in NodesOf(l)
    PROVE  /\ IndexOf(l, n) \in 1..(Len(contents[l]) + 1)
           /\ NodeAt(l, contents[l], IndexOf(l, n)) = n
           /\ n # l => IndexOf(l, n) \in 1..Len(contents[l])
  <1>1. PICK c : c = contents[l]
    OBVIOUS
  <1>2. Len(c) \in Nat /\ DOMAIN c = 1..Len(c) /\ Range(c) \subseteq ListItems /\ l \notin ListItems
    BY <1>1, ListFacts, LenProperties
  <1>3. CASE n = l
    BY <1>1, <1>2, <1>3 DEF IndexOf, NodeAt
  <1>4. CASE n # l
    <2>1. n \in Range(c)
      BY <1>1, <1>4 DEF NodesOf
    <2>2. \E k \in DOMAIN c : c[k] = n
      BY <2>1 DEF Range
    <2>3. At(c, n) \in DOMAIN c /\ c[At(c, n)] = n
      BY <2>2 DEF At
    <2>. QED
      BY <1>1, <1>2, <1>4, <2>3 DEF IndexOf, NodeAt
  <1>. QED
    BY <1>3, <1>4

\* Where a node is, and what is before and after it.
LEMMA Neighbours ==
    ASSUME LinksInv, NEW l \in Lists, Usable(l), NEW k \in 0..Len(contents[l])
    PROVE  /\ next[NodeAt(l, contents[l], k)] = NodeAt(l, contents[l], k + 1)
           /\ prev[NodeAt(l, contents[l], k + 1)] = NodeAt(l, contents[l], k)
  BY DEF LinksInv, ListOK, Ring

LEMMA NeighboursIn ==
    ASSUME LinksInv, NEW l \in Lists, Usable(l), NEW n \in NodesOf(l)
    PROVE  /\ next[n] \in NodesOf(l) /\ prev[n] \in NodesOf(l)
           /\ next[n] \in Nodes /\ prev[n] \in Nodes
           /\ n # l => next[n] # n /\ prev[n] # n
           /\ n = l /\ (next[n] = n \/ prev[n] = n) => contents[l] = <<>>
  <1>1. PICK c : c = contents[l]
    OBVIOUS
  <1>2. /\ c \in Seq(ListItems) /\ Len(c) \in Nat /\ NodesOf(l) \subseteq Nodes
        /\ \A k \in 0..(Len(c) + 1) : NodeAt(l, c, k) \in NodesOf(l)
        /\ \A j, k \in 0..Len(c) : NodeAt(l, c, j) = NodeAt(l, c, k) => j = k
        /\ \A j, k \in 1..(Len(c) + 1) : NodeAt(l, c, j) = NodeAt(l, c, k) => j = k
    BY <1>1, ListFacts, NodesDiffer
  <1>3. \A k \in 0..Len(c) : /\ next[NodeAt(l, c, k)] = NodeAt(l, c, k + 1)
                            /\ prev[NodeAt(l, c, k + 1)] = NodeAt(l, c, k)
    BY <1>1, Neighbours
  <1>4. PICK k \in 1..(Len(c) + 1) : /\ NodeAt(l, c, k) = n
                                     /\ n # l => k \in 1..Len(c)
                                     /\ n = l => k = Len(c) + 1
    BY <1>1, IndexFound DEF IndexOf
  <1>5. k - 1 \in 0..Len(c) /\ k - 1 + 1 = k /\ k - 1 \in 0..(Len(c) + 1)
    BY <1>2, <1>4
  <1>6. prev[n] = NodeAt(l, c, k - 1)
    BY <1>3, <1>4, <1>5
  <1>7. CASE n # l
    <2>1. /\ k \in 0..Len(c) /\ k + 1 \in 0..(Len(c) + 1) /\ k + 1 \in 1..(Len(c) + 1)
          /\ k - 1 # k /\ k + 1 # k
      BY <1>2, <1>4, <1>7
    <2>2. next[n] = NodeAt(l, c, k + 1)
      BY <1>3, <1>4, <2>1
    <2>. QED
      BY <1>2, <1>4, <1>5, <1>6, <1>7, <2>1, <2>2
  <1>8. CASE n = l
    <2>1. NodeAt(l, c, 0) = l /\ 0 \in 0..Len(c) /\ 0 + 1 = 1 /\ 1 \in 0..(Len(c) + 1)
          /\ 1 \in 1..(Len(c) + 1)
      BY <1>2 DEF NodeAt
    <2>2. next[n] = NodeAt(l, c, 1)
      BY <1>3, <1>8, <2>1
    <2>3. next[n] = n => Len(c) = 0
      BY <1>2, <1>4, <1>8, <2>1, <2>2
    <2>4. prev[n] = n => Len(c) = 0
      BY <1>2, <1>4, <1>5, <1>6, <1>8, <2>1
    <2>5. Len(c) = 0 => c = <<>>
      BY <1>2
    <2>. QED
      BY <1>1, <1>2, <1>5, <1>6, <1>8, <2>1, <2>2, <2>3, <2>4, <2>5
  <1>. QED
    BY <1>7, <1>8

\* A step that does not touch the nodes of a list.
LEMMA ListUntouched ==
    ASSUME LinksInv, NEW l \in Lists, contents'[l] = contents[l], length'[l] = length[l],
           l \in miscounted' <=> l \in miscounted,
           \A n \in NodesOf(l) : /\ next'[n] = next[n] /\ prev'[n] = prev[n]
                                 /\ belong_to'[n] = belong_to[n]
    PROVE  ListOK(l)'
  <1>1. PICK c : c = contents[l]
    OBVIOUS
  <1>2. /\ Len(c) \in Nat /\ \A k \in 0..(Len(c) + 1) : NodeAt(l, c, k) \in NodesOf(l)
        /\ \A k \in 1..Len(c) : c[k] = NodeAt(l, c, k)
        /\ NodeAt(l, c, 0) = l
    BY <1>1, ListFacts DEF NodeAt
  <1>3. l \in NodesOf(l) /\ \A k \in 1..Len(c) : c[k] \in NodesOf(l)
    BY <1>2
  <1>4. Usable(l)' <=> Usable(l)
    BY <1>3 DEF Usable
  <1>5. Ring(next, prev, l, c) => Ring(next', prev', l, c)
    <2>1. \A k \in 0..Len(c) : k \in 0..(Len(c) + 1) /\ k + 1 \in 0..(Len(c) + 1)
      BY <1>2
    <2>. QED
      BY <1>2, <2>1 DEF Ring
  <1>6. \A k \in 1..Len(c) : belong_to'[c[k]] = belong_to[c[k]]
    BY <1>3
  <1>7. ListOK(l)
    BY DEF LinksInv
  <1>. QED
    BY <1>1, <1>3, <1>4, <1>5, <1>6, <1>7 DEF ListOK

-----------------------------------------------------------------------------
\* What is in a list after an insertion and after a cut.
LEMMA RangeInserted ==
    ASSUME NEW S, NEW c \in Seq(S), NEW t \in Seq(S), NEW p \in 1..(Len(c) + 1),
           NEW s \in Seq(S), IsInsertion(s, c, p, t), NoRepeats(c), NoRepeats(t),
           Range(c) \cap Range(t) = {}
    PROVE  NoRepeats(s) /\ Range(s) = Range(c) \cup Range(t)
  <1>1. PICK n \in Nat, m \in Nat : n = Len(c) /\ m = Len(t)
    BY LenProperties
  <1>2. /\ Len(s) = n + m
        /\ \A k \in 1..(p - 1) : s[k] = c[k]
        /\ \A k \in p..(p + m - 1) : s[k] = t[k - p + 1]
        /\ \A k \in (p + m)..(n + m) : s[k] = c[k - m]
    BY <1>1 DEF IsInsertion
  <1>3. DOMAIN c = 1..n /\ DOMAIN t = 1..m /\ DOMAIN s = 1..(n + m)
    BY <1>1, <1>2, LenProperties
  <1>4. \A j \in 1..n, k \in 1..m : c[j] # t[k]
    BY <1>3 DEF Range
  <1>5. ASSUME NEW k \in 1..(n + m)
        PROVE  \/ \E i \in 1..n : s[k] = c[i] /\ ((k < p /\ i = k) \/ (k >= p + m /\ i = k - m))
               \/ \E i \in 1..m : s[k] = t[i] /\ i = k - p + 1
    <2>1. CASE k < p
      <3>1. k \in 1..(p - 1) /\ k \in 1..n
        BY <1>1, <2>1
      <3>2. s[k] = c[k]
        BY <1>2, <3>1
      <3>. QED
        BY <2>1, <3>1, <3>2, Zenon
    <2>2. CASE k >= p /\ k < p + m
      <3>1. k \in p..(p + m - 1) /\ k - p + 1 \in 1..m
        BY <1>1, <2>2
      <3>. QED
        BY <1>2, <3>1
    <2>3. CASE k >= p + m
      <3>1. k \in (p + m)..(n + m) /\ k - m \in 1..n
        BY <1>1, <2>3
      <3>. QED
        BY <1>1, <1>2, <2>3, <3>1
    <2>. QED
      BY <1>1, <2>1, <2>2, <2>3
  <1>6. ASSUME NEW j \in 1..(n + m), NEW k \in 1..(n + m), s[j] = s[k]
        PROVE  j = k
    <2>0. (\A i, h \in 1..n : c[i] = c[h] => i = h) /\ (\A i, h \in 1..m : t[i] = t[h] => i = h)
      BY <1>1 DEF NoRepeats
    <2>1. CASE \E i \in 1..n : s[j] = c[i] /\ ((j < p /\ i = j) \/ (j >= p + m /\ i = j - m))
      <3>1. PICK i \in 1..n : s[j] = c[i] /\ ((j < p /\ i = j) \/ (j >= p + m /\ i = j - m))
        BY <2>1
      <3>2. PICK h \in 1..n : s[k] = c[h] /\ ((k < p /\ h = k) \/ (k >= p + m /\ h = k - m))
        BY <1>4, <1>5, <1>6, <3>1
      <3>3. i = h
        BY <1>6, <2>0, <3>1, <3>2
      <3>. QED
        BY <1>1, <3>1, <3>2, <3>3
    <2>2. CASE \E i \in 1..m : s[j] = t[i] /\ i = j - p + 1
      <3>1. PICK i \in 1..m : s[j] = t[i] /\ i = j - p + 1
        BY <2>2
      <3>2. PICK h \in 1..m : s[k] = t[h] /\ h = k - p + 1
        BY <1>4, <1>5, <1>6, <3>1
      <3>3. i = h
        BY <1>6, <2>0, <3>1, <3>2
      <3>. QED
        BY <1>1, <3>1, <3>2, <3>3
    <2>. QED
      BY <1>5, <2>1, <2>2
  <1>7. Range(s) \subseteq Range(c) \cup Range(t)
    BY <1>3, <1>5 DEF Range
  <1>8. ASSUME NEW k \in 1..n PROVE c[k] \in Range(s)
    <2>1. CASE k < p
      <3>1. k \in 1..(n + m) /\ s[k] = c[k]
        BY <1>1, <1>2, <2>1
      <3>. QED
        BY <1>3, <3>1 DEF Range
    <2>2. CASE k >= p
      <3>0. k + m \in (p + m)..(n + m) /\ k + m - m = k
        BY <1>1, <2>2
      <3>1. k + m \in 1..(n + m)
        BY <1>1
      <3>2. s[k + m] = c[k]
        BY <1>2, <3>0
      <3>. QED
        BY <1>3, <3>1, <3>2 DEF Range
    <2>. QED
      BY <1>1, <2>1, <2>2
  <1>9. ASSUME NEW k \in 1..m PROVE t[k] \in Range(s)
    <2>1. p - 1 + k \in p..(p + m - 1) /\ p - 1 + k \in 1..(n + m) /\ p - 1 + k - p + 1 = k
      BY <1>1
    <2>2. s[p - 1 + k] = t[k]
      BY <1>2, <2>1
    <2>. QED
      BY <1>3, <2>1, <2>2 DEF Range
  <1>10. Range(c) \subseteq Range(s) /\ Range(t) \subseteq Range(s)
    BY <1>3, <1>8, <1>9 DEF Range
  <1>. QED
    BY <1>2, <1>6, <1>7, <1>10 DEF NoRepeats

CutFrom(s, c, gone) == NoRepeats(s) /\ Range(s) = Range(c) \ gone

LEMMA RangeCut ==
    ASSUME NEW S, NEW c \in Seq(S), NEW b \in 1..(Len(c) + 1), NEW a \in 1..b,
           NEW s \in Seq(S), IsCut(s, c, a, b), NoRepeats(c)
    PROVE  CutFrom(s, c, {c[k] : k \in a..(b - 1)})
  <1>1. PICK n \in Nat : n = Len(c)
    BY LenProperties
  <1>2. /\ Len(s) = n - (b - a)
        /\ \A k \in 1..(a - 1) : s[k] = c[k]
        /\ \A k \in a..(n - (b - a)) : s[k] = c[k + (b - a)]
    BY <1>1 DEF IsCut
  <1>3. DOMAIN c = 1..n /\ DOMAIN s = 1..(n - (b - a))
    BY <1>1, <1>2, LenProperties
  <1>4. \A j, k \in 1..n : c[j] = c[k] => j = k
    BY <1>1 DEF NoRepeats
  <1>5. ASSUME NEW k \in 1..(n - (b - a))
        PROVE  \E i \in 1..n : s[k] = c[i] /\ ((k < a /\ i = k) \/ (k >= a /\ i = k + (b - a)))
    <2>1. CASE k < a
      <3>1. k \in 1..(a - 1) /\ k \in 1..n
        BY <1>1, <2>1
      <3>2. s[k] = c[k]
        BY <1>2, <3>1
      <3>. QED
        BY <2>1, <3>1, <3>2, Zenon
    <2>2. CASE k >= a
      <3>1. k \in a..(n - (b - a)) /\ k + (b - a) \in 1..n
        BY <1>1, <2>2
      <3>. QED
        BY <1>1, <1>2, <2>2, <3>1
    <2>3. k < a \/ k >= a
      BY <1>1
    <2>. QED
      BY <2>1, <2>2, <2>3, Zenon
  <1>6. ASSUME NEW j \in 1..(n - (b - a)), NEW k \in 1..(n - (b - a)), s[j] = s[k]
        PROVE  j = k
    <2>1. PICK i \in 1..n : s[j] = c[i] /\ ((j < a /\ i = j) \/ (j >= a /\ i = j + (b - a)))
      BY <1>5
    <2>2. PICK h \in 1..n : s[k] = c[h] /\ ((k < a /\ h = k) \/ (k >= a /\ h = k + (b - a)))
      BY <1>5
    <2>3. i = h
      BY <1>4, <1>6, <2>1, <2>2
    <2>. QED
      BY <1>1, <2>1, <2>2, <2>3
  <1>7. ASSUME NEW k \in 1..(n - (b - a))
        PROVE  s[k] \in Range(c) /\ s[k] \notin {c[i] : i \in a..(b - 1)}
    <2>0. PICK j \in 1..n : s[k] = c[j] /\ ((k < a /\ j = k) \/ (k >= a /\ j = k + (b - a)))
      BY <1>5
    <2>1. j \notin a..(b - 1)
      BY <1>1, <2>0
    <2>2. \A i \in a..(b - 1) : i \in 1..n /\ i # j
      BY <1>1, <2>1
    <2>. QED
      BY <1>3, <1>4, <2>0, <2>2 DEF Range
  <1>8. ASSUME NEW k \in 1..n, k \notin a..(b - 1) PROVE c[k] \in Range(s)
    <2>1. CASE k < a
      <3>1. k \in 1..(n - (b - a)) /\ s[k] = c[k]
        BY <1>1, <1>2, <2>1
      <3>. QED
        BY <1>3, <3>1 DEF Range
    <2>2. CASE k >= b
      <3>1. PICK j \in a..(n - (b - a)) : j + (b - a) = k
        <4>1. k - (b - a) \in a..(n - (b - a)) /\ k - (b - a) + (b - a) = k
          BY <1>1, <2>2
        <4>. QED
          BY <4>1
      <3>2. j \in 1..(n - (b - a))
        BY <1>1
      <3>3. s[j] = c[k]
        BY <1>2, <3>1
      <3>. QED
        BY <1>3, <3>2, <3>3 DEF Range
    <2>3. k < a \/ k >= b
      BY <1>1, <1>8
    <2>. QED
      BY <2>1, <2>2, <2>3
  <1>9. Range(s) \subseteq Range(c) \ {c[k] : k \in a..(b - 1)}
    BY <1>3, <1>7 DEF Range
  <1>10. Range(c) \ {c[k] : k \in a..(b - 1)} \subseteq Range(s)
    BY <1>3, <1>8 DEF Range
  <1>. QED
    BY <1>2, <1>6, <1>9, <1>10 DEF NoRepeats, CutFrom

-----------------------------------------------------------------------------
\* An item that is put into a list: append, prepend, insert.
LEMMA PutBeforeKeeps ==
    ASSUME LinksInv, NEW l \in Lists, NEW pos \in NodesOf(l), NEW i \in ListItems,
           NEW n \in {1, 2}, PutBefore(l, pos, i, n),
           n = 1 => UNCHANGED miscounted, n = 2 => miscounted' = miscounted \cup {l}
    PROVE  LinksInv'
  <1>1. PICK c : c = contents[l]
    OBVIOUS
  <1>2. /\ c \in Seq(ListItems) /\ Len(c) \in Nat /\ NoRepeats(c)
        /\ Range(c) \subseteq ListItems /\ NodesOf(l) \subseteq Nodes
        /\ l \notin ListItems /\ l \notin Range(c)
        /\ \A k \in 0..(Len(c) + 1) : NodeAt(l, c, k) \in NodesOf(l)
        /\ \A k \in Range(c) : belong_to[k] = l
    BY <1>1, ListFacts
  <1>3. PICK p : p = IndexOf(l, pos)
    OBVIOUS
  <1>4. p \in 1..(Len(c) + 1) /\ NodeAt(l, c, p) = pos
    BY <1>1, <1>3, IndexFound
  <1>5. Usable(l) /\ OnNoList(i)
    BY DEF PutBefore
  <1>6. Ring(next, prev, l, c) /\ ListOK(l)
    BY <1>1, <1>5 DEF LinksInv, ListOK
  <1>7. PICK x : x = prev[pos]
    OBVIOUS
  <1>8. x = NodeAt(l, c, p - 1) /\ x \in NodesOf(l)
    <2>1. p - 1 \in 0..Len(c) /\ p - 1 + 1 = p /\ p - 1 \in 0..(Len(c) + 1)
      BY <1>2, <1>4
    <2>2. prev[NodeAt(l, c, p - 1 + 1)] = NodeAt(l, c, p - 1)
      BY <1>6, <2>1 DEF Ring
    <2>. QED
      BY <1>2, <1>4, <1>7, <2>1, <2>2
  <1>9. \A y \in Lists : i \notin NodesOf(y)
    <2>1. SUFFICES ASSUME NEW y \in Lists, i \in NodesOf(y) PROVE FALSE
      OBVIOUS
    <2>2. i \in Range(contents[y])
      BY <2>1, ListAssumption DEF NodesOf
    <2>3. belong_to[i] = y
      BY <2>2, ListFacts
    <2>. QED
      BY <1>5, <2>3, ListAssumption DEF OnNoList
  <1>10. i # l /\ i # pos /\ i # x /\ i \in Nodes /\ x \in Nodes /\ pos \in Nodes
    BY <1>2, <1>8, <1>9 DEF Nodes
  <1>11. /\ next' = [next EXCEPT ![x] = i, ![i] = pos]
         /\ prev' = [prev EXCEPT ![i] = x, ![pos] = i]
         /\ length' = [length EXCEPT ![l] = @ + n]
         /\ belong_to' = [belong_to EXCEPT ![i] = l]
         /\ contents' = [contents EXCEPT ![l] = InsertedBefore(c, p, <<i>>)]
    BY <1>1, <1>3, <1>7 DEF PutBefore
  <1>12. LinksType
    BY DEF LinksInv
  <1>13. /\ next'[x] = i /\ next'[i] = pos
         /\ prev'[i] = x /\ prev'[pos] = i
         /\ \A m \in Nodes : m # x /\ m # i => next'[m] = next[m]
         /\ \A m \in Nodes : m # pos /\ m # i => prev'[m] = prev[m]
         /\ belong_to'[i] = l /\ \A m \in Nodes : m # i => belong_to'[m] = belong_to[m]
    BY <1>10, <1>11, <1>12 DEF LinksType
  <1>14. PICK t \in Seq(ListItems) : t = <<i>> /\ Len(t) = 1 /\ t[1] = i
    <2>1. <<i>> \in Seq(ListItems) /\ Len(<<i>>) = 1 /\ <<i>>[1] = i
      OBVIOUS
    <2>. QED
      BY <2>1, Zenon
  <1>15. t # <<>> /\ NoRepeats(t) /\ Range(t) = {i}
    BY <1>14 DEF NoRepeats, Range
  <1>16. PICK s \in Seq(ListItems) : IsInsertion(s, c, p, t)
    BY <1>2, <1>4, <1>14, Insertion
  <1>17. contents' = [contents EXCEPT ![l] = s] /\ contents'[l] = s
    BY <1>11, <1>12, <1>14, <1>16 DEF IsInsertion, LinksType
  <1>18. Len(s) = Len(c) + 1
    BY <1>14, <1>16 DEF IsInsertion
  <1>19. LinksType'
    <2>1. next' \in [Nodes -> Nodes \cup {NoItem}] /\ prev' \in [Nodes -> Nodes \cup {NoItem}]
      BY <1>10, <1>11, <1>12 DEF LinksType
    <2>2. length' \in [Lists -> Int] /\ belong_to' \in [Nodes -> Lists \cup {NoItem}]
      BY <1>10, <1>11, <1>12 DEF LinksType
    <2>3. contents' \in [Lists -> Seq(ListItems)]
      BY <1>12, <1>17 DEF LinksType
    <2>4. miscounted' \subseteq Lists
      BY <1>12 DEF LinksType
    <2>. QED
      BY <2>1, <2>2, <2>3, <2>4 DEF LinksType
  <1>20. Ring(next', prev', l, s)
    <2>1. SameButAt(next, prev, next', prev', l, c, p)
      <3>1. ASSUME NEW k \in 0..Len(c), k # p - 1
            PROVE  next'[NodeAt(l, c, k)] = next[NodeAt(l, c, k)]
        <4>0. k \in 0..(Len(c) + 1) /\ p - 1 \in 0..Len(c)
          BY <1>2, <1>4
        <4>1. NodeAt(l, c, k) \in NodesOf(l) /\ p - 1 \in 0..Len(c)
          BY <1>2, <4>0
        <4>2. NodeAt(l, c, k) # x
          BY <1>2, <1>8, <3>1, <4>1, NodesDiffer
        <4>. QED
          BY <1>2, <1>9, <1>13, <4>1, <4>2
      <3>2. ASSUME NEW k \in 1..(Len(c) + 1), k # p
            PROVE  prev'[NodeAt(l, c, k)] = prev[NodeAt(l, c, k)]
        <4>1. NodeAt(l, c, k) \in NodesOf(l)
          BY <1>2
        <4>2. NodeAt(l, c, k) # pos
          BY <1>2, <1>4, <3>2, NodesDiffer
        <4>. QED
          BY <1>2, <1>9, <1>13, <4>1, <4>2
      <3>. QED
        BY <3>1, <3>2 DEF SameButAt
    <2>2. Chained(next', prev', t)
      BY <1>14 DEF Chained
    <2>3. Hooked(next', prev', NodeAt(l, c, p - 1), t, NodeAt(l, c, p))
      BY <1>4, <1>8, <1>13, <1>14 DEF Hooked
    <2>. QED
      BY <1>2, <1>4, <1>6, <1>14, <1>15, <1>16, <2>1, <2>2, <2>3, RingInserted
  <1>21. NoRepeats(s) /\ Range(s) = Range(c) \cup {i}
    <2>1. Range(c) \cap Range(t) = {}
      BY <1>1, <1>9, <1>15 DEF NodesOf
    <2>2. NoRepeats(s) /\ Range(s) = Range(c) \cup Range(t)
      BY <1>2, <1>4, <1>15, <1>16, <2>1, RangeInserted
    <2>. QED
      BY <1>15, <2>2
  <1>22. ListOK(l)'
    <2>1. \A k \in 1..Len(s) : belong_to'[s[k]] = l
      <3>1. \A k \in 1..Len(s) : s[k] \in Range(c) \/ s[k] = i
        BY <1>21, LenProperties DEF Range
      <3>. QED
        BY <1>2, <1>13, <3>1 DEF Nodes
    <2>2. belong_to'[l] = l
      BY <1>5, <1>6, <1>10, <1>13 DEF ListOK, Nodes
    <2>3. Usable(l)'
      <3>1. next'[l] = i \/ next'[l] = next[l]
        BY <1>10, <1>13 DEF Nodes
      <3>. QED
        BY <1>5, <3>1, ListAssumption DEF Usable
    <2>4. l \notin miscounted' => length'[l] = Len(s)
      <3>1. SUFFICES ASSUME l \notin miscounted' PROVE length'[l] = Len(s)
        OBVIOUS
      <3>2. n = 1 /\ l \notin miscounted
        BY <3>1
      <3>3. length[l] = Len(c)
        BY <1>1, <1>5, <1>6, <3>2 DEF ListOK
      <3>4. length'[l] = length[l] + 1
        BY <1>11, <1>12, <3>2 DEF LinksType
      <3>. QED
        BY <1>18, <3>3, <3>4
    <2>. QED
      BY <1>17, <1>20, <1>21, <2>1, <2>2, <2>3, <2>4 DEF ListOK
  <1>23. ASSUME NEW y \in Lists, y # l PROVE ListOK(y)'
    <2>1. contents'[y] = contents[y] /\ length'[y] = length[y]
      BY <1>11, <1>12, <1>23 DEF LinksType
    <2>2. y \in miscounted' <=> y \in miscounted
      BY <1>23
    <2>3. NodesOf(y) \cap NodesOf(l) = {} /\ i \notin NodesOf(y) /\ NodesOf(y) \subseteq Nodes
      BY <1>9, <1>23, ListsApart, ListFacts
    <2>4. \A m \in NodesOf(y) : /\ next'[m] = next[m] /\ prev'[m] = prev[m]
                                /\ belong_to'[m] = belong_to[m]
      BY <1>8, <1>13, <2>3
    <2>. QED
      BY <2>1, <2>2, <2>4, ListUntouched
  <1>. QED
    BY <1>19, <1>22, <1>23 DEF LinksInv

-----------------------------------------------------------------------------
\* An item that leaves a list.
Unlinks(n) ==
    /\ next'[prev[n]] = next[n] /\ prev'[next[n]] = prev[n]
    /\ \A m \in Nodes : m # n /\ m # prev[n] => next'[m] = next[m]
    /\ \A m \in Nodes : m # n /\ m # next[n] => prev'[m] = prev[m]
    /\ next' \in [Nodes -> Nodes \cup {NoItem}]
    /\ prev' \in [Nodes -> Nodes \cup {NoItem}]

LEMMA RemovalKeeps ==
    ASSUME LinksInv, NEW l \in Lists, Usable(l), NEW n \in Range(contents[l]), Unlinks(n),
           length' = [length EXCEPT ![l] = @ - 1],
           belong_to' = [belong_to EXCEPT ![n] = NoItem],
           contents' = [contents EXCEPT ![l] = Dropped(@, n)],
           UNCHANGED miscounted
    PROVE  LinksInv'
  <1>1. PICK c : c = contents[l]
    OBVIOUS
  <1>2. /\ c \in Seq(ListItems) /\ Len(c) \in Nat /\ NoRepeats(c)
        /\ Range(c) \subseteq ListItems /\ NodesOf(l) \subseteq Nodes
        /\ l \notin ListItems /\ l \notin Range(c)
        /\ \A k \in 0..(Len(c) + 1) : NodeAt(l, c, k) \in NodesOf(l)
        /\ \A k \in Range(c) : belong_to[k] = l
    BY <1>1, ListFacts
  <1>3. n \in NodesOf(l) /\ n # l /\ n \in ListItems
    BY <1>1, <1>2 DEF NodesOf
  <1>4. PICK a : a = At(c, n)
    OBVIOUS
  <1>5. a \in 1..Len(c) /\ NodeAt(l, c, a) = n /\ c[a] = n
    <2>1. IndexOf(l, n) = a
      BY <1>1, <1>3, <1>4 DEF IndexOf
    <2>2. a \in 1..Len(c) /\ NodeAt(l, c, a) = n
      BY <1>1, <1>3, <2>1, IndexFound
    <2>. QED
      BY <2>2 DEF NodeAt
  <1>6. Ring(next, prev, l, c) /\ ListOK(l)
    BY <1>1 DEF LinksInv, ListOK
  <1>7. PICK x, y : x = prev[n] /\ y = next[n]
    OBVIOUS
  <1>8. /\ x = NodeAt(l, c, a - 1) /\ y = NodeAt(l, c, a + 1)
        /\ x \in NodesOf(l) /\ y \in NodesOf(l)
    <2>1. /\ a - 1 \in 0..Len(c) /\ a - 1 + 1 = a /\ a - 1 \in 0..(Len(c) + 1)
          /\ a \in 0..Len(c) /\ a + 1 \in 0..(Len(c) + 1)
      BY <1>2, <1>5
    <2>2. /\ prev[NodeAt(l, c, a - 1 + 1)] = NodeAt(l, c, a - 1)
          /\ next[NodeAt(l, c, a)] = NodeAt(l, c, a + 1)
      BY <1>6, <2>1 DEF Ring
    <2>. QED
      BY <1>2, <1>5, <1>7, <2>1, <2>2
  <1>9. /\ \A j, k \in 0..Len(c) : NodeAt(l, c, j) = NodeAt(l, c, k) => j = k
        /\ \A j, k \in 1..(Len(c) + 1) : NodeAt(l, c, j) = NodeAt(l, c, k) => j = k
    BY <1>2, NodesDiffer
  <1>10. x # n /\ y # n
    <2>1. a - 1 \in 0..Len(c) /\ a \in 0..Len(c) /\ a - 1 # a
          /\ a + 1 \in 1..(Len(c) + 1) /\ a \in 1..(Len(c) + 1) /\ a + 1 # a
      BY <1>2, <1>5
    <2>. QED
      BY <1>5, <1>8, <1>9, <2>1
  <1>11. LinksType
    BY DEF LinksInv
  <1>12. /\ next'[x] = y /\ prev'[y] = x
         /\ \A m \in Nodes : m # x /\ m # n => next'[m] = next[m]
         /\ \A m \in Nodes : m # y /\ m # n => prev'[m] = prev[m]
         /\ \A m \in Nodes : m # n => belong_to'[m] = belong_to[m]
    BY <1>7, <1>11 DEF Unlinks, LinksType
  <1>13. PICK s \in Seq(ListItems) : IsCut(s, c, a, a + 1)
    <2>1. a + 1 \in 1..(Len(c) + 1) /\ a \in 1..(a + 1)
      BY <1>2, <1>5
    <2>. QED
      BY <1>2, <2>1, CutShort
  <1>14. contents' = [contents EXCEPT ![l] = s] /\ contents'[l] = s
    <2>1. s = Dropped(c, n)
      BY <1>1, <1>4, <1>13 DEF IsCut, Dropped
    <2>. QED
      BY <1>1, <1>11, <2>1 DEF LinksType
  <1>15. Len(s) = Len(c) - 1
    <2>1. Len(s) = Len(c) - (a + 1 - a) /\ a + 1 - a = 1
      BY <1>5, <1>13 DEF IsCut
    <2>. QED
      BY <2>1
  <1>16. LinksType'
    <2>0. length' \in [Lists -> Int]
      BY <1>11 DEF LinksType
    <2>1. belong_to' \in [Nodes -> Lists \cup {NoItem}]
      BY <1>11 DEF LinksType
    <2>2. contents' \in [Lists -> Seq(ListItems)]
      BY <1>11, <1>14 DEF LinksType
    <2>3. miscounted' \subseteq Lists
      BY <1>11 DEF LinksType
    <2>. QED
      BY <2>0, <2>1, <2>2, <2>3 DEF LinksType, Unlinks
  <1>17. Ring(next', prev', l, s)
    <2>1. SameOutside(next, prev, next', prev', l, c, a, a + 1)
      <3>1. ASSUME NEW k \in 0..Len(c), k < a - 1 \/ k >= a + 1
            PROVE  next'[NodeAt(l, c, k)] = next[NodeAt(l, c, k)]
        <4>1. k \in 0..(Len(c) + 1) /\ a - 1 \in 0..Len(c) /\ a \in 0..Len(c) /\ k # a /\ k # a - 1
          BY <1>2, <1>5, <3>1
        <4>2. NodeAt(l, c, k) \in Nodes
          BY <1>2, <4>1
        <4>3. NodeAt(l, c, k) # x /\ NodeAt(l, c, k) # n
          BY <1>5, <1>8, <1>9, <4>1
        <4>. QED
          BY <1>12, <4>2, <4>3
      <3>2. ASSUME NEW k \in 1..(Len(c) + 1), k < a \/ k > a + 1
            PROVE  prev'[NodeAt(l, c, k)] = prev[NodeAt(l, c, k)]
        <4>1. /\ k \in 0..(Len(c) + 1) /\ a \in 1..(Len(c) + 1) /\ a + 1 \in 1..(Len(c) + 1)
              /\ k # a /\ k # a + 1
          BY <1>2, <1>5, <3>2
        <4>2. NodeAt(l, c, k) \in Nodes
          BY <1>2, <4>1
        <4>3. NodeAt(l, c, k) # y /\ NodeAt(l, c, k) # n
          BY <1>5, <1>8, <1>9, <4>1
        <4>. QED
          BY <1>12, <4>2, <4>3
      <3>. QED
        BY <3>1, <3>2 DEF SameOutside
    <2>2. a + 1 \in 1..(Len(c) + 1) /\ a \in 1..(a + 1)
      BY <1>2, <1>5
    <2>3. next'[NodeAt(l, c, a - 1)] = NodeAt(l, c, a + 1)
          /\ prev'[NodeAt(l, c, a + 1)] = NodeAt(l, c, a - 1)
      BY <1>8, <1>12
    <2>. QED
      BY <1>2, <1>6, <1>13, <2>1, <2>2, <2>3, RingCut
  <1>18. NoRepeats(s) /\ Range(s) = Range(c) \ {n}
    <2>1. a + 1 \in 1..(Len(c) + 1) /\ a \in 1..(a + 1) /\ a..(a + 1 - 1) = {a}
      BY <1>2, <1>5
    <2>2. CutFrom(s, c, {c[k] : k \in a..(a + 1 - 1)})
      BY <1>2, <1>13, <2>1, RangeCut
    <2>. QED
      BY <1>5, <2>1, <2>2 DEF CutFrom
  <1>19. ListOK(l)'
    <2>1. \A k \in 1..Len(s) : belong_to'[s[k]] = l
      <3>1. \A k \in 1..Len(s) : s[k] \in Range(c) /\ s[k] # n
        BY <1>18, LenProperties DEF Range
      <3>. QED
        BY <1>2, <1>12, <3>1 DEF Nodes
    <2>2. belong_to'[l] = l
      BY <1>3, <1>6, <1>12 DEF ListOK, Nodes
    <2>3. Usable(l)'
      <3>1. next'[l] = y \/ next'[l] = next[l]
        BY <1>3, <1>12 DEF Nodes
      <3>. QED
        BY <1>2, <1>8, <3>1, ListAssumption DEF Usable, Nodes
    <2>4. l \notin miscounted' => length'[l] = Len(s)
      <3>1. SUFFICES ASSUME l \notin miscounted' PROVE length'[l] = Len(s)
        OBVIOUS
      <3>2. length[l] = Len(c)
        BY <1>1, <1>6, <3>1 DEF ListOK
      <3>3. length'[l] = length[l] - 1
        BY <1>11 DEF LinksType
      <3>. QED
        BY <1>15, <3>2, <3>3
    <2>. QED
      BY <1>14, <1>17, <1>18, <2>1, <2>2, <2>3, <2>4 DEF ListOK
  <1>20. ASSUME NEW z \in Lists, z # l PROVE ListOK(z)'
    <2>1. contents'[z] = contents[z] /\ length'[z] = length[z]
      BY <1>11, <1>20 DEF LinksType
    <2>2. z \in miscounted' <=> z \in miscounted
      OBVIOUS
    <2>3. NodesOf(z) \cap NodesOf(l) = {} /\ NodesOf(z) \subseteq Nodes
      BY <1>20, ListsApart, ListFacts
    <2>4. \A m \in NodesOf(z) : /\ next'[m] = next[m] /\ prev'[m] = prev[m]
                                /\ belong_to'[m] = belong_to[m]
      BY <1>3, <1>8, <1>12, <2>3
    <2>. QED
      BY <2>1, <2>2, <2>4, ListUntouched
  <1>. QED
    BY <1>16, <1>19, <1>20 DEF LinksInv

\* ocoms_list_remove_item, _remove_first and _remove_last.
LEMMA RemoveItemKeeps ==
    ASSUME LinksInv, NEW l \in Lists, NEW i \in ListItems, ListRemoveItem(l, i)
    PROVE  LinksInv'
  <1>1. Usable(l) /\ i \in Range(contents[l]) /\ i \in Nodes
    BY DEF ListRemoveItem, Nodes
  <1>2. Unlinks(i)
    <2>1. next' = [next EXCEPT ![prev[i]] = next[i]] /\ prev' = [prev EXCEPT ![next[i]] = prev[i]]
      BY DEF ListRemoveItem
    <2>2. prev[i] \in Nodes /\ next[i] \in Nodes
      BY <1>1, NeighboursIn DEF NodesOf
    <2>3. LinksType
      BY DEF LinksInv
    <2>. QED
      BY <2>1, <2>2, <2>3 DEF Unlinks, LinksType
  <1>. QED
    BY <1>1, <1>2, RemovalKeeps DEF ListRemoveItem

LEMMA HandOutKeeps ==
    ASSUME LinksInv, NEW l \in Lists, NEW n \in NodesOf(l),
           n = l => next[l] = l \/ prev[l] = l, HandOut(l, n)
    PROVE  LinksInv'
  <1>1. Usable(l) /\ LinksType /\ n \in Nodes /\ l \in Nodes
    BY ListFacts DEF HandOut, LinksInv, Nodes
  <1>2. /\ next' = [next EXCEPT ![prev[n]] = next[n], ![n] = NoItem]
        /\ prev' = [prev EXCEPT ![next[n]] = prev[n], ![n] = NoItem]
        /\ length' = [length EXCEPT ![l] = @ - 1]
        /\ belong_to' = [belong_to EXCEPT ![n] = NoItem]
        /\ contents' = [contents EXCEPT ![l] = Dropped(@, n)]
        /\ UNCHANGED miscounted
    BY DEF HandOut
  <1>3. prev[n] \in Nodes /\ next[n] \in Nodes
    BY <1>1, NeighboursIn
  <1>4. CASE n # l
    <2>1. n \in Range(contents[l])
      BY <1>4 DEF NodesOf
    <2>2. prev[n] # n /\ next[n] # n
      BY <1>1, <1>4, NeighboursIn
    <2>3. Unlinks(n)
      BY <1>1, <1>2, <1>3, <2>2 DEF Unlinks, LinksType
    <2>. QED
      BY <1>1, <1>2, <2>1, <2>3, RemovalKeeps
  <1>5. CASE n = l
    <2>1. contents[l] = <<>>
      BY <1>1, <1>5, NeighboursIn
    <2>2. NodesOf(l) = {l}
      BY <2>1 DEF NodesOf, Range
    <2>3. prev[l] = l /\ next[l] = l
      BY <1>1, <1>5, <2>2, NeighboursIn
    <2>4. Dropped(contents[l], l) = <<>>
      BY <2>1 DEF Dropped, Range
    <2>5. /\ next'[l] = NoItem /\ contents'[l] = <<>>
          /\ \A m \in Nodes : m # l => next'[m] = next[m] /\ prev'[m] = prev[m]
          /\ \A m \in Nodes : m # l => belong_to'[m] = belong_to[m]
          /\ \A x \in Lists : x # l => contents'[x] = contents[x] /\ length'[x] = length[x]
      BY <1>1, <1>2, <1>5, <2>3, <2>4 DEF LinksType
    <2>6. LinksType'
      <3>1. next' \in [Nodes -> Nodes \cup {NoItem}] /\ prev' \in [Nodes -> Nodes \cup {NoItem}]
        BY <1>1, <1>2, <1>3 DEF LinksType
      <3>2. length' \in [Lists -> Int]
        BY <1>1, <1>2 DEF LinksType
      <3>3. belong_to' \in [Nodes -> Lists \cup {NoItem}]
        BY <1>1, <1>2 DEF LinksType
      <3>4. contents' \in [Lists -> Seq(ListItems)]
        BY <1>1, <1>2, <1>5, <2>4, EmptySeq DEF LinksType
      <3>. QED
        BY <1>1, <1>2, <3>1, <3>2, <3>3, <3>4 DEF LinksType
    <2>7. ListOK(l)'
      BY <2>5 DEF ListOK, Usable, NoRepeats
    <2>8. ASSUME NEW x \in Lists, x # l PROVE ListOK(x)'
      <3>1. NodesOf(x) \subseteq Nodes /\ l \notin NodesOf(x)
        BY <2>2, <2>8, ListsApart, ListFacts
      <3>2. \A m \in NodesOf(x) : /\ next'[m] = next[m] /\ prev'[m] = prev[m]
                                  /\ belong_to'[m] = belong_to[m]
        BY <2>5, <3>1
      <3>3. contents'[x] = contents[x] /\ length'[x] = length[x]
        BY <2>5, <2>8
      <3>4. x \in miscounted' <=> x \in miscounted
        BY <1>2
      <3>. QED
        BY <3>2, <3>3, <3>4, ListUntouched
    <2>. QED
      BY <2>6, <2>7, <2>8 DEF LinksInv
  <1>. QED
    BY <1>4, <1>5

LEMMA RemoveEndsKeeps ==
    ASSUME LinksInv, NEW l \in Lists, ListRemoveFirst(l) \/ ListRemoveLast(l)
    PROVE  LinksInv'
  <1>1. Usable(l) /\ l \in NodesOf(l)
    BY DEF ListRemoveFirst, ListRemoveLast, HandOut, NodesOf
  <1>2. next[l] \in NodesOf(l) /\ prev[l] \in NodesOf(l)
    BY <1>1, NeighboursIn
  <1>3. CASE ListRemoveFirst(l)
    BY <1>2, <1>3, HandOutKeeps DEF ListRemoveFirst
  <1>4. CASE ListRemoveLast(l)
    BY <1>2, <1>4, HandOutKeeps DEF ListRemoveLast
  <1>. QED
    BY <1>3, <1>4

\* append, prepend and the insertions.
LEMMA InsertionsKeep ==
    ASSUME LinksInv, NEW l \in Lists, NEW i \in ListItems,
           \/ ListAppend(l, i) \/ ListPrepend(l, i)
           \/ \E pos \in NodesOf(l) : ListInsertPos(l, pos, i)
           \/ \E idx \in -1..LengthBound : ListInsert(l, i, idx)
    PROVE  LinksInv'
  <1>1. l \in NodesOf(l) /\ (Usable(l) => next[l] \in NodesOf(l))
    BY NeighboursIn DEF NodesOf
  <1>2. CASE ListAppend(l, i)
    BY <1>1, <1>2, PutBeforeKeeps DEF ListAppend
  <1>3. CASE ListPrepend(l, i)
    <2>1. Usable(l)
      BY <1>3 DEF ListPrepend, PutBefore
    <2>. QED
      BY <1>1, <1>3, <2>1, PutBeforeKeeps DEF ListPrepend
  <1>4. CASE \E pos \in NodesOf(l) : ListInsertPos(l, pos, i)
    BY <1>4, PutBeforeKeeps DEF ListInsertPos
  <1>5. CASE \E idx \in -1..LengthBound : ListInsert(l, i, idx)
    <2>1. PICK idx \in -1..LengthBound : ListInsert(l, i, idx)
      BY <1>5
    <2>2. Usable(l)
      BY <2>1 DEF ListInsert
    <2>3. CASE idx = 0
      BY <1>1, <2>1, <2>2, <2>3, PutBeforeKeeps DEF ListInsert
    <2>4. CASE idx # 0
      <3>1. PICK pos : pos = next[IF idx <= 1 THEN next[l] ELSE contents[l][idx]]
        OBVIOUS
      <3>2. idx <= Len(contents[l]) /\ PutBefore(l, pos, i, 1) /\ UNCHANGED miscounted
        BY <2>1, <2>4, <3>1 DEF ListInsert
      <3>3. (IF idx <= 1 THEN next[l] ELSE contents[l][idx]) \in NodesOf(l)
        <4>1. idx > 1 => idx \in 1..Len(contents[l])
          BY <3>2, ListAssumption
        <4>2. \A k \in 1..Len(contents[l]) : contents[l][k] \in NodesOf(l)
          BY ListFacts, LenProperties DEF NodesOf, Range
        <4>. QED
          BY <1>1, <2>2, <4>1, <4>2
      <3>4. pos \in NodesOf(l)
        BY <2>2, <3>1, <3>3, NeighboursIn
      <3>. QED
        BY <3>2, <3>4, PutBeforeKeeps
    <2>. QED
      BY <2>3, <2>4
  <1>. QED
    BY <1>2, <1>3, <1>4, <1>5

-----------------------------------------------------------------------------
\* Lists that are destructed, and sorted.
LEMMA DestructKeeps ==
    ASSUME LinksInv, NEW l \in Lists, ListDestruct(l)
    PROVE  LinksInv'
  <1>1. /\ next' = [next EXCEPT ![l] = l] /\ prev' = [prev EXCEPT ![l] = l]
        /\ length' = [length EXCEPT ![l] = 0]
        /\ belong_to' = [belong_to EXCEPT ![l] = l]
        /\ contents' = [contents EXCEPT ![l] = <<>>]
        /\ miscounted' = miscounted \ {l}
    BY DEF ListDestruct
  <1>2. LinksType /\ l \in Nodes
    BY DEF LinksInv, Nodes
  <1>3. LinksType'
    <2>1. next' \in [Nodes -> Nodes \cup {NoItem}] /\ prev' \in [Nodes -> Nodes \cup {NoItem}]
      BY <1>1, <1>2 DEF LinksType
    <2>2. length' \in [Lists -> Int]
      BY <1>1, <1>2 DEF LinksType
    <2>3. belong_to' \in [Nodes -> Lists \cup {NoItem}]
      BY <1>1, <1>2 DEF LinksType
    <2>4. contents' \in [Lists -> Seq(ListItems)]
      BY <1>1, <1>2, EmptySeq DEF LinksType
    <2>. QED
      BY <1>1, <1>2, <2>1, <2>2, <2>3, <2>4 DEF LinksType
  <1>4. /\ next'[l] = l /\ prev'[l] = l /\ belong_to'[l] = l /\ contents'[l] = <<>>
        /\ length'[l] = 0
        /\ \A m \in Nodes : m # l => /\ next'[m] = next[m] /\ prev'[m] = prev[m]
                                     /\ belong_to'[m] = belong_to[m]
        /\ \A x \in Lists : x # l => contents'[x] = contents[x] /\ length'[x] = length[x]
    BY <1>1, <1>2 DEF LinksType
  <1>5. ListOK(l)'
    <2>1. Ring(next', prev', l, <<>>)
      BY <1>4 DEF Ring, NodeAt
    <2>2. NoRepeats(<<>>) /\ Len(<<>>) = 0
      BY DEF NoRepeats
    <2>. QED
      BY <1>4, <2>1, <2>2 DEF ListOK
  <1>6. ASSUME NEW x \in Lists, x # l PROVE ListOK(x)'
    <2>1. NodesOf(x) \subseteq Nodes /\ l \notin NodesOf(x)
      BY <1>6, ListFacts, ListsApart DEF NodesOf
    <2>2. \A m \in NodesOf(x) : /\ next'[m] = next[m] /\ prev'[m] = prev[m]
                                /\ belong_to'[m] = belong_to[m]
      BY <1>4, <2>1
    <2>3. contents'[x] = contents[x] /\ length'[x] = length[x]
      BY <1>4, <1>6
    <2>4. x \in miscounted' <=> x \in miscounted
      BY <1>1, <1>6
    <2>. QED
      BY <2>2, <2>3, <2>4, ListUntouched
  <1>. QED
    BY <1>3, <1>5, <1>6 DEF LinksInv

LEMMA DestructMacroKeeps ==
    ASSUME LinksInv, NEW l \in Lists, ListDestructMacro(l)
    PROVE  LinksInv'
  <1>1. PICK gone : gone = Range(contents[l])
    OBVIOUS
  <1>2. /\ next' = [n \in Nodes |-> IF n = l THEN l ELSE IF n \in gone THEN NoItem ELSE next[n]]
        /\ prev' = [n \in Nodes |-> IF n = l THEN l ELSE IF n \in gone THEN NoItem ELSE prev[n]]
        /\ length' = [length EXCEPT ![l] = 0]
        /\ belong_to' = [n \in Nodes |-> IF n \in gone THEN NoItem ELSE belong_to[n]]
        /\ contents' = [contents EXCEPT ![l] = <<>>]
        /\ UNCHANGED miscounted /\ Usable(l)
    BY <1>1 DEF ListDestructMacro
  <1>3. LinksType /\ l \in Nodes /\ l \notin gone /\ gone \subseteq NodesOf(l) /\ ListOK(l)
    BY <1>1, ListFacts DEF LinksInv, Nodes, NodesOf
  <1>4. LinksType'
    <2>1. next' \in [Nodes -> Nodes \cup {NoItem}] /\ prev' \in [Nodes -> Nodes \cup {NoItem}]
      BY <1>2, <1>3 DEF LinksType
    <2>2. length' \in [Lists -> Int]
      BY <1>2, <1>3 DEF LinksType
    <2>3. belong_to' \in [Nodes -> Lists \cup {NoItem}]
      BY <1>2, <1>3 DEF LinksType
    <2>4. contents' \in [Lists -> Seq(ListItems)]
      BY <1>2, <1>3, EmptySeq DEF LinksType
    <2>. QED
      BY <1>2, <1>3, <2>1, <2>2, <2>3, <2>4 DEF LinksType
  <1>5. /\ next'[l] = l /\ prev'[l] = l /\ belong_to'[l] = belong_to[l] /\ contents'[l] = <<>>
        /\ length'[l] = 0
        /\ \A m \in Nodes : m \notin NodesOf(l) => /\ next'[m] = next[m] /\ prev'[m] = prev[m]
                                                   /\ belong_to'[m] = belong_to[m]
        /\ \A x \in Lists : x # l => contents'[x] = contents[x] /\ length'[x] = length[x]
    BY <1>2, <1>3 DEF LinksType, NodesOf
  <1>6. ListOK(l)'
    <2>1. Ring(next', prev', l, <<>>)
      BY <1>5 DEF Ring, NodeAt
    <2>2. NoRepeats(<<>>) /\ Len(<<>>) = 0
      BY DEF NoRepeats
    <2>3. belong_to'[l] = l
      BY <1>2, <1>3, <1>5 DEF ListOK
    <2>. QED
      BY <1>5, <2>1, <2>2, <2>3 DEF ListOK
  <1>7. ASSUME NEW x \in Lists, x # l PROVE ListOK(x)'
    <2>1. NodesOf(x) \subseteq Nodes /\ NodesOf(l) \cap NodesOf(x) = {}
      BY <1>7, ListFacts, ListsApart
    <2>2. \A m \in NodesOf(x) : /\ next'[m] = next[m] /\ prev'[m] = prev[m]
                                /\ belong_to'[m] = belong_to[m]
      BY <1>5, <2>1
    <2>3. contents'[x] = contents[x] /\ length'[x] = length[x]
      BY <1>5, <1>7
    <2>4. x \in miscounted' <=> x \in miscounted
      BY <1>2
    <2>. QED
      BY <2>2, <2>3, <2>4, ListUntouched
  <1>. QED
    BY <1>4, <1>6, <1>7 DEF LinksInv

\* What is sorted has the same items.
LEMMA SortedSame ==
    ASSUME NEW c \in Seq(ListItems), NoRepeats(c), NEW s \in Sorted(c)
    PROVE  /\ s \in Seq(ListItems) /\ Len(s) = Len(c) /\ NoRepeats(s) /\ Range(s) = Range(c)
  <1>1. PICK n \in Nat : n = Len(c) /\ DOMAIN c = 1..n /\ \A k \in 1..n : c[k] \in ListItems
    BY LenProperties, ElementOfSeq
  <1>2. PICK q \in Bijection(DOMAIN c, DOMAIN c) : s = [k \in DOMAIN c |-> c[q[k]]]
    BY DEF Sorted
  <1>3. /\ q \in [1..n -> 1..n]
        /\ \A j, k \in 1..n : q[j] = q[k] => j = k
        /\ \A k \in 1..n : \E j \in 1..n : q[j] = k
    BY <1>1, <1>2 DEF Bijection, Injection, Surjection, IsInjective
  <1>4. s = [k \in 1..n |-> c[q[k]]]
    BY <1>1, <1>2
  <1>5. s \in [1..n -> ListItems]
    BY <1>1, <1>3, <1>4
  <1>6. s \in Seq(ListItems) /\ Len(s) = n
    BY <1>5
  <1>7. DOMAIN s = 1..n /\ \A k \in 1..n : s[k] = c[q[k]] /\ q[k] \in 1..n
    BY <1>3, <1>4
  <1>8. NoRepeats(s)
    <2>1. SUFFICES ASSUME NEW j \in 1..n, NEW k \in 1..n, s[j] = s[k] PROVE j = k
      BY <1>6 DEF NoRepeats
    <2>2. c[q[j]] = c[q[k]] /\ q[j] \in 1..n /\ q[k] \in 1..n
      BY <1>7, <2>1
    <2>3. q[j] = q[k]
      BY <1>1, <2>2 DEF NoRepeats
    <2>. QED
      BY <1>3, <2>3
  <1>9. Range(s) = Range(c)
    <2>1. Range(s) \subseteq Range(c)
      BY <1>1, <1>7 DEF Range
    <2>2. ASSUME NEW k \in 1..n PROVE c[k] \in Range(s)
      <3>1. PICK j \in 1..n : q[j] = k
        BY <1>3
      <3>2. s[j] = c[k]
        BY <1>7, <3>1
      <3>. QED
        BY <1>7, <3>2 DEF Range
    <2>3. Range(c) \subseteq Range(s)
      BY <1>1, <2>2 DEF Range
    <2>. QED
      BY <2>1, <2>3
  <1>. QED
    BY <1>1, <1>6, <1>8, <1>9

LEMMA SortKeeps ==
    ASSUME LinksInv, NEW l \in Lists, ListSort(l)
    PROVE  LinksInv'
  <1>1. PICK c : c = contents[l]
    OBVIOUS
  <1>2. /\ c \in Seq(ListItems) /\ Len(c) \in Nat /\ NoRepeats(c) /\ c # <<>>
        /\ Range(c) \subseteq ListItems /\ NodesOf(l) = {l} \cup Range(c)
        /\ l \notin ListItems /\ l \notin Range(c)
        /\ \A k \in Range(c) : belong_to[k] = l
    BY <1>1, ListFacts DEF NodesOf, ListSort
  <1>3. PICK s \in Sorted(c) :
          /\ next' = [k \in Nodes |-> IF k = l THEN s[1]
                        ELSE IF k \notin Range(s) THEN next[k]
                        ELSE IF k = s[Len(s)] THEN l ELSE s[At(s, k) + 1]]
          /\ prev' = [k \in Nodes |-> IF k = l THEN s[Len(s)]
                        ELSE IF k \notin Range(s) THEN prev[k]
                        ELSE IF k = s[1] THEN l ELSE s[At(s, k) - 1]]
          /\ contents' = [contents EXCEPT ![l] = s]
    BY <1>1 DEF ListSort
  <1>4. /\ s \in Seq(ListItems) /\ Len(s) = Len(c) /\ NoRepeats(s) /\ Range(s) = Range(c)
    BY <1>2, SortedSame
  <1>5. PICK n \in Nat : n = Len(s) /\ n >= 1 /\ DOMAIN s = 1..n
    BY <1>2, <1>4, LenProperties, EmptySeq
  <1>6. LinksType /\ l \in Nodes /\ Usable(l) /\ ListOK(l)
        /\ UNCHANGED <<length, belong_to, miscounted>>
    BY DEF LinksInv, Nodes, ListSort
  <1>7. \A k \in 1..n : /\ s[k] \in Range(s) /\ s[k] \in Nodes /\ s[k] # l /\ At(s, s[k]) = k
                        /\ \A j \in 1..n : s[j] = s[k] => j = k
    <2>1. ASSUME NEW k \in 1..n PROVE At(s, s[k]) = k
      <3>1. \A j \in 1..n : s[j] = s[k] => j = k
        BY <1>4, <1>5 DEF NoRepeats
      <3>. QED
        BY <1>5, <3>1 DEF At
    <2>2. \A k \in 1..n : s[k] \in Range(s)
      BY <1>5 DEF Range
    <2>3. \A j, k \in 1..n : s[j] = s[k] => j = k
      BY <1>4, <1>5 DEF NoRepeats
    <2>. QED
      BY <1>2, <1>4, <2>1, <2>2, <2>3 DEF Nodes
  <1>8. /\ next'[l] = s[1] /\ prev'[l] = s[n]
        /\ \A k \in 1..n : /\ next'[s[k]] = IF s[k] = s[n] THEN l ELSE s[At(s, s[k]) + 1]
                           /\ prev'[s[k]] = IF s[k] = s[1] THEN l ELSE s[At(s, s[k]) - 1]
        /\ \A m \in Nodes : m \notin NodesOf(l) => next'[m] = next[m] /\ prev'[m] = prev[m]
    BY <1>2, <1>3, <1>4, <1>5, <1>6, <1>7
  <1>9. /\ \A k \in 1..(n - 1) : next'[s[k]] = s[k + 1]
        /\ \A k \in 2..n : prev'[s[k]] = s[k - 1]
        /\ next'[s[n]] = l /\ prev'[s[1]] = l
    <2>1. n \in 1..n /\ 1 \in 1..n
      BY <1>5
    <2>2. \A k \in 1..(n - 1) : k \in 1..n /\ s[k] # s[n]
      BY <1>7, <2>1
    <2>3. \A k \in 2..n : k \in 1..n /\ s[k] # s[1]
      BY <1>7, <2>1
    <2>. QED
      BY <1>7, <1>8, <2>1, <2>2, <2>3
  <1>10. Ring(next', prev', l, s)
    <2>1. ASSUME NEW k \in 0..n
          PROVE  /\ next'[NodeAt(l, s, k)] = NodeAt(l, s, k + 1)
                 /\ prev'[NodeAt(l, s, k + 1)] = NodeAt(l, s, k)
      <3>1. CASE k = 0
        BY <1>5, <1>8, <1>9, <3>1 DEF NodeAt
      <3>2. CASE k = n
        BY <1>5, <1>8, <1>9, <3>2 DEF NodeAt
      <3>3. CASE k # 0 /\ k # n
        <4>1. k \in 1..(n - 1) /\ k \in 1..n /\ k + 1 \in 1..n /\ k + 1 \in 2..n /\ k + 1 - 1 = k
          BY <3>3
        <4>2. next'[s[k]] = s[k + 1] /\ prev'[s[k + 1]] = s[k]
          BY <1>9, <4>1
        <4>. QED
          BY <1>5, <4>1, <4>2 DEF NodeAt
      <3>. QED
        BY <3>1, <3>2, <3>3
    <2>. QED
      BY <1>5, <2>1 DEF Ring
  <1>11. contents'[l] = s /\ \A x \in Lists : x # l => contents'[x] = contents[x]
    BY <1>3, <1>6 DEF LinksType
  <1>12. LinksType'
    <2>1. next' \in [Nodes -> Nodes \cup {NoItem}]
      <3>1. \A m \in Nodes : m \notin NodesOf(l) => next'[m] \in Nodes \cup {NoItem}
        BY <1>6, <1>8 DEF LinksType
      <3>2. \A m \in NodesOf(l) : m = l \/ \E k \in 1..n : m = s[k]
        BY <1>2, <1>4, <1>5 DEF Range
      <3>3. \A k \in 1..n : next'[s[k]] \in Nodes
        <4>1. \A k \in 1..n : k = n \/ (k \in 1..(n - 1) /\ k + 1 \in 1..n)
          OBVIOUS
        <4>. QED
          BY <1>6, <1>7, <1>9, <4>1
      <3>4. next'[l] \in Nodes
        BY <1>5, <1>7, <1>8
      <3>5. \A m \in Nodes : next'[m] \in Nodes \cup {NoItem}
        BY <3>1, <3>2, <3>3, <3>4
      <3>6. PICK f : f = next'
        OBVIOUS
      <3>7. f = [k \in Nodes |-> f[k]]
        BY <1>3, <3>6
      <3>. QED
        BY <3>5, <3>6, <3>7
    <2>2. prev' \in [Nodes -> Nodes \cup {NoItem}]
      <3>1. \A m \in Nodes : m \notin NodesOf(l) => prev'[m] \in Nodes \cup {NoItem}
        BY <1>6, <1>8 DEF LinksType
      <3>2. \A m \in NodesOf(l) : m = l \/ \E k \in 1..n : m = s[k]
        BY <1>2, <1>4, <1>5 DEF Range
      <3>3. \A k \in 1..n : prev'[s[k]] \in Nodes
        <4>1. \A k \in 1..n : k = 1 \/ (k \in 2..n /\ k - 1 \in 1..n)
          OBVIOUS
        <4>. QED
          BY <1>6, <1>7, <1>9, <4>1
      <3>4. prev'[l] \in Nodes
        BY <1>5, <1>7, <1>8
      <3>5. \A m \in Nodes : prev'[m] \in Nodes \cup {NoItem}
        BY <3>1, <3>2, <3>3, <3>4
      <3>6. PICK f : f = prev'
        OBVIOUS
      <3>7. f = [k \in Nodes |-> f[k]]
        BY <1>3, <3>6
      <3>. QED
        BY <3>5, <3>6, <3>7
    <2>3. contents' \in [Lists -> Seq(ListItems)]
      BY <1>3, <1>4, <1>6 DEF LinksType
    <2>. QED
      BY <1>6, <2>1, <2>2, <2>3 DEF LinksType
  <1>13. ListOK(l)'
    <2>1. \A k \in 1..Len(s) : belong_to'[s[k]] = l
      BY <1>2, <1>4, <1>5, <1>6, <1>7
    <2>2. belong_to'[l] = l /\ Usable(l)'
      <3>1. s[1] \in Nodes
        BY <1>5, <1>7
      <3>. QED
        BY <1>6, <1>8, <3>1, ListAssumption DEF ListOK, Usable, Nodes
    <2>3. l \notin miscounted' => length'[l] = Len(s)
      BY <1>1, <1>4, <1>6 DEF ListOK
    <2>. QED
      BY <1>4, <1>10, <1>11, <2>1, <2>2, <2>3 DEF ListOK
  <1>14. ASSUME NEW x \in Lists, x # l PROVE ListOK(x)'
    <2>1. NodesOf(x) \subseteq Nodes /\ NodesOf(l) \cap NodesOf(x) = {}
      BY <1>14, ListFacts, ListsApart
    <2>2. \A m \in NodesOf(x) : /\ next'[m] = next[m] /\ prev'[m] = prev[m]
                                /\ belong_to'[m] = belong_to[m]
      BY <1>6, <1>8, <2>1
    <2>3. contents'[x] = contents[x] /\ length'[x] = length[x]
      BY <1>6, <1>11, <1>14
    <2>4. x \in miscounted' <=> x \in miscounted
      BY <1>6
    <2>. QED
      BY <2>2, <2>3, <2>4, ListUntouched
  <1>. QED
    BY <1>12, <1>13, <1>14 DEF LinksInv

-----------------------------------------------------------------------------
\* A part of a list, as a sequence of its own.
IsSegment(t, c, a, b, l) ==
    /\ t # <<>> /\ Len(t) = b - a /\ NoRepeats(t)
    /\ Range(t) = {c[k] : k \in a..(b - 1)} /\ Range(t) \subseteq Range(c)
    /\ \A k \in 1..(b - a) : t[k] = NodeAt(l, c, a + k - 1)

LEMMA Segment ==
    ASSUME NEW S, NEW c \in Seq(S), NEW b \in 1..(Len(c) + 1), NEW a \in 1..(b - 1),
           NEW t \in Seq(S), IsPart(t, c, a, b - 1), NoRepeats(c), NEW l
    PROVE  IsSegment(t, c, a, b, l)
  <1>1. PICK n \in Nat : n = Len(c) /\ DOMAIN c = 1..n
    BY LenProperties
  <1>2. a \in Int /\ b \in Int /\ 1 <= a /\ a <= b - 1 /\ b <= n + 1
    BY <1>1
  <1>3. Len(t) = b - 1 - a + 1 /\ \A i \in 1..(b - 1 - a + 1) : t[i] = c[a + i - 1]
    BY DEF IsPart
  <1>4. b - 1 - a + 1 = b - a /\ b - a >= 1
    BY <1>2
  <1>5. Len(t) = b - a /\ \A i \in 1..(b - a) : t[i] = c[a + i - 1]
    BY <1>3, <1>4
  <1>6. DOMAIN t = 1..(b - a) /\ t # <<>>
    BY <1>4, <1>5, LenProperties, EmptySeq
  <1>7. \A i \in 1..(b - a) : a + i - 1 \in 1..n /\ a + i - 1 \in a..(b - 1)
    BY <1>2
  <1>8. \A i \in a..(b - 1) : i - a + 1 \in 1..(b - a) /\ a + (i - a + 1) - 1 = i /\ i \in 1..n
    BY <1>2
  <1>9. NoRepeats(t)
    <2>1. SUFFICES ASSUME NEW j \in 1..(b - a), NEW k \in 1..(b - a), t[j] = t[k] PROVE j = k
      BY <1>5 DEF NoRepeats
    <2>2. c[a + j - 1] = c[a + k - 1] /\ a + j - 1 \in 1..n /\ a + k - 1 \in 1..n
      BY <1>5, <1>7, <2>1
    <2>3. a + j - 1 = a + k - 1
      BY <1>1, <2>2 DEF NoRepeats
    <2>. QED
      BY <1>2, <2>3
  <1>10. Range(t) = {t[k] : k \in 1..(b - a)}
    BY <1>6 DEF Range
  <1>11. Range(t) \subseteq {c[k] : k \in a..(b - 1)}
    BY <1>5, <1>7, <1>10
  <1>12. ASSUME NEW k \in a..(b - 1) PROVE c[k] \in Range(t)
    <2>1. PICK i \in 1..(b - a) : a + i - 1 = k
      BY <1>8
    <2>. QED
      BY <1>5, <1>10, <2>1
  <1>13. {c[k] : k \in a..(b - 1)} \subseteq Range(c)
    BY <1>1, <1>8 DEF Range
  <1>14. \A k \in 1..(b - a) : t[k] = NodeAt(l, c, a + k - 1)
    BY <1>1, <1>5, <1>7 DEF NodeAt
  <1>. QED
    BY <1>5, <1>6, <1>9, <1>11, <1>12, <1>13, <1>14 DEF IsSegment

\* The nodes of a part of a ring are linked to each other.
SameInside(nx, pv, nx2, pv2, l, c, a, b) ==
    /\ \A k \in a..(b - 2) : nx2[NodeAt(l, c, k)] = nx[NodeAt(l, c, k)]
    /\ \A k \in (a + 1)..(b - 1) : pv2[NodeAt(l, c, k)] = pv[NodeAt(l, c, k)]

LEMMA SegmentChained ==
    ASSUME NEW S, NEW c \in Seq(S), NEW b \in 1..(Len(c) + 1), NEW a \in 1..(b - 1),
           NEW t \in Seq(S), IsPart(t, c, a, b - 1), NoRepeats(c), NEW l,
           NEW nx, NEW pv, NEW nx2, NEW pv2, Ring(nx, pv, l, c),
           SameInside(nx, pv, nx2, pv2, l, c, a, b)
    PROVE  Chained(nx2, pv2, t)
  <1>1. PICK n \in Nat : n = Len(c)
    BY LenProperties
  <1>2. a \in Int /\ b \in Int /\ 1 <= a /\ a <= b - 1 /\ b <= n + 1
    BY <1>1
  <1>3. Len(t) = b - a /\ \A k \in 1..(b - a) : t[k] = NodeAt(l, c, a + k - 1)
    <2>1. IsSegment(t, c, a, b, l)
      BY Segment
    <2>. QED
      BY <2>1 DEF IsSegment
  <1>4. \A k \in 0..n : /\ nx[NodeAt(l, c, k)] = NodeAt(l, c, k + 1)
                        /\ pv[NodeAt(l, c, k + 1)] = NodeAt(l, c, k)
    BY <1>1 DEF Ring
  <1>5. ASSUME NEW k \in 1..(b - a - 1)
        PROVE  nx2[t[k]] = t[k + 1] /\ pv2[t[k + 1]] = t[k]
    <2>1. PICK j \in Int : j = a + k - 1
      BY <1>2
    <2>2. /\ k \in 1..(b - a) /\ k + 1 \in 1..(b - a) /\ a + (k + 1) - 1 = j + 1
          /\ j \in 0..n /\ j \in a..(b - 2) /\ j + 1 \in (a + 1)..(b - 1)
      BY <1>2, <2>1
    <2>3. t[k] = NodeAt(l, c, j) /\ t[k + 1] = NodeAt(l, c, j + 1)
      BY <1>3, <2>1, <2>2
    <2>. QED
      BY <1>4, <2>2, <2>3 DEF SameInside
  <1>. QED
    BY <1>3, <1>5 DEF Chained

-----------------------------------------------------------------------------
\* ocoms_list_transfer from one list to another: the nodes [a, b) of list x are
\* taken to before the p-th node of list this.
CountsFollow(this, x, n) ==
    /\ length' \in [Lists -> Int] /\ miscounted' \subseteq Lists
    /\ this \notin miscounted' => length'[this] = Len(contents[this]) + n
    /\ x \notin miscounted' => length'[x] = Len(contents[x]) - n
    /\ \A l \in Lists : l # this /\ l # x =>
          length'[l] = length[l] /\ (l \in miscounted' <=> l \in miscounted)

Taken(this, p, x, a, b, moved) ==
    /\ Transfer(this, NodeAt(this, contents[this], p), NodeAt(x, contents[x], a),
                NodeAt(x, contents[x], b), moved)
    /\ contents' = [contents EXCEPT ![this] = InsertedBefore(@, p, moved),
                                    ![x] = CutOut(contents[x], a, b)]
    /\ CountsFollow(this, x, b - a)

LEMMA TransferBetweenKeeps ==
    ASSUME LinksInv, NEW this \in Lists, NEW x \in Lists, this # x, Usable(this), Usable(x),
           NEW b \in 1..(Len(contents[x]) + 1), NEW a \in 1..(b - 1),
           NEW p \in 1..(Len(contents[this]) + 1),
           NEW t \in Seq(ListItems), IsPart(t, contents[x], a, b - 1),
           Taken(this, p, x, a, b, t)
    PROVE  LinksInv'
  <1>1. PICK c, d : c = contents[this] /\ d = contents[x]
    OBVIOUS
  <1>2. /\ c \in Seq(ListItems) /\ Len(c) \in Nat /\ NoRepeats(c)
        /\ Range(c) \subseteq ListItems /\ NodesOf(this) \subseteq Nodes
        /\ this \notin ListItems /\ this \notin Range(c)
        /\ \A k \in 0..(Len(c) + 1) : NodeAt(this, c, k) \in NodesOf(this)
        /\ \A m \in Range(c) : belong_to[m] = this
    BY <1>1, ListFacts
  <1>3. /\ d \in Seq(ListItems) /\ Len(d) \in Nat /\ NoRepeats(d)
        /\ Range(d) \subseteq ListItems /\ NodesOf(x) \subseteq Nodes
        /\ x \notin ListItems /\ x \notin Range(d)
        /\ \A k \in 0..(Len(d) + 1) : NodeAt(x, d, k) \in NodesOf(x)
        /\ \A m \in Range(d) : belong_to[m] = x
    BY <1>1, ListFacts
  <1>4. NodesOf(this) \cap NodesOf(x) = {}
    BY ListsApart
  <1>. DEFINE f(k) == NodeAt(this, c, k)
              g(k) == NodeAt(x, d, k)
  <1>5. /\ Ring(next, prev, this, c) /\ ListOK(this) /\ belong_to[this] = this
        /\ Ring(next, prev, x, d) /\ ListOK(x) /\ belong_to[x] = x
    BY <1>1 DEF LinksInv, ListOK
  <1>6. /\ \A k \in 0..Len(c) : next[f(k)] = f(k + 1) /\ prev[f(k + 1)] = f(k)
        /\ \A k \in 0..Len(d) : next[g(k)] = g(k + 1) /\ prev[g(k + 1)] = g(k)
    BY <1>5 DEF Ring
  <1>7. /\ \A j, k \in 0..Len(c) : f(j) = f(k) => j = k
        /\ \A j, k \in 1..(Len(c) + 1) : f(j) = f(k) => j = k
    BY <1>2, NodesDiffer
  <1>8. /\ \A j, k \in 0..Len(d) : g(j) = g(k) => j = k
        /\ \A j, k \in 1..(Len(d) + 1) : g(j) = g(k) => j = k
    BY <1>3, NodesDiffer
  <1>9. /\ a \in Int /\ b \in Int /\ p \in Int /\ 1 <= a /\ a <= b - 1 /\ b <= Len(d) + 1
        /\ 1 <= p /\ p <= Len(c) + 1
    BY <1>1, <1>2, <1>3
  <1>10. IsSegment(t, d, a, b, x)
    BY <1>1, <1>3, Segment
  <1>11. /\ t # <<>> /\ Len(t) = b - a /\ NoRepeats(t)
         /\ Range(t) = {d[k] : k \in a..(b - 1)} /\ Range(t) \subseteq Range(d)
         /\ \A k \in 1..(b - a) : t[k] = g(a + k - 1)
    BY <1>10 DEF IsSegment
  <1>12. /\ p - 1 \in 0..Len(c) /\ p - 1 + 1 = p /\ p \in 0..(Len(c) + 1)
         /\ p - 1 \in 0..(Len(c) + 1)
         /\ a - 1 \in 0..Len(d) /\ a - 1 + 1 = a /\ a \in 0..(Len(d) + 1)
         /\ a \in 1..(Len(d) + 1) /\ b \in 1..(Len(d) + 1)
         /\ b - 1 \in 0..Len(d) /\ b - 1 + 1 = b /\ b \in 0..(Len(d) + 1)
         /\ a - 1 \in 0..(Len(d) + 1) /\ b - 1 \in 0..(Len(d) + 1)
         /\ a # b /\ a - 1 # b - 1
    BY <1>2, <1>3, <1>9
  <1>. HIDE DEF f, g
  <1>13. PICK pos, begin, end, u, v, w :
           /\ pos = f(p) /\ begin = g(a) /\ end = g(b)
           /\ u = prev[pos] /\ v = prev[begin] /\ w = prev[end]
    OBVIOUS
  <1>14. u = f(p - 1) /\ v = g(a - 1) /\ w = g(b - 1)
    BY <1>6, <1>12, <1>13
  <1>15. /\ pos \in NodesOf(this) /\ u \in NodesOf(this)
         /\ begin \in NodesOf(x) /\ end \in NodesOf(x) /\ v \in NodesOf(x) /\ w \in NodesOf(x)
    BY <1>2, <1>3, <1>12, <1>13, <1>14 DEF f, g
  <1>16. begin # end /\ v # w /\ pos # end
    BY <1>4, <1>8, <1>12, <1>13, <1>14, <1>15
  <1>17. Transfer(this, pos, begin, end, t)
    BY <1>1, <1>13 DEF Taken, f, g
  <1>18. /\ next' = [next EXCEPT ![w] = pos, ![v] = end, ![u] = begin]
         /\ prev' = [prev EXCEPT ![pos] = w, ![end] = v, ![begin] = u]
         /\ belong_to' = [n \in Nodes |-> IF n \in Range(t) THEN belong_to[pos]
                                          ELSE belong_to[n]]
    BY <1>13, <1>16, <1>17 DEF Transfer, NextAfterTransfer, PrevAfterTransfer
  <1>19. LinksType
    BY DEF LinksInv
  <1>20. /\ u \in Nodes /\ v \in Nodes /\ w \in Nodes
         /\ pos \in Nodes /\ begin \in Nodes /\ end \in Nodes
         /\ u # v /\ u # w /\ pos # end /\ pos # begin
    BY <1>2, <1>3, <1>4, <1>15
  <1>21. /\ next'[w] = pos /\ next'[v] = end /\ next'[u] = begin
         /\ \A m \in Nodes : m # u /\ m # v /\ m # w => next'[m] = next[m]
    BY <1>16, <1>18, <1>19, <1>20 DEF LinksType
  <1>22. /\ prev'[pos] = w /\ prev'[end] = v /\ prev'[begin] = u
         /\ \A m \in Nodes : m # pos /\ m # end /\ m # begin => prev'[m] = prev[m]
    BY <1>16, <1>18, <1>19, <1>20 DEF LinksType
  <1>23. belong_to[pos] = this
    <2>1. pos = this \/ pos \in Range(c)
      BY <1>1, <1>15 DEF NodesOf
    <2>. QED
      BY <1>2, <1>5, <2>1
  <1>24. \A m \in Nodes : belong_to'[m] = IF m \in Range(t) THEN this ELSE belong_to[m]
    BY <1>18, <1>23
  <1>25. PICK s \in Seq(ListItems) : IsInsertion(s, c, p, t)
    BY <1>1, <1>2, Insertion
  <1>26. PICK r \in Seq(ListItems) : IsCut(r, d, a, b)
    <2>1. a \in 1..b
      BY <1>9
    <2>. QED
      BY <1>1, <1>3, <2>1, CutShort
  <1>27. /\ contents' = [contents EXCEPT ![this] = s, ![x] = r]
         /\ contents'[this] = s /\ contents'[x] = r
         /\ \A l \in Lists : l # this /\ l # x => contents'[l] = contents[l]
    <2>1. s = InsertedBefore(c, p, t) /\ r = CutOut(d, a, b)
      BY <1>25, <1>26 DEF IsInsertion, IsCut
    <2>2. contents' = [contents EXCEPT ![this] = s, ![x] = r]
      BY <1>1, <1>19, <2>1 DEF Taken, LinksType
    <2>. QED
      BY <1>19, <2>2 DEF LinksType
  <1>28. Len(s) = Len(c) + (b - a) /\ Len(r) = Len(d) - (b - a)
    BY <1>11, <1>25, <1>26 DEF IsInsertion, IsCut
  <1>29. CountsFollow(this, x, b - a)
    BY DEF Taken
  <1>30. LinksType'
    <2>1. next' \in [Nodes -> Nodes \cup {NoItem}]
      BY <1>18, <1>19, <1>20 DEF LinksType
    <2>2. prev' \in [Nodes -> Nodes \cup {NoItem}]
      BY <1>18, <1>19, <1>20 DEF LinksType
    <2>3. belong_to' \in [Nodes -> Lists \cup {NoItem}]
      BY <1>18, <1>19, <1>23 DEF LinksType
    <2>4. contents' \in [Lists -> Seq(ListItems)]
      BY <1>19, <1>27 DEF LinksType
    <2>. QED
      BY <1>29, <2>1, <2>2, <2>3, <2>4 DEF LinksType, CountsFollow
  <1>31. Ring(next', prev', x, r)
    <2>1. SameOutside(next, prev, next', prev', x, d, a, b)
      <3>1. ASSUME NEW k \in 0..Len(d), k < a - 1 \/ k >= b
            PROVE  next'[g(k)] = next[g(k)]
        <4>1. k \in 0..(Len(d) + 1) /\ k # a - 1 /\ k # b - 1
          BY <1>3, <1>9, <3>1
        <4>2. g(k) \in NodesOf(x) /\ g(k) # v /\ g(k) # w
          BY <1>3, <1>8, <1>12, <1>14, <4>1 DEF g
        <4>. QED
          BY <1>3, <1>4, <1>15, <1>21, <4>2
      <3>2. ASSUME NEW k \in 1..(Len(d) + 1), k < a \/ k > b
            PROVE  prev'[g(k)] = prev[g(k)]
        <4>1. k \in 0..(Len(d) + 1) /\ k # a /\ k # b
          BY <1>3, <1>9, <3>2
        <4>2. g(k) \in NodesOf(x) /\ g(k) # begin /\ g(k) # end
          BY <1>3, <1>8, <1>12, <1>13, <4>1 DEF g
        <4>. QED
          BY <1>3, <1>4, <1>15, <1>22, <4>2
      <3>. QED
        BY <3>1, <3>2 DEF SameOutside, g
    <2>2. next'[NodeAt(x, d, a - 1)] = NodeAt(x, d, b)
          /\ prev'[NodeAt(x, d, b)] = NodeAt(x, d, a - 1)
      BY <1>13, <1>14, <1>21, <1>22 DEF g
    <2>3. a \in 1..b
      BY <1>9
    <2>. QED
      BY <1>1, <1>3, <1>5, <1>26, <2>1, <2>2, <2>3, RingCut
  <1>32. Ring(next', prev', this, s)
    <2>1. SameButAt(next, prev, next', prev', this, c, p)
      <3>1. ASSUME NEW k \in 0..Len(c), k # p - 1 PROVE next'[f(k)] = next[f(k)]
        <4>1. k \in 0..(Len(c) + 1)
          BY <1>2
        <4>2. f(k) \in NodesOf(this) /\ f(k) # u
          BY <1>2, <1>7, <1>12, <1>14, <3>1, <4>1 DEF f
        <4>. QED
          BY <1>2, <1>4, <1>15, <1>21, <4>2
      <3>2. ASSUME NEW k \in 1..(Len(c) + 1), k # p PROVE prev'[f(k)] = prev[f(k)]
        <4>1. k \in 0..(Len(c) + 1) /\ p \in 1..(Len(c) + 1)
          BY <1>1, <1>2
        <4>2. f(k) \in NodesOf(this) /\ f(k) # pos
          BY <1>2, <1>7, <1>13, <3>2, <4>1 DEF f
        <4>. QED
          BY <1>2, <1>4, <1>15, <1>22, <4>2
      <3>. QED
        BY <3>1, <3>2 DEF SameButAt, f
    <2>2. Chained(next', prev', t)
      <3>1. ASSUME NEW k \in a..(b - 2) PROVE next'[g(k)] = next[g(k)]
        <4>1. k \in 0..Len(d) /\ k \in 0..(Len(d) + 1) /\ k # a - 1 /\ k # b - 1
          BY <1>3, <1>9
        <4>2. g(k) \in NodesOf(x) /\ g(k) # v /\ g(k) # w
          BY <1>3, <1>8, <1>12, <1>14, <4>1 DEF g
        <4>. QED
          BY <1>3, <1>4, <1>15, <1>21, <4>2
      <3>2. ASSUME NEW k \in (a + 1)..(b - 1) PROVE prev'[g(k)] = prev[g(k)]
        <4>1. k \in 1..(Len(d) + 1) /\ k \in 0..(Len(d) + 1) /\ k # a /\ k # b
          BY <1>3, <1>9
        <4>2. g(k) \in NodesOf(x) /\ g(k) # begin /\ g(k) # end
          BY <1>3, <1>8, <1>12, <1>13, <4>1 DEF g
        <4>. QED
          BY <1>3, <1>4, <1>15, <1>22, <4>2
      <3>3. SameInside(next, prev, next', prev', x, d, a, b)
        BY <3>1, <3>2 DEF SameInside, g
      <3>. QED
        <4>1. IsPart(t, d, a, b - 1)
          BY <1>1
        <4>. QED
          BY <1>3, <1>5, <1>12, <3>3, <4>1, SegmentChained
    <2>3. Hooked(next', prev', NodeAt(this, c, p - 1), t, NodeAt(this, c, p))
      <3>1. /\ 1 \in 1..(b - a) /\ b - a \in 1..(b - a) /\ a + 1 - 1 = a
            /\ a + (b - a) - 1 = b - 1
        BY <1>9
      <3>2. t[1] = begin /\ t[Len(t)] = w
        BY <1>11, <1>13, <1>14, <3>1
      <3>. QED
        BY <1>13, <1>14, <1>21, <1>22, <3>2 DEF Hooked, f
    <2>. QED
      BY <1>1, <1>2, <1>5, <1>11, <1>25, <2>1, <2>2, <2>3, RingInserted
  <1>33. /\ NoRepeats(s) /\ Range(s) = Range(c) \cup Range(t)
         /\ NoRepeats(r) /\ Range(r) = Range(d) \ Range(t)
    <2>1. Range(c) \cap Range(t) = {}
      BY <1>1, <1>4, <1>11 DEF NodesOf
    <2>2. NoRepeats(s) /\ Range(s) = Range(c) \cup Range(t)
      BY <1>1, <1>2, <1>11, <1>25, <2>1, RangeInserted
    <2>3. a \in 1..b
      BY <1>9
    <2>4. CutFrom(r, d, {d[k] : k \in a..(b - 1)})
      BY <1>3, <1>12, <1>26, <2>3, RangeCut
    <2>. QED
      BY <1>11, <2>2, <2>4 DEF CutFrom
  <1>34. /\ belong_to'[this] = this /\ belong_to'[x] = x
         /\ \A m \in Range(s) : belong_to'[m] = this
         /\ \A m \in Range(r) : belong_to'[m] = x
    <2>1. this \in Nodes /\ x \in Nodes /\ Range(s) \subseteq Nodes /\ Range(r) \subseteq Nodes
      BY <1>2, <1>3, <1>11, <1>33 DEF Nodes
    <2>2. this \notin Range(t) /\ x \notin Range(t)
      BY <1>2, <1>3, <1>11
    <2>3. \A m \in Range(r) : m \notin Range(t) /\ belong_to[m] = x
      BY <1>3, <1>33
    <2>4. \A m \in Range(s) : m \in Range(t) \/ belong_to[m] = this
      BY <1>2, <1>33
    <2>. QED
      BY <1>5, <1>24, <2>1, <2>2, <2>3, <2>4
  <1>35. next'[this] # NoItem /\ next'[x] # NoItem
    <2>1. next[this] # NoItem /\ next[x] # NoItem /\ this \in Nodes /\ x \in Nodes
      BY DEF Usable, Nodes
    <2>2. next'[this] \in {pos, begin, end, next[this]} /\ next'[x] \in {pos, begin, end, next[x]}
      BY <1>21, <2>1
    <2>. QED
      BY <1>20, <2>1, <2>2, ListAssumption DEF Nodes
  <1>36. ListOK(this)'
    <2>1. \A k \in 1..Len(s) : belong_to'[s[k]] = this
      BY <1>34, LenProperties DEF Range
    <2>2. this \notin miscounted' => length'[this] = Len(s)
      BY <1>1, <1>28, <1>29 DEF CountsFollow
    <2>. QED
      BY <1>27, <1>32, <1>33, <1>34, <1>35, <2>1, <2>2 DEF ListOK, Usable
  <1>37. ListOK(x)'
    <2>1. \A k \in 1..Len(r) : belong_to'[r[k]] = x
      BY <1>34, LenProperties DEF Range
    <2>2. x \notin miscounted' => length'[x] = Len(r)
      BY <1>1, <1>28, <1>29 DEF CountsFollow
    <2>. QED
      BY <1>27, <1>31, <1>33, <1>34, <1>35, <2>1, <2>2 DEF ListOK, Usable
  <1>38. ASSUME NEW z \in Lists, z # this, z # x PROVE ListOK(z)'
    <2>1. contents'[z] = contents[z] /\ length'[z] = length[z]
      BY <1>27, <1>29, <1>38 DEF CountsFollow
    <2>2. z \in miscounted' <=> z \in miscounted
      BY <1>29, <1>38 DEF CountsFollow
    <2>3. /\ NodesOf(z) \cap NodesOf(this) = {} /\ NodesOf(z) \cap NodesOf(x) = {}
          /\ NodesOf(z) \subseteq Nodes
      BY <1>38, ListsApart, ListFacts
    <2>4. Range(t) \subseteq NodesOf(x)
      BY <1>1, <1>11 DEF NodesOf
    <2>5. \A m \in NodesOf(z) : /\ next'[m] = next[m] /\ prev'[m] = prev[m]
                                /\ belong_to'[m] = belong_to[m]
      BY <1>15, <1>21, <1>22, <1>24, <2>3, <2>4
    <2>. QED
      BY <2>1, <2>2, <2>5, ListUntouched
  <1>. QED
    BY <1>30, <1>36, <1>37, <1>38 DEF LinksInv

\* The nodes [a, b) of a list are taken to before its p-th node.
Moved(l, p, a, b, moved) ==
    /\ Transfer(l, NodeAt(l, contents[l], p), NodeAt(l, contents[l], a),
                NodeAt(l, contents[l], b), moved)
    /\ contents' = [contents EXCEPT
         ![l] = InsertedBefore(CutOut(contents[l], a, b), IF p < a THEN p ELSE p - (b - a), moved)]
    /\ UNCHANGED <<length, miscounted>>

\* Where the p-th node of a list is when [a, b) is cut out of it.
NodesStay(l, c, r, p, q, a, b) ==
    /\ q \in 1..(Len(r) + 1)
    /\ NodeAt(l, r, q - 1) = NodeAt(l, c, p - 1) /\ NodeAt(l, r, q) = NodeAt(l, c, p)
    /\ \A k \in 0..Len(r) : \E j \in 0..Len(c) :
          NodeAt(l, r, k) = NodeAt(l, c, j) /\ (j < a \/ j >= b)
    /\ \A k \in 1..(Len(r) + 1) : \E j \in 1..(Len(c) + 1) :
          NodeAt(l, r, k) = NodeAt(l, c, j) /\ (j < a \/ j >= b)

LEMMA PlaceAfterCut ==
    ASSUME NEW S, NEW c \in Seq(S), NEW b \in 1..(Len(c) + 1), NEW a \in 1..(b - 1),
           NEW p \in 1..(Len(c) + 1), p < a \/ p > b,
           NEW r \in Seq(S), IsCut(r, c, a, b), NEW l
    PROVE  NodesStay(l, c, r, p, IF p < a THEN p ELSE p - (b - a), a, b)
  <1>1. PICK n \in Nat : n = Len(c)
    BY LenProperties
  <1>2. a \in Int /\ b \in Int /\ p \in Int /\ 1 <= a /\ a <= b - 1 /\ b <= n + 1
        /\ 1 <= p /\ p <= n + 1 /\ a \in 1..b
    BY <1>1
  <1>3. PICK m \in Nat : m = Len(r) /\ m = n - (b - a)
    <2>1. Len(r) = n - (b - a)
      BY <1>1 DEF IsCut
    <2>2. n - (b - a) \in Nat
      BY <1>1, <1>2
    <2>. QED
      BY <2>1, <2>2
  <1>4. /\ \A k \in 0..(a - 1) : NodeAt(l, r, k) = NodeAt(l, c, k)
        /\ \A k \in a..(m + 1) : NodeAt(l, r, k) = NodeAt(l, c, k + (b - a))
    <2>1. /\ \A k \in 0..(a - 1) : NodeAt(l, r, k) = NodeAt(l, c, k)
          /\ \A k \in a..(Len(r) + 1) : NodeAt(l, r, k) = NodeAt(l, c, k + (b - a))
      BY <1>2, NodesCut
    <2>. QED
      BY <1>3, <2>1
  <1>5. PICK q \in Int : q = IF p < a THEN p ELSE p - (b - a)
    <2>1. (IF p < a THEN p ELSE p - (b - a)) \in Int
      BY <1>2
    <2>. QED
      BY <2>1, Zenon
  <1>6. q \in 1..(m + 1) /\ NodeAt(l, r, q - 1) = NodeAt(l, c, p - 1)
        /\ NodeAt(l, r, q) = NodeAt(l, c, p)
    <2>1. CASE p < a
      <3>1. q = p /\ p \in 0..(a - 1) /\ p - 1 \in 0..(a - 1) /\ q \in 1..(m + 1)
        BY <1>2, <1>3, <1>5, <2>1
      <3>. QED
        BY <1>4, <3>1
    <2>2. CASE p > b
      <3>1. /\ q = p - (b - a) /\ q \in a..(m + 1) /\ q - 1 \in a..(m + 1) /\ q \in 1..(m + 1)
            /\ q + (b - a) = p /\ q - 1 + (b - a) = p - 1
        BY <1>2, <1>3, <1>5, <2>2
      <3>. QED
        BY <1>4, <3>1
    <2>. QED
      BY <2>1, <2>2
  <1>7. ASSUME NEW k \in 0..(m + 1)
        PROVE  \E j \in 0..(n + 1) : /\ NodeAt(l, r, k) = NodeAt(l, c, j) /\ (j < a \/ j >= b)
                                     /\ k <= j /\ j <= k + (b - a)
    <2>1. CASE k < a
      <3>1. k \in 0..(a - 1) /\ k \in 0..(n + 1) /\ k <= k + (b - a)
        BY <1>2, <1>3, <2>1
      <3>. QED
        BY <1>4, <2>1, <3>1
    <2>2. CASE k >= a
      <3>1. PICK j \in 0..(n + 1) : j = k + (b - a)
        BY <1>2, <1>3
      <3>2. k \in a..(m + 1) /\ j >= b /\ k <= j /\ j <= k + (b - a)
        BY <1>2, <1>3, <2>2, <3>1
      <3>. QED
        BY <1>4, <3>1, <3>2
    <2>. QED
      BY <1>2, <2>1, <2>2
  <1>8. \A k \in 0..m : \E j \in 0..n :
          NodeAt(l, r, k) = NodeAt(l, c, j) /\ (j < a \/ j >= b)
    <2>1. SUFFICES ASSUME NEW k \in 0..m
                   PROVE \E j \in 0..n : NodeAt(l, r, k) = NodeAt(l, c, j) /\ (j < a \/ j >= b)
      OBVIOUS
    <2>2. k \in 0..(m + 1)
      BY <1>3
    <2>3. PICK j \in 0..(n + 1) : NodeAt(l, r, k) = NodeAt(l, c, j) /\ (j < a \/ j >= b)
                                  /\ k <= j /\ j <= k + (b - a)
      BY <1>7, <2>2
    <2>4. j \in 0..n
      BY <1>2, <1>3, <2>3
    <2>. QED
      BY <2>3, <2>4
  <1>9. \A k \in 1..(m + 1) : \E j \in 1..(n + 1) :
          NodeAt(l, r, k) = NodeAt(l, c, j) /\ (j < a \/ j >= b)
    <2>1. SUFFICES ASSUME NEW k \in 1..(m + 1)
                   PROVE \E j \in 1..(n + 1) : NodeAt(l, r, k) = NodeAt(l, c, j) /\ (j < a \/ j >= b)
      OBVIOUS
    <2>2. k \in 0..(m + 1)
      BY <1>3
    <2>3. PICK j \in 0..(n + 1) : NodeAt(l, r, k) = NodeAt(l, c, j) /\ (j < a \/ j >= b)
                                  /\ k <= j /\ j <= k + (b - a)
      BY <1>7, <2>2
    <2>4. j \in 1..(n + 1)
      BY <1>2, <1>3, <2>3
    <2>. QED
      BY <2>3, <2>4
  <1>10. NodesStay(l, c, r, p, q, a, b)
    BY <1>1, <1>3, <1>6, <1>8, <1>9 DEF NodesStay
  <1>. QED
    BY <1>5, <1>10

\* Put back where it was cut out, a part makes the list it was.
LEMMA CutAndPutBack ==
    ASSUME NEW S, NEW c \in Seq(S), NEW b \in 1..(Len(c) + 1), NEW a \in 1..(b - 1),
           NEW r \in Seq(S), IsCut(r, c, a, b), NEW t \in Seq(S), IsPart(t, c, a, b - 1),
           NEW s \in Seq(S), IsInsertion(s, r, a, t)
    PROVE  s = c
  <1>1. PICK n \in Nat : n = Len(c)
    BY LenProperties
  <1>2. a \in Int /\ b \in Int /\ 1 <= a /\ a <= b - 1 /\ b <= n + 1
    BY <1>1
  <1>3. /\ Len(r) = n - (b - a)
        /\ \A k \in 1..(a - 1) : r[k] = c[k]
        /\ \A k \in a..(n - (b - a)) : r[k] = c[k + (b - a)]
    BY <1>1 DEF IsCut
  <1>4. Len(t) = b - 1 - a + 1 /\ \A i \in 1..(b - 1 - a + 1) : t[i] = c[a + i - 1]
    BY DEF IsPart
  <1>5. /\ Len(s) = n
        /\ \A k \in 1..(a - 1) : s[k] = r[k]
        /\ \A k \in a..(b - 1) : s[k] = t[k - a + 1]
        /\ \A k \in b..n : s[k] = r[k - (b - a)]
    <2>1. /\ Len(s) = Len(r) + Len(t)
          /\ \A k \in 1..(a - 1) : s[k] = r[k]
          /\ \A k \in a..(a + Len(t) - 1) : s[k] = t[k - a + 1]
          /\ \A k \in (a + Len(t))..Len(s) : s[k] = r[k - Len(t)]
      BY DEF IsInsertion
    <2>2. /\ n - (b - a) + (b - 1 - a + 1) = n /\ a + (b - 1 - a + 1) - 1 = b - 1
          /\ a + (b - 1 - a + 1) = b /\ b - 1 - a + 1 = b - a
      BY <1>1, <1>2
    <2>. QED
      BY <1>3, <1>4, <2>1, <2>2
  <1>6. ASSUME NEW k \in 1..n PROVE s[k] = c[k]
    <2>1. CASE k < a
      <3>1. k \in 1..(a - 1)
        BY <2>1
      <3>. QED
        BY <1>3, <1>5, <3>1
    <2>2. CASE k >= a /\ k < b
      <3>1. k \in a..(b - 1) /\ k - a + 1 \in 1..(b - 1 - a + 1) /\ a + (k - a + 1) - 1 = k
        BY <1>2, <2>2
      <3>. QED
        BY <1>4, <1>5, <3>1
    <2>3. CASE k >= b
      <3>1. k \in b..n /\ k - (b - a) \in a..(n - (b - a)) /\ k - (b - a) + (b - a) = k
        BY <1>1, <1>2, <2>3
      <3>. QED
        BY <1>3, <1>5, <3>1
    <2>. QED
      BY <1>2, <2>1, <2>2, <2>3
  <1>. QED
    BY <1>1, <1>5, <1>6, SeqEqual

LEMMA TransferWithinKeeps ==
    ASSUME LinksInv, NEW l \in Lists, Usable(l),
           NEW b \in 1..(Len(contents[l]) + 1), NEW a \in 1..(b - 1),
           NEW p \in 1..(Len(contents[l]) + 1), p < a \/ p > b,
           NEW t \in Seq(ListItems), IsPart(t, contents[l], a, b - 1), Moved(l, p, a, b, t)
    PROVE  LinksInv'
  <1>1. PICK c : c = contents[l]
    OBVIOUS
  <1>2. /\ c \in Seq(ListItems) /\ Len(c) \in Nat /\ NoRepeats(c)
        /\ Range(c) \subseteq ListItems /\ NodesOf(l) \subseteq Nodes
        /\ l \notin ListItems /\ l \notin Range(c)
        /\ \A k \in 0..(Len(c) + 1) : NodeAt(l, c, k) \in NodesOf(l)
        /\ \A m \in Range(c) : belong_to[m] = l
    BY <1>1, ListFacts
  <1>. DEFINE g(k) == NodeAt(l, c, k)
  <1>3. Ring(next, prev, l, c) /\ ListOK(l) /\ belong_to[l] = l
    BY <1>1 DEF LinksInv, ListOK
  <1>4. \A k \in 0..Len(c) : next[g(k)] = g(k + 1) /\ prev[g(k + 1)] = g(k)
    BY <1>3 DEF Ring
  <1>5. /\ \A j, k \in 0..Len(c) : g(j) = g(k) => j = k
        /\ \A j, k \in 1..(Len(c) + 1) : g(j) = g(k) => j = k
    BY <1>2, NodesDiffer
  <1>6. /\ a \in Int /\ b \in Int /\ p \in Int /\ 1 <= a /\ a <= b - 1 /\ b <= Len(c) + 1
        /\ 1 <= p /\ p <= Len(c) + 1 /\ a \in 1..b
    BY <1>1, <1>2
  <1>7. IsSegment(t, c, a, b, l)
    BY <1>1, <1>2, Segment
  <1>8. /\ t # <<>> /\ Len(t) = b - a /\ NoRepeats(t)
        /\ Range(t) = {c[k] : k \in a..(b - 1)} /\ Range(t) \subseteq Range(c)
        /\ \A k \in 1..(b - a) : t[k] = g(a + k - 1)
    BY <1>7 DEF IsSegment
  <1>9. /\ p - 1 \in 0..Len(c) /\ p - 1 + 1 = p /\ p \in 1..(Len(c) + 1)
        /\ a - 1 \in 0..Len(c) /\ a - 1 + 1 = a /\ a \in 1..(Len(c) + 1)
        /\ b - 1 \in 0..Len(c) /\ b - 1 + 1 = b /\ b \in 1..(Len(c) + 1)
        /\ a # b /\ a - 1 # b - 1 /\ p # a /\ p - 1 # a - 1 /\ p # b /\ p - 1 # b - 1
    BY <1>2, <1>6
  <1>10. \A k \in 0..Len(c) : k \in 0..(Len(c) + 1)
    BY <1>2
  <1>11. \A k \in 1..(Len(c) + 1) : k \in 0..(Len(c) + 1)
    BY <1>2
  <1>12. \A k \in 0..(Len(c) + 1) : g(k) \in Nodes
    BY <1>2
  <1>13. /\ \A k \in 0..Len(c) : g(k) \in Nodes
         /\ \A k \in 1..(Len(c) + 1) : g(k) \in Nodes
    BY <1>10, <1>11, <1>12
  <1>. HIDE DEF g
  <1>14. PICK pos, begin, end, u, v, w :
           /\ pos = g(p) /\ begin = g(a) /\ end = g(b)
           /\ u = prev[pos] /\ v = prev[begin] /\ w = prev[end]
    OBVIOUS
  <1>15. u = g(p - 1) /\ v = g(a - 1) /\ w = g(b - 1)
    BY <1>4, <1>9, <1>14
  <1>16. /\ u \in Nodes /\ v \in Nodes /\ w \in Nodes
         /\ pos \in Nodes /\ begin \in Nodes /\ end \in Nodes
    BY <1>9, <1>13, <1>14, <1>15
  <1>17. /\ begin # end /\ pos # begin /\ pos # end
         /\ v # w /\ u # v /\ u # w
    BY <1>5, <1>9, <1>14, <1>15
  <1>18. Transfer(l, pos, begin, end, t)
    BY <1>1, <1>14 DEF Moved, g
  <1>19. /\ next' = [next EXCEPT ![w] = pos, ![v] = end, ![u] = begin]
         /\ prev' = [prev EXCEPT ![pos] = w, ![end] = v, ![begin] = u]
         /\ belong_to' = [n \in Nodes |-> IF n \in Range(t) THEN belong_to[pos]
                                          ELSE belong_to[n]]
    BY <1>14, <1>17, <1>18 DEF Transfer, NextAfterTransfer, PrevAfterTransfer
  <1>20. LinksType
    BY DEF LinksInv
  <1>21. belong_to[pos] = l
    <2>1. pos = l \/ pos \in Range(c)
      <3>1. pos \in NodesOf(l)
        BY <1>2, <1>9, <1>11, <1>14 DEF g
      <3>. QED
        BY <1>1, <3>1 DEF NodesOf
    <2>. QED
      BY <1>2, <1>3, <2>1
  <1>22. belong_to' = belong_to
    <2>1. \A m \in Nodes : belong_to'[m] = belong_to[m]
      BY <1>2, <1>8, <1>19, <1>21
    <2>2. belong_to = [n \in Nodes |-> belong_to[n]]
      BY <1>20 DEF LinksType
    <2>. QED
      BY <1>19, <2>1, <2>2
  <1>23. PICK nx, pv : nx = [next EXCEPT ![v] = end] /\ pv = [prev EXCEPT ![end] = v]
    OBVIOUS
  <1>24. /\ nx[v] = end /\ \A m \in Nodes : m # v => nx[m] = next[m]
         /\ pv[end] = v /\ \A m \in Nodes : m # end => pv[m] = prev[m]
    BY <1>16, <1>20, <1>23 DEF LinksType
  <1>25. /\ next'[w] = pos /\ next'[u] = begin
         /\ \A m \in Nodes : m # u /\ m # w => next'[m] = nx[m]
         /\ prev'[pos] = w /\ prev'[begin] = u
         /\ \A m \in Nodes : m # pos /\ m # begin => prev'[m] = pv[m]
    BY <1>16, <1>17, <1>19, <1>20, <1>23 DEF LinksType
  <1>26. PICK r \in Seq(ListItems) : IsCut(r, c, a, b)
    BY <1>2, <1>6, <1>9, CutShort
  <1>27. Ring(nx, pv, l, r)
    <2>1. SameOutside(next, prev, nx, pv, l, c, a, b)
      <3>1. ASSUME NEW k \in 0..Len(c), k < a - 1 \/ k >= b PROVE nx[g(k)] = next[g(k)]
        <4>1. k # a - 1
          BY <1>6, <3>1
        <4>. QED
          BY <1>5, <1>9, <1>13, <1>15, <1>24, <4>1
      <3>2. ASSUME NEW k \in 1..(Len(c) + 1), k < a \/ k > b PROVE pv[g(k)] = prev[g(k)]
        <4>1. k # b
          BY <1>6, <3>2
        <4>. QED
          BY <1>5, <1>9, <1>13, <1>14, <1>24, <4>1
      <3>. QED
        BY <3>1, <3>2 DEF SameOutside, g
    <2>2. nx[NodeAt(l, c, a - 1)] = NodeAt(l, c, b) /\ pv[NodeAt(l, c, b)] = NodeAt(l, c, a - 1)
      BY <1>14, <1>15, <1>24 DEF g
    <2>. QED
      BY <1>2, <1>3, <1>6, <1>9, <1>26, <2>1, <2>2, RingCut
  <1>28. PICK q : q = IF p < a THEN p ELSE p - (b - a)
    OBVIOUS
  <1>29. NodesStay(l, c, r, p, q, a, b)
    <2>1. NodesStay(l, c, r, p, IF p < a THEN p ELSE p - (b - a), a, b)
      BY <1>2, <1>9, <1>26, PlaceAfterCut
    <2>. QED
      BY <1>28, <2>1
  <1>. DEFINE f(k) == NodeAt(l, r, k)
  <1>30. /\ q \in 1..(Len(r) + 1) /\ f(q - 1) = u /\ f(q) = pos
         /\ \A k \in 0..Len(r) : \E j \in 0..Len(c) : f(k) = g(j) /\ (j < a \/ j >= b)
         /\ \A k \in 1..(Len(r) + 1) : \E j \in 1..(Len(c) + 1) :
               f(k) = g(j) /\ (j < a \/ j >= b)
    BY <1>14, <1>15, <1>29 DEF NodesStay, g
  <1>31. PICK s \in Seq(ListItems) : IsInsertion(s, r, q, t)
    BY <1>30, Insertion
  <1>32. CutFrom(r, c, {c[k] : k \in a..(b - 1)})
    BY <1>2, <1>6, <1>9, <1>26, RangeCut
  <1>33. NoRepeats(r) /\ Range(r) = Range(c) \ Range(t)
    BY <1>8, <1>32 DEF CutFrom
  <1>34. Len(r) \in Nat
    BY LenProperties
  <1>35. /\ \A j, k \in 0..Len(r) : f(j) = f(k) => j = k
         /\ \A j, k \in 1..(Len(r) + 1) : f(j) = f(k) => j = k
    <2>. HIDE DEF f
    <2>1. /\ \A j, k \in 0..Len(r) : NodeAt(l, r, j) = NodeAt(l, r, k) => j = k
          /\ \A j, k \in 1..(Len(r) + 1) : NodeAt(l, r, j) = NodeAt(l, r, k) => j = k
      BY <1>2, <1>33, NodesDiffer
    <2>. QED
      BY <2>1 DEF f
  <1>. HIDE DEF f
  <1>36. Ring(next', prev', l, s)
    <2>1. SameButAt(nx, pv, next', prev', l, r, q)
      <3>1. ASSUME NEW k \in 0..Len(r), k # q - 1 PROVE next'[f(k)] = nx[f(k)]
        <4>1. PICK j \in 0..Len(c) : f(k) = g(j) /\ (j < a \/ j >= b)
          BY <1>30
        <4>2. j # b - 1
          BY <1>6, <4>1
        <4>3. f(k) # w /\ f(k) \in Nodes
          BY <1>5, <1>9, <1>13, <1>15, <4>1, <4>2
        <4>4. q - 1 \in 0..Len(r)
          BY <1>30, <1>34
        <4>5. f(k) # u
          BY <1>30, <1>35, <3>1, <4>4
        <4>. QED
          BY <1>25, <4>3, <4>5
      <3>2. ASSUME NEW k \in 1..(Len(r) + 1), k # q PROVE prev'[f(k)] = pv[f(k)]
        <4>1. PICK j \in 1..(Len(c) + 1) : f(k) = g(j) /\ (j < a \/ j >= b)
          BY <1>30
        <4>2. j # a
          BY <1>6, <4>1
        <4>3. f(k) # begin /\ f(k) \in Nodes
          BY <1>5, <1>9, <1>13, <1>14, <4>1, <4>2
        <4>4. f(k) # pos
          BY <1>30, <1>35, <3>2
        <4>. QED
          BY <1>25, <4>3, <4>4
      <3>. QED
        BY <3>1, <3>2 DEF SameButAt, f
    <2>2. Chained(next', prev', t)
      <3>1. ASSUME NEW k \in a..(b - 2) PROVE next'[g(k)] = next[g(k)]
        <4>1. k \in 0..Len(c) /\ k # a - 1 /\ k # b - 1 /\ k # p - 1
          BY <1>2, <1>6
        <4>2. g(k) \in Nodes /\ g(k) # v /\ g(k) # w /\ g(k) # u
          BY <1>5, <1>9, <1>13, <1>15, <4>1
        <4>. QED
          BY <1>24, <1>25, <4>2
      <3>2. ASSUME NEW k \in (a + 1)..(b - 1) PROVE prev'[g(k)] = prev[g(k)]
        <4>1. k \in 1..(Len(c) + 1) /\ k # a /\ k # b /\ k # p
          BY <1>2, <1>6
        <4>2. g(k) \in Nodes /\ g(k) # begin /\ g(k) # end /\ g(k) # pos
          BY <1>5, <1>9, <1>13, <1>14, <4>1
        <4>. QED
          BY <1>24, <1>25, <4>2
      <3>3. SameInside(next, prev, next', prev', l, c, a, b)
        BY <3>1, <3>2 DEF SameInside, g
      <3>4. IsPart(t, c, a, b - 1)
        BY <1>1
      <3>. QED
        BY <1>2, <1>3, <1>9, <3>3, <3>4, SegmentChained
    <2>3. Hooked(next', prev', NodeAt(l, r, q - 1), t, NodeAt(l, r, q))
      <3>1. /\ 1 \in 1..(b - a) /\ b - a \in 1..(b - a) /\ a + 1 - 1 = a
            /\ a + (b - a) - 1 = b - 1
        BY <1>6
      <3>2. t[1] = begin /\ t[Len(t)] = w
        BY <1>8, <1>14, <1>15, <3>1
      <3>. QED
        BY <1>25, <1>30, <3>2 DEF Hooked, f
    <2>. QED
      BY <1>8, <1>27, <1>30, <1>31, <2>1, <2>2, <2>3, RingInserted
  <1>37. NoRepeats(s) /\ Range(s) = Range(c)
    <2>1. Range(r) \cap Range(t) = {}
      BY <1>33
    <2>2. NoRepeats(s) /\ Range(s) = Range(r) \cup Range(t)
      BY <1>8, <1>30, <1>31, <1>33, <2>1, RangeInserted
    <2>. QED
      BY <1>8, <1>33, <2>2
  <1>38. Len(s) = Len(c)
    <2>1. Len(s) = Len(r) + (b - a) /\ Len(r) = Len(c) - (b - a)
      BY <1>8, <1>26, <1>31 DEF IsInsertion, IsCut
    <2>. QED
      BY <1>2, <1>6, <2>1
  <1>39. /\ contents' = [contents EXCEPT ![l] = s] /\ contents'[l] = s
         /\ \A z \in Lists : z # l => contents'[z] = contents[z]
    <2>1. s = InsertedBefore(CutOut(c, a, b), q, t)
      BY <1>26, <1>31 DEF IsInsertion, IsCut
    <2>2. contents' = [contents EXCEPT ![l] = s]
      BY <1>1, <1>28, <2>1 DEF Moved
    <2>. QED
      BY <1>20, <2>2 DEF LinksType
  <1>40. UNCHANGED <<length, miscounted>>
    BY DEF Moved
  <1>41. LinksType'
    <2>1. next' \in [Nodes -> Nodes \cup {NoItem}]
      BY <1>16, <1>19, <1>20 DEF LinksType
    <2>2. prev' \in [Nodes -> Nodes \cup {NoItem}]
      BY <1>16, <1>19, <1>20 DEF LinksType
    <2>3. contents' \in [Lists -> Seq(ListItems)]
      BY <1>20, <1>39 DEF LinksType
    <2>. QED
      BY <1>20, <1>22, <1>40, <2>1, <2>2, <2>3 DEF LinksType
  <1>42. ListOK(l)'
    <2>1. \A k \in 1..Len(s) : belong_to'[s[k]] = l
      BY <1>2, <1>22, <1>37, LenProperties DEF Range
    <2>2. l \notin miscounted' => length'[l] = Len(s)
      BY <1>1, <1>3, <1>38, <1>40 DEF ListOK
    <2>3. Usable(l)'
      <3>1. next[l] # NoItem /\ l \in Nodes
        BY DEF Usable, Nodes
      <3>2. next'[l] \in {pos, begin, end, next[l]}
        BY <1>24, <1>25, <3>1
      <3>. QED
        BY <1>16, <3>1, <3>2, ListAssumption DEF Usable, Nodes
    <2>. QED
      BY <1>3, <1>22, <1>36, <1>37, <1>39, <2>1, <2>2, <2>3 DEF ListOK
  <1>43. ASSUME NEW z \in Lists, z # l PROVE ListOK(z)'
    <2>1. contents'[z] = contents[z] /\ length'[z] = length[z]
      BY <1>39, <1>40, <1>43
    <2>2. z \in miscounted' <=> z \in miscounted
      BY <1>40
    <2>3. NodesOf(z) \cap NodesOf(l) = {} /\ NodesOf(z) \subseteq Nodes
      BY <1>43, ListsApart, ListFacts
    <2>4. {pos, begin, end, u, v, w} \subseteq NodesOf(l)
      <3>1. /\ \A k \in 0..Len(c) : g(k) \in NodesOf(l)
            /\ \A k \in 1..(Len(c) + 1) : g(k) \in NodesOf(l)
        BY <1>2, <1>10, <1>11 DEF g
      <3>. QED
        BY <1>9, <1>14, <1>15, <3>1
    <2>5. \A m \in NodesOf(z) : next'[m] = next[m] /\ prev'[m] = prev[m]
      BY <1>24, <1>25, <2>3, <2>4
    <2>. QED
      BY <1>22, <2>1, <2>2, <2>5, ListUntouched
  <1>. QED
    BY <1>41, <1>42, <1>43 DEF LinksInv

-----------------------------------------------------------------------------
\* ocoms_list_join and ocoms_list_splice.
LEMMA UnchangedKeeps ==
    ASSUME LinksInv, UNCHANGED listVars
    PROVE  LinksInv'
  <1>1. LinksType'
    BY DEF LinksInv, LinksType, listVars
  <1>2. ASSUME NEW l \in Lists PROVE ListOK(l)'
    BY DEF LinksInv, ListOK, Usable, listVars
  <1>. QED
    BY <1>1, <1>2 DEF LinksInv

LEMMA JoinKeeps ==
    ASSUME LinksInv, NEW this \in Lists, NEW x \in Lists, NEW pos \in NodesOf(this),
           ListJoin(this, pos, x)
    PROVE  LinksInv'
  <1>1. PICK d : d = contents[x]
    OBVIOUS
  <1>2. /\ d \in Seq(ListItems) /\ Len(d) \in Nat /\ d # <<>>
        /\ this # x /\ Usable(this) /\ Usable(x) /\ LinksType /\ ListOK(this) /\ ListOK(x)
    BY <1>1, ListFacts DEF ListJoin, LinksInv
  <1>3. PICK n \in Nat : n = Len(d) /\ n >= 1
    BY <1>2, EmptySeq
  <1>4. PICK p : p = IndexOf(this, pos)
    OBVIOUS
  <1>5. p \in 1..(Len(contents[this]) + 1) /\ NodeAt(this, contents[this], p) = pos
    BY <1>4, IndexFound
  <1>6. NodeAt(x, d, 1) = next[x] /\ NodeAt(x, d, n + 1) = x
    <2>1. 0 \in 0..Len(d) /\ 0 + 1 = 1 /\ 0 \notin 1..n /\ n + 1 \notin 1..n
      BY <1>3
    <2>2. next[NodeAt(x, d, 0)] = NodeAt(x, d, 0 + 1)
      BY <1>1, <1>2, <2>1, Neighbours
    <2>. QED
      BY <1>3, <2>1, <2>2 DEF NodeAt
  <1>7. IsPart(d, d, 1, n + 1 - 1)
    <2>1. 1 \in 1..(Len(d) + 1) /\ n \in (1 - 1)..Len(d) /\ n + 1 - 1 = n
      BY <1>3
    <2>2. PICK t \in Seq(ListItems) : IsPart(t, d, 1, n)
      BY <1>2, <2>1, Part
    <2>3. Len(t) = Len(d) /\ \A i \in 1..Len(t) : t[i] = d[i]
      BY <1>3, <2>2 DEF IsPart
    <2>4. t = d
      BY <1>2, <2>3, SeqEqual
    <2>. QED
      BY <2>1, <2>2, <2>4
  <1>8. CutOut(d, 1, n + 1) = <<>>
    <2>1. n + 1 \in 1..(Len(d) + 1) /\ 1 \in 1..(n + 1)
      BY <1>3
    <2>2. PICK r \in Seq(ListItems) : IsCut(r, d, 1, n + 1)
      BY <1>2, <2>1, CutShort
    <2>3. r = CutOut(d, 1, n + 1) /\ Len(r) = 0
      BY <1>3, <2>2 DEF IsCut
    <2>. QED
      BY <2>2, <2>3, EmptySeq
  <1>9. CountsFollow(this, x, n + 1 - 1)
    <2>1. /\ length' = [length EXCEPT ![this] = @ + length[x], ![x] = 0]
          /\ miscounted' = (miscounted \ {x}) \cup (IF x \in miscounted THEN {this} ELSE {})
      BY DEF ListJoin
    <2>2. length' \in [Lists -> Int] /\ miscounted' \subseteq Lists
      BY <1>2, <2>1 DEF LinksType
    <2>3. this \notin miscounted' => length'[this] = Len(contents[this]) + (n + 1 - 1)
      <3>1. SUFFICES ASSUME this \notin miscounted'
                     PROVE  length'[this] = Len(contents[this]) + (n + 1 - 1)
        OBVIOUS
      <3>2. this \notin miscounted /\ x \notin miscounted
        BY <1>2, <2>1, <3>1
      <3>3. length[this] = Len(contents[this]) /\ length[x] = n
        BY <1>1, <1>2, <1>3, <3>2 DEF ListOK
      <3>4. length'[this] = length[this] + length[x]
        BY <1>2, <2>1 DEF LinksType
      <3>. QED
        BY <1>3, <3>3, <3>4
    <2>4. length'[x] = Len(contents[x]) - (n + 1 - 1)
      BY <1>1, <1>2, <1>3, <2>1 DEF LinksType
    <2>5. \A l \in Lists : l # this /\ l # x =>
            length'[l] = length[l] /\ (l \in miscounted' <=> l \in miscounted)
      BY <1>2, <2>1 DEF LinksType
    <2>. QED
      BY <2>2, <2>3, <2>4, <2>5 DEF CountsFollow
  <1>10. Taken(this, p, x, 1, n + 1, d)
    <2>1. Transfer(this, NodeAt(this, contents[this], p), NodeAt(x, contents[x], 1),
                   NodeAt(x, contents[x], n + 1), d)
      BY <1>1, <1>5, <1>6 DEF ListJoin
    <2>2. contents' = [contents EXCEPT ![this] = InsertedBefore(@, p, d),
                                       ![x] = CutOut(contents[x], 1, n + 1)]
      BY <1>1, <1>4, <1>8 DEF ListJoin
    <2>3. n + 1 - 1 = n
      BY <1>3
    <2>. QED
      BY <1>9, <2>1, <2>2, <2>3 DEF Taken
  <1>11. n + 1 \in 1..(Len(contents[x]) + 1) /\ 1 \in 1..(n + 1 - 1)
    BY <1>1, <1>3
  <1>. QED
    BY <1>1, <1>2, <1>5, <1>7, <1>10, <1>11, TransferBetweenKeeps

LEMMA SpliceKeeps ==
    ASSUME LinksInv, NEW this \in Lists, NEW x \in Lists, NEW pos \in NodesOf(this),
           NEW first \in NodesOf(x), NEW last \in NodesOf(x),
           ListSplice(this, pos, x, first, last)
    PROVE  LinksInv'
  <1>1. PICK d : d = contents[x]
    OBVIOUS
  <1>2. PICK a, b, p : a = IndexOf(x, first) /\ b = IndexOf(x, last) /\ p = IndexOf(this, pos)
    OBVIOUS
  <1>3. PICK t, r : t = SubSeq(d, a, b - 1) /\ r = CutOut(d, a, b)
    OBVIOUS
  <1>4. /\ Usable(this) /\ Usable(x) /\ a < b /\ pos \notin Range(t)
        /\ Transfer(this, pos, first, last, t)
        /\ length' = [length EXCEPT ![this] = @ + (b - a), ![x] = @ - (b - a)]
        /\ contents' =
             IF this = x
             THEN [contents EXCEPT
                     ![x] = InsertedBefore(r, IF p < a THEN p ELSE p - (b - a), t)]
             ELSE [contents EXCEPT ![this] = InsertedBefore(@, p, t), ![x] = r]
        /\ UNCHANGED miscounted
    BY <1>1, <1>2, <1>3 DEF ListSplice
  <1>5. /\ d \in Seq(ListItems) /\ Len(d) \in Nat /\ NoRepeats(d)
        /\ LinksType /\ ListOK(this) /\ ListOK(x)
    BY <1>1, ListFacts DEF LinksInv
  <1>6. /\ a \in 1..(Len(d) + 1) /\ NodeAt(x, d, a) = first
        /\ b \in 1..(Len(d) + 1) /\ NodeAt(x, d, b) = last
        /\ p \in 1..(Len(contents[this]) + 1) /\ NodeAt(this, contents[this], p) = pos
    BY <1>1, <1>2, IndexFound
  <1>7. a \in 1..(b - 1) /\ b - 1 \in (a - 1)..Len(d) /\ a \in 1..b
    BY <1>4, <1>5, <1>6
  <1>8. t \in Seq(ListItems) /\ IsPart(t, d, a, b - 1)
    <2>1. PICK s \in Seq(ListItems) : IsPart(s, d, a, b - 1)
      BY <1>5, <1>6, <1>7, Part
    <2>. QED
      BY <1>3, <2>1 DEF IsPart
  <1>9. CASE this # x
    <2>1. CountsFollow(this, x, b - a)
      <3>1. length' \in [Lists -> Int] /\ miscounted' \subseteq Lists
        BY <1>4, <1>5, <1>6 DEF LinksType
      <3>2. length'[this] = length[this] + (b - a) /\ length'[x] = length[x] - (b - a)
        BY <1>4, <1>5, <1>9 DEF LinksType
      <3>3. \A l \in Lists : l # this /\ l # x =>
              length'[l] = length[l] /\ (l \in miscounted' <=> l \in miscounted)
        BY <1>4, <1>5 DEF LinksType
      <3>4. this \notin miscounted' => length'[this] = Len(contents[this]) + (b - a)
        BY <1>4, <1>5, <3>2 DEF ListOK
      <3>5. x \notin miscounted' => length'[x] = Len(contents[x]) - (b - a)
        BY <1>4, <1>5, <3>2 DEF ListOK
      <3>. QED
        BY <3>1, <3>3, <3>4, <3>5 DEF CountsFollow
    <2>2. Taken(this, p, x, a, b, t)
      BY <1>1, <1>3, <1>4, <1>6, <1>9, <2>1 DEF Taken
    <2>. QED
      BY <1>1, <1>4, <1>6, <1>7, <1>8, <1>9, <2>2, TransferBetweenKeeps
  <1>10. CASE this = x
    <2>1. UNCHANGED <<length, miscounted>>
      <3>1. length' = [length EXCEPT ![x] = @ + (b - a), ![x] = @ - (b - a)]
        BY <1>4, <1>10
      <3>2. PICK n \in Int : n = length[x]
        BY <1>5 DEF LinksType
      <3>3. a \in Int /\ b \in Int /\ n + (b - a) - (b - a) = n
        BY <1>5, <1>6, <3>2
      <3>4. length' \in [Lists -> Int] /\ length \in [Lists -> Int]
        BY <1>5, <3>1, <3>2, <3>3 DEF LinksType
      <3>5. \A l \in Lists : l # x => length'[l] = length[l]
        BY <3>1, <3>4
      <3>6. length'[x] = length[x]
        BY <3>1, <3>2, <3>3, <3>4
      <3>7. length' = length
        BY <3>4, <3>5, <3>6
      <3>. QED
        BY <1>4, <3>7
    <2>2. p < a \/ p >= b
      <3>1. SUFFICES ASSUME p \in a..(b - 1) PROVE FALSE
        BY <1>1, <1>5, <1>6, <1>10
      <3>2. IsSegment(t, d, a, b, x)
        BY <1>5, <1>6, <1>7, <1>8, Segment
      <3>3. d[p] \in Range(t) /\ p \in 1..Len(d)
        BY <1>5, <1>6, <1>7, <3>1, <3>2 DEF IsSegment
      <3>4. pos = d[p]
        BY <1>1, <1>6, <1>10, <3>3 DEF NodeAt
      <3>. QED
        BY <1>4, <3>3, <3>4
    <2>3. CASE p = b
      <3>1. pos = last
        BY <1>1, <1>6, <1>10, <2>3
      <3>2. UNCHANGED <<next, prev, belong_to>>
        BY <1>4, <3>1 DEF Transfer
      <3>3. contents' = [contents EXCEPT ![x] = InsertedBefore(r, a, t)]
        <4>1. (IF p < a THEN p ELSE p - (b - a)) = a
          BY <1>4, <1>6, <2>3
        <4>. QED
          BY <1>4, <1>10, <4>1
      <3>4. r \in Seq(ListItems) /\ IsCut(r, d, a, b)
        <4>1. PICK s \in Seq(ListItems) : IsCut(s, d, a, b)
          BY <1>5, <1>6, <1>7, CutShort
        <4>. QED
          BY <1>3, <4>1 DEF IsCut
      <3>5. a \in 1..(Len(r) + 1)
        <4>1. Len(r) = Len(d) - (b - a)
          BY <3>4 DEF IsCut
        <4>. QED
          BY <1>5, <1>6, <1>7, <4>1
      <3>6. PICK s \in Seq(ListItems) : IsInsertion(s, r, a, t)
        BY <1>8, <3>4, <3>5, Insertion
      <3>7. s = d
        BY <1>5, <1>6, <1>7, <1>8, <3>4, <3>6, CutAndPutBack
      <3>8. InsertedBefore(r, a, t) = d
        BY <3>6, <3>7 DEF IsInsertion
      <3>9. contents' = contents
        BY <1>1, <1>5, <3>3, <3>8 DEF LinksType
      <3>. QED
        BY <2>1, <3>2, <3>9, UnchangedKeeps DEF listVars
    <2>4. CASE p # b
      <3>1. p < a \/ p > b
        BY <1>6, <2>2, <2>4
      <3>2. Moved(x, p, a, b, t)
        BY <1>1, <1>3, <1>4, <1>6, <1>10, <2>1 DEF Moved
      <3>. QED
        BY <1>1, <1>4, <1>6, <1>7, <1>8, <1>10, <3>1, <3>2, TransferWithinKeeps
    <2>. QED
      BY <2>3, <2>4
  <1>. QED
    BY <1>9, <1>10

-----------------------------------------------------------------------------
LEMMA InitLinks == ListInit => LinksInv
  <1>. SUFFICES ASSUME ListInit PROVE LinksInv
    OBVIOUS
  <1>1. LinksType
    BY EmptySeq DEF ListInit, LinksType, Nodes
  <1>2. ASSUME NEW l \in Lists PROVE ListOK(l)
    <2>1. contents[l] = <<>> /\ next[l] = l /\ prev[l] = l /\ belong_to[l] = l /\ length[l] = 0
      BY DEF ListInit, Nodes
    <2>2. Ring(next, prev, l, <<>>) /\ NoRepeats(<<>>) /\ Len(<<>>) = 0
      BY <2>1 DEF Ring, NodeAt, NoRepeats
    <2>. QED
      BY <2>1, <2>2, ListAssumption DEF ListOK, Usable
  <1>. QED
    BY <1>1, <1>2 DEF LinksInv

LEMMA NextLinks == LinksInv /\ [ListNext]_listVars => LinksInv'
  <1>. SUFFICES ASSUME LinksInv, [ListNext]_listVars PROVE LinksInv'
    OBVIOUS
  <1>1. CASE UNCHANGED listVars
    BY <1>1, UnchangedKeeps
  <1>2. CASE ListNext
    <2>1. PICK l \in Lists :
       \/ \E i \in ListItems :
             \/ ListAppend(l, i) \/ ListPrepend(l, i) \/ ListRemoveItem(l, i)
             \/ \E pos \in NodesOf(l) : ListInsertPos(l, pos, i)
             \/ \E idx \in -1..LengthBound : ListInsert(l, i, idx)
       \/ ListRemoveFirst(l) \/ ListRemoveLast(l)
       \/ ListDestruct(l) \/ ListDestructMacro(l) \/ ListSort(l)
       \/ \E x \in Lists, pos \in NodesOf(l) :
             \/ ListJoin(l, pos, x)
             \/ \E first, last \in NodesOf(x) : ListSplice(l, pos, x, first, last)
      BY <1>2, Zenon DEF ListNext
    <2>2. CASE \E i \in ListItems :
             \/ ListAppend(l, i) \/ ListPrepend(l, i) \/ ListRemoveItem(l, i)
             \/ \E pos \in NodesOf(l) : ListInsertPos(l, pos, i)
             \/ \E idx \in -1..LengthBound : ListInsert(l, i, idx)
      <3>1. PICK i \in ListItems :
             \/ ListAppend(l, i) \/ ListPrepend(l, i) \/ ListRemoveItem(l, i)
             \/ \E pos \in NodesOf(l) : ListInsertPos(l, pos, i)
             \/ \E idx \in -1..LengthBound : ListInsert(l, i, idx)
        BY <2>2
      <3>2. CASE ListRemoveItem(l, i)
        BY <3>2, RemoveItemKeeps
      <3>3. CASE ~ListRemoveItem(l, i)
        BY <3>1, <3>3, InsertionsKeep
      <3>. QED
        BY <3>2, <3>3
    <2>3. CASE ListRemoveFirst(l) \/ ListRemoveLast(l)
      BY <2>3, RemoveEndsKeeps
    <2>4. CASE ListDestruct(l)
      BY <2>4, DestructKeeps
    <2>5. CASE ListDestructMacro(l)
      BY <2>5, DestructMacroKeeps
    <2>6. CASE ListSort(l)
      BY <2>6, SortKeeps
    <2>7. CASE \E x \in Lists, pos \in NodesOf(l) : ListJoin(l, pos, x)
      BY <2>7, JoinKeeps
    <2>8. CASE \E x \in Lists, pos \in NodesOf(l) :
                 \E first, last \in NodesOf(x) : ListSplice(l, pos, x, first, last)
      BY <2>8, SpliceKeeps
    <2>. QED
      BY <2>1, <2>2, <2>3, <2>4, <2>5, <2>6, <2>7, <2>8, Zenon
  <1>. QED
    BY <1>1, <1>2

\* A walk goes where the links lead.
IsWalk(g, l, n, link) ==
    /\ g = [k \in 0..(n + 1) |-> g[k]] /\ g[0] = l
    /\ \A k \in 1..(n + 1) : g[k] = link[g[k - 1]]

LEMMA WalkFollows ==
    ASSUME NEW l, NEW n \in Nat, NEW link,
           NEW g, IsWalk(g, l, n, link)
    PROVE  \A k \in 0..(n + 1) : Walk(l, n + 1, link)[k] = g[k]
  <1>. DEFINE defined(f) ==
                f = [k \in 0..(n + 1) |-> IF k = 0 THEN l ELSE link[f[k - 1]]]
              f0 == CHOOSE f : defined(f)
  <1>0. /\ g = [k \in 0..(n + 1) |-> g[k]] /\ g[0] = l
        /\ \A k \in 1..(n + 1) : g[k] = link[g[k - 1]]
    BY DEF IsWalk
  <1>1. g = [k \in 0..(n + 1) |-> IF k = 0 THEN l ELSE link[g[k - 1]]]
    <2>1. \A k \in 0..(n + 1) : k = 0 \/ k \in 1..(n + 1)
      OBVIOUS
    <2>. QED
      BY <1>0, <2>1
  <1>2. defined(g)
    BY <1>1
  <1>3. defined(f0)
    BY <1>2
  <1>4. PICK h : h = f0
    OBVIOUS
  <1>5. h = [k \in 0..(n + 1) |-> IF k = 0 THEN l ELSE link[h[k - 1]]]
    <2>1. defined(h)
      BY <1>3, <1>4
    <2>. QED
      BY <2>1
  <1>6. \A k \in 1..(n + 1) : k \in 0..(n + 1) /\ k # 0
    OBVIOUS
  <1>7. PICK e : e = [k \in 0..(n + 1) |-> IF k = 0 THEN l ELSE link[h[k - 1]]]
    OBVIOUS
  <1>8. e[0] = l /\ \A k \in 1..(n + 1) : e[k] = link[h[k - 1]]
    BY <1>6, <1>7
  <1>9. h[0] = l /\ \A k \in 1..(n + 1) : h[k] = link[h[k - 1]]
    BY <1>5, <1>7, <1>8
  <1>10. \A k \in 0..(n + 1) : h[k] = g[k]
    <2>1. SUFFICES ASSUME ~ \A k \in 0..(n + 1) : h[k] = g[k] PROVE FALSE
      OBVIOUS
    <2>2. PICK S : S = {k \in 0..(n + 1) : h[k] # g[k]}
      OBVIOUS
    <2>3. S \in SUBSET Nat /\ S # {}
      BY <2>1, <2>2
    <2>4. PICK k \in S : \A j \in S : k <= j
      BY <2>3, LeastElement
    <2>5. k \in 0..(n + 1) /\ h[k] # g[k] /\ h[0] = l
      BY <1>0, <1>9, <2>2, <2>4
    <2>6. k \in 1..(n + 1) /\ k - 1 \in 0..(n + 1) /\ k - 1 \notin S
      BY <1>0, <2>3, <2>4, <2>5
    <2>7. h[k - 1] = g[k - 1]
      BY <2>2, <2>6
    <2>. QED
      BY <1>0, <1>9, <2>5, <2>6, <2>7
  <1>. HIDE DEF f0, defined
  <1>11. \A k \in 0..(n + 1) : f0[k] = g[k]
    BY <1>4, <1>10
  <1>. QED
    BY <1>11 DEF Walk, f0, defined

LEMMA LinksFollow == LinksInv => LinksFollowContents
  <1>. SUFFICES ASSUME LinksInv, NEW l \in Lists, Usable(l)
                PROVE  LET n == Len(contents[l])
                           ahead == Walk(l, n + 1, next)
                           behind == Walk(l, n + 1, prev) IN
                       /\ ahead[n + 1] = l /\ behind[n + 1] = l
                       /\ \A k \in 1..n : /\ ahead[k] = contents[l][k]
                                          /\ behind[n + 1 - k] = contents[l][k]
                                          /\ belong_to[contents[l][k]] = l
                       /\ l \notin miscounted => length[l] = n
    BY DEF LinksFollowContents
  <1>1. PICK c : c = contents[l]
    OBVIOUS
  <1>2. PICK n \in Nat : n = Len(c)
    BY <1>1, ListFacts
  <1>3. ListOK(l)
    BY DEF LinksInv
  <1>4. PICK g : g = [k \in 0..(n + 1) |-> NodeAt(l, c, k)]
    OBVIOUS
  <1>5. PICK h : h = [k \in 0..(n + 1) |-> NodeAt(l, c, n + 1 - k)]
    OBVIOUS
  <1>6. \A k \in 0..n : /\ next[NodeAt(l, c, k)] = NodeAt(l, c, k + 1)
                        /\ prev[NodeAt(l, c, k + 1)] = NodeAt(l, c, k)
    BY <1>1, <1>2, Neighbours
  <1>7. IsWalk(g, l, n, next)
    <2>1. ASSUME NEW k \in 1..(n + 1) PROVE g[k] = next[g[k - 1]]
      <3>1. k \in 0..(n + 1) /\ k - 1 \in 0..(n + 1) /\ k - 1 \in 0..n /\ k - 1 + 1 = k
        OBVIOUS
      <3>2. g[k] = NodeAt(l, c, k) /\ g[k - 1] = NodeAt(l, c, k - 1)
        BY <1>4, <3>1
      <3>3. next[NodeAt(l, c, k - 1)] = NodeAt(l, c, k)
        BY <1>6, <3>1
      <3>. QED
        BY <3>2, <3>3
    <2>2. 0 \in 0..(n + 1) /\ NodeAt(l, c, 0) = l
      BY <1>2 DEF NodeAt
    <2>. QED
      BY <1>4, <2>1, <2>2 DEF IsWalk
  <1>8. IsWalk(h, l, n, prev)
    <2>1. ASSUME NEW k \in 1..(n + 1) PROVE h[k] = prev[h[k - 1]]
      <3>1. PICK j \in 0..n : j = n + 1 - k
        OBVIOUS
      <3>2. k \in 0..(n + 1) /\ k - 1 \in 0..(n + 1) /\ n + 1 - (k - 1) = j + 1
        BY <3>1
      <3>3. h[k] = NodeAt(l, c, j) /\ h[k - 1] = NodeAt(l, c, j + 1)
        BY <1>5, <3>1, <3>2
      <3>. QED
        BY <1>6, <3>3
    <2>2. 0 \in 0..(n + 1) /\ NodeAt(l, c, n + 1 - 0) = l
      BY <1>2 DEF NodeAt
    <2>. QED
      BY <1>5, <2>1, <2>2 DEF IsWalk
  <1>9. \A k \in 0..(n + 1) : Walk(l, n + 1, next)[k] = g[k]
    BY <1>7, WalkFollows
  <1>10. \A k \in 0..(n + 1) : Walk(l, n + 1, prev)[k] = h[k]
    BY <1>8, WalkFollows
  <1>11. n + 1 \in 0..(n + 1) /\ g[n + 1] = l /\ h[n + 1] = l
    <2>1. n + 1 \in 0..(n + 1) /\ n + 1 - (n + 1) = 0
          /\ NodeAt(l, c, n + 1) = l /\ NodeAt(l, c, 0) = l
      BY <1>2 DEF NodeAt
    <2>. QED
      BY <1>4, <1>5, <2>1
  <1>12. ASSUME NEW k \in 1..n
         PROVE  /\ k \in 0..(n + 1) /\ n + 1 - k \in 0..(n + 1)
                /\ g[k] = c[k] /\ h[n + 1 - k] = c[k]
    <2>1. k \in 0..(n + 1) /\ n + 1 - k \in 0..(n + 1) /\ n + 1 - (n + 1 - k) = k
          /\ NodeAt(l, c, k) = c[k]
      BY <1>2 DEF NodeAt
    <2>. QED
      BY <1>4, <1>5, <2>1
  <1>13. PICK ahead, behind : ahead = Walk(l, n + 1, next) /\ behind = Walk(l, n + 1, prev)
    OBVIOUS
  <1>14. ahead[n + 1] = l /\ behind[n + 1] = l
    BY <1>9, <1>10, <1>11, <1>13
  <1>15. \A k \in 1..n : ahead[k] = c[k] /\ behind[n + 1 - k] = c[k]
    BY <1>9, <1>10, <1>12, <1>13
  <1>16. /\ \A k \in 1..n : belong_to[c[k]] = l
         /\ l \notin miscounted => length[l] = n
    BY <1>1, <1>2, <1>3 DEF ListOK
  <1>. QED
    BY <1>1, <1>2, <1>13, <1>14, <1>15, <1>16

\* Whatever sequence of appends, inserts, removals, joins, splices, sorts and
\* destructions made the lists (ocoms_list.h, ocoms_list.c), with any number of
\* lists and items: walking a list by ocoms_list_next or by ocoms_list_prev
\* meets exactly its items, in their order, and ends at the sentinel; the items
\* belong to it; and ocoms_list_length counts them if none was inserted at 0.
THEOREM ListsAreLinked == ListSpec => []LinksFollowContents
  BY InitLinks, NextLinks, LinksFollow, PTL DEF ListSpec
=============================================================================
