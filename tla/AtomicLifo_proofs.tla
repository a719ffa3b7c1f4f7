-------------------------- MODULE AtomicLifo_proofs --------------------------
(***************************************************************************)
(* Proofs about AtomicLifo, for any number of threads and items.           *)
(*                                                                         *)
(* Represents is not inductive: that a pop unlinks the top of the stack    *)
(* needs the next pointer it read to be current when its compare-and-swap  *)
(* succeeds, which holds because the item's flag keeps every other thread  *)
(* from popping (and so from pushing again) the item it has claimed.       *)
(* FlagIsOwnership says that, and Locals ties the threads' local variables *)
(* to it.                                                                  *)
(***************************************************************************)
EXTENDS AtomicLifo, SequenceTheorems, TLAPS

Locals ==
    \A t \in Threads :
       /\ pc[t] \notin {"idle", "pop_read"} => item[t] \in Items
       /\ pc[t] \in {"push_read", "push_cas", "pop_clear"} =>
             owner[item[t]] = t
       /\ pc[t] = "pop_cas" => next[t] = ocoms_list_next[item[t]]

IInv == TypeOK /\ Represents /\ FlagIsOwnership /\ Locals

-----------------------------------------------------------------------------
\* What Append does to the positions of a stack.
LEMMA AppendPositions ==
    ASSUME NEW s \in Seq(Items), NEW i \in Items
    PROVE  /\ Append(s, i) \in Seq(Items)
           /\ Len(Append(s, i)) = Len(s) + 1
           /\ Append(s, i)[Len(s) + 1] = i
           /\ \A k \in 1..Len(s) : Append(s, i)[k] = s[k]
  OBVIOUS

\* What removing the top does to the positions of a stack.
LEMMA FrontPositions ==
    ASSUME NEW s \in Seq(Items), Len(s) # 0
    PROVE  /\ SubSeq(s, 1, Len(s) - 1) \in Seq(Items)
           /\ Len(SubSeq(s, 1, Len(s) - 1)) = Len(s) - 1
           /\ \A k \in 1..(Len(s) - 1) : SubSeq(s, 1, Len(s) - 1)[k] = s[k]
  <1>1. \A k \in 1..(Len(s) - 1) : s[k] \in Items
    BY ElementOfSeq
  <1>2. Len(s) \in Nat \ {0}
    OBVIOUS
  <1> DEFINE n == Len(s) - 1
  <1>3. n \in Nat /\ 1 \in Int /\ n \in Int
    BY <1>2
  <1>4. /\ SubSeq(s, 1, n) \in Seq(Items)
        /\ Len(SubSeq(s, 1, n)) = IF 1 <= n THEN n - 1 + 1 ELSE 0
        /\ \A k \in 1..(n - 1 + 1) : SubSeq(s, 1, n)[k] = s[1 + k - 1]
    <2> HIDE DEF n
    <2>1. \A k \in 1..n : s[k] \in Items
      BY <1>1 DEF n
    <2>. QED
      BY <1>3, <2>1, SubSeqProperties
  <1> HIDE DEF n
  <1>5. n - 1 + 1 = n /\ (n = 0 \/ 1 <= n)
    BY <1>3
  <1>6. \A k \in 1..n : SubSeq(s, 1, n)[k] = s[k]
    <2> TAKE k \in 1..n
    <2>1. 1 + k - 1 = k
      BY <1>3
    <2>. QED
      BY <1>4, <1>5, <2>1
  <1>7. Len(SubSeq(s, 1, n)) = n
    BY <1>4, <1>5, <1>3
  <1>. QED
    BY <1>4, <1>6, <1>7 DEF n

\* The stack without its top: the new head, and which items are left.
LEMMA RemoveTop ==
    ASSUME TypeOK, Represents, ocoms_lifo_head # Ghost
    PROVE  /\ Len(stack) \in Nat \ {0}
           /\ ocoms_lifo_head = stack[Len(stack)]
           /\ ocoms_lifo_head \in Items
           /\ owner[ocoms_lifo_head] = NoOwner
           /\ ocoms_list_next[ocoms_lifo_head] =
                IF Len(stack) = 1 THEN Ghost ELSE stack[Len(stack) - 1]
           /\ ocoms_list_next[ocoms_lifo_head] \in Items \cup {Ghost}
           /\ \A i \in Items \ {ocoms_lifo_head} :
                OnStack(i) <=> \E k \in 1..(Len(stack) - 1) : stack[k] = i
           /\ \A k \in 1..(Len(stack) - 1) :
                stack[k] \in Items \ {ocoms_lifo_head}
  <1> DEFINE n == Len(stack)
  <1>1. n \in Nat /\ \A k \in 1..n : stack[k] \in Items
    BY DEF TypeOK
  <1>2. n # 0 /\ ocoms_lifo_head = stack[n]
    BY DEF Represents
  <1> HIDE DEF n
  <1>3. n \in 1..n /\ n \in Nat \ {0} /\ ocoms_lifo_head \in Items
    BY <1>1, <1>2
  <1>4. ocoms_list_next[stack[n]] = IF n = 1 THEN Ghost ELSE stack[n - 1]
    BY <1>3 DEF Represents, n
  <1>5. n # 1 => n - 1 \in 1..n
    BY <1>3
  <1>6. ocoms_list_next[ocoms_lifo_head] \in Items \cup {Ghost}
    BY <1>1, <1>2, <1>4, <1>5
  <1>7. OnStack(ocoms_lifo_head)
    BY <1>2, <1>3 DEF OnStack, n
  <1>8. owner[ocoms_lifo_head] = NoOwner
    BY <1>3, <1>7 DEF Represents
  <1>9. \A k \in 1..n : k = n \/ k \in 1..(n - 1)
    BY <1>3
  <1>10. \A k \in 1..(n - 1) : k \in 1..n /\ k # n
    BY <1>3
  <1>11. \A k \in 1..(n - 1) : stack[k] \in Items /\ stack[k] # stack[n]
    BY <1>1, <1>3, <1>10 DEF Represents, n
  <1>12. \A i \in Items \ {ocoms_lifo_head} :
            OnStack(i) <=> \E k \in 1..(n - 1) : stack[k] = i
    BY <1>2, <1>9, <1>10 DEF OnStack, n
  <1>. QED
    BY <1>2, <1>3, <1>4, <1>6, <1>8, <1>11, <1>12 DEF n

\* The constructed list is an empty stack and the threads hold every item.
LEMMA InitIInv == Init => IInv
  BY ConstantsAssumption
  DEF Init, IInv, TypeOK, Represents, FlagIsOwnership, Locals, OnStack,
      Claims, Publishes, Pointers, Labels

-----------------------------------------------------------------------------
\* Every step of every thread preserves the inductive invariant.
LEMMA NextIInv == IInv /\ [Next]_vars => IInv'
  <1> SUFFICES ASSUME IInv, [Next]_vars
               PROVE  IInv'
    OBVIOUS
  <1> USE ConstantsAssumption
  <1>T. /\ TypeOK /\ Represents /\ FlagIsOwnership /\ Locals
        /\ Len(stack) \in Nat
        /\ \A k \in 1..Len(stack) : stack[k] \in Items
    BY DEF IInv, TypeOK
  <1>1. ASSUME NEW t \in Threads, PushRead(t)
        PROVE  IInv'
    <2>1. TypeOK'
      BY <1>T, <1>1 DEF PushRead, Goto, TypeOK, Pointers, Labels
    <2>2. Represents'
      <3>1. item[t] \in Items /\ ~OnStack(item[t])
        BY <1>T, <1>1 DEF PushRead, Goto, Represents, Locals
      <3>2. \A k \in 1..Len(stack) :
               ocoms_list_next'[stack[k]] = ocoms_list_next[stack[k]]
        BY <1>T, <1>1, <3>1 DEF PushRead, TypeOK, OnStack
      <3>3. ocoms_list_next'[Ghost] = ocoms_list_next[Ghost]
        BY <1>T, <1>1, <3>1 DEF PushRead, TypeOK
      <3>. QED
        BY <1>T, <1>1, <3>2, <3>3 DEF PushRead, Represents, OnStack
    <2>3. FlagIsOwnership'
      BY <1>T, <1>1 DEF PushRead, Goto, TypeOK, FlagIsOwnership, Locals, Claims, Publishes
    <2>4. Locals'
      BY <1>T, <1>1 DEF PushRead, Goto, TypeOK, Locals, FlagIsOwnership, Claims, Publishes
    <2>. QED  BY <2>1, <2>2, <2>3, <2>4 DEF IInv
  <1>2. ASSUME NEW t \in Threads, PushCas(t)
        PROVE  IInv'
    <2>1. TypeOK'
      BY <1>T, <1>2, AppendPositions
      DEF PushCas, Goto, TypeOK, Pointers, Labels, Locals
    <2>2. Represents'
      <3> DEFINE i == item[t]
                 n == Len(stack)
      <3>1. i \in Items /\ owner[i] = t /\ ~OnStack(i)
        BY <1>T, <1>2 DEF PushCas, Goto, Represents, Locals
      <3>2. /\ stack' = Append(stack, i)
            /\ ocoms_lifo_head' = i
            /\ ocoms_list_next' = ocoms_list_next
            /\ ocoms_list_next[i] = ocoms_lifo_head
            /\ owner' = [owner EXCEPT ![i] = NoOwner]
        BY <1>2 DEF PushCas
      <3>3. /\ Len(stack') = n + 1 /\ stack'[n + 1] = i
            /\ \A k \in 1..n : stack'[k] = stack[k]
        BY <1>T, <3>1, <3>2, AppendPositions DEF TypeOK
      <3>4. n \in Nat /\ \A k \in 1..n : stack[k] \in Items /\ stack[k] # i
        BY <1>T, <3>1 DEF OnStack
      <3> HIDE DEF i, n
      <3>5. \A k \in 1..(n + 1) :
               /\ k = n + 1 \/ k \in 1..n
               /\ k # 1 => k - 1 \in 1..n
        BY <3>4
      <3>6. ocoms_lifo_head' = IF Len(stack') = 0 THEN Ghost
                               ELSE stack'[Len(stack')]
        BY <3>2, <3>3, <3>4
      <3>7. ASSUME NEW k \in 1..(n + 1)
            PROVE  ocoms_list_next'[stack'[k]] =
                      IF k = 1 THEN Ghost ELSE stack'[k - 1]
        <4>1. CASE k = n + 1
          BY <1>T, <3>2, <3>3, <3>4, <3>5, <4>1 DEF Represents, n
        <4>2. CASE k \in 1..n
          BY <1>T, <3>2, <3>3, <3>5, <4>2 DEF Represents, n
        <4>. QED
          BY <3>5, <4>1, <4>2
      <3>8. ASSUME NEW j \in 1..(n + 1), NEW k \in 1..(n + 1),
                   stack'[j] = stack'[k]
            PROVE  j = k
        BY <1>T, <3>3, <3>4, <3>5, <3>8 DEF Represents, n
      <3>9. ASSUME NEW x \in Items
            PROVE  OnStack(x)' <=> owner'[x] = NoOwner
        <4>1. OnStack(x)' <=> x = i \/ OnStack(x)
          BY <3>3, <3>4, <3>5 DEF OnStack, n
        <4>2. owner'[x] = IF x = i THEN NoOwner ELSE owner[x]
          BY <1>T, <3>1, <3>2 DEF TypeOK
        <4>. QED
          BY <1>T, <4>1, <4>2 DEF Represents
      <3>. QED
        BY <1>T, <3>2, <3>3, <3>6, <3>7, <3>8, <3>9 DEF Represents
    <2>3. FlagIsOwnership'
      BY <1>T, <1>2 DEF PushCas, Goto, TypeOK, FlagIsOwnership, Locals, Claims, Publishes
    <2>4. Locals'
      BY <1>T, <1>2 DEF PushCas, Goto, TypeOK, Locals, FlagIsOwnership, Claims, Publishes
    <2>. QED  BY <2>1, <2>2, <2>3, <2>4 DEF IInv
  <1>3. ASSUME NEW t \in Threads, PushRetry(t)
        PROVE  IInv'
    <2>1. TypeOK'
      BY <1>T, <1>3 DEF PushRetry, Goto, TypeOK, Pointers, Labels
    <2>2. Represents'
      BY <1>T, <1>3 DEF PushRetry, Goto, TypeOK, Represents, Locals, OnStack
    <2>3. FlagIsOwnership'
      BY <1>T, <1>3 DEF PushRetry, Goto, TypeOK, FlagIsOwnership, Locals, Claims, Publishes
    <2>4. Locals'
      BY <1>T, <1>3 DEF PushRetry, Goto, TypeOK, Locals, FlagIsOwnership, Claims, Publishes
    <2>. QED  BY <2>1, <2>2, <2>3, <2>4 DEF IInv
  <1>4. ASSUME NEW t \in Threads, PushFree(t)
        PROVE  IInv'
    <2>1. TypeOK'
      BY <1>T, <1>4 DEF PushFree, Goto, TypeOK, Pointers, Labels
    <2>2. Represents'
      BY <1>T, <1>4 DEF PushFree, Goto, TypeOK, Represents, Locals, OnStack
    <2>3. FlagIsOwnership'
      BY <1>T, <1>4 DEF PushFree, Goto, TypeOK, FlagIsOwnership, Locals, Claims, Publishes
    <2>4. Locals'
      BY <1>T, <1>4 DEF PushFree, Goto, TypeOK, Locals, FlagIsOwnership, Claims, Publishes
    <2>. QED  BY <2>1, <2>2, <2>3, <2>4 DEF IInv
  <1>5. ASSUME NEW t \in Threads, PushReturn(t)
        PROVE  IInv'
    <2>1. TypeOK'
      BY <1>T, <1>5 DEF PushReturn, Goto, TypeOK, Pointers, Labels
    <2>2. Represents'
      BY <1>T, <1>5 DEF PushReturn, Goto, TypeOK, Represents, Locals, OnStack
    <2>3. FlagIsOwnership'
      BY <1>T, <1>5 DEF PushReturn, Goto, TypeOK, FlagIsOwnership, Locals, Claims, Publishes
    <2>4. Locals'
      BY <1>T, <1>5 DEF PushReturn, Goto, TypeOK, Locals, FlagIsOwnership, Claims, Publishes
    <2>. QED  BY <2>1, <2>2, <2>3, <2>4 DEF IInv
  <1>6. ASSUME NEW t \in Threads, PopCall(t)
        PROVE  IInv'
    <2>1. TypeOK'
      BY <1>T, <1>6 DEF PopCall, Goto, TypeOK, Pointers, Labels
    <2>2. Represents'
      BY <1>T, <1>6 DEF PopCall, Goto, TypeOK, Represents, Locals, OnStack
    <2>3. FlagIsOwnership'
      BY <1>T, <1>6 DEF PopCall, Goto, TypeOK, FlagIsOwnership, Locals, Claims, Publishes
    <2>4. Locals'
      BY <1>T, <1>6 DEF PopCall, Goto, TypeOK, Locals, FlagIsOwnership, Claims, Publishes
    <2>. QED  BY <2>1, <2>2, <2>3, <2>4 DEF IInv
  <1>7. ASSUME NEW t \in Threads, PopRead(t)
        PROVE  IInv'
    <2>1. TypeOK'
      BY <1>T, <1>7 DEF PopRead, Goto, TypeOK, Pointers, Labels
    <2>2. Represents'
      BY <1>T, <1>7 DEF PopRead, Goto, TypeOK, Represents, Locals, OnStack
    <2>3. FlagIsOwnership'
      BY <1>T, <1>7 DEF PopRead, Goto, TypeOK, FlagIsOwnership, Locals, Claims, Publishes
    <2>4. Locals'
      BY <1>T, <1>7 DEF PopRead, Goto, TypeOK, Locals, FlagIsOwnership, Claims, Publishes
    <2>. QED  BY <2>1, <2>2, <2>3, <2>4 DEF IInv
  <1>8. ASSUME NEW t \in Threads, PopEmpty(t)
        PROVE  IInv'
    <2>1. TypeOK'
      BY <1>T, <1>8 DEF PopEmpty, Goto, TypeOK, Pointers, Labels
    <2>2. Represents'
      BY <1>T, <1>8 DEF PopEmpty, Goto, TypeOK, Represents, Locals, OnStack
    <2>3. FlagIsOwnership'
      BY <1>T, <1>8 DEF PopEmpty, Goto, TypeOK, FlagIsOwnership, Locals, Claims, Publishes
    <2>4. Locals'
      BY <1>T, <1>8 DEF PopEmpty, Goto, TypeOK, Locals, FlagIsOwnership, Claims, Publishes
    <2>. QED  BY <2>1, <2>2, <2>3, <2>4 DEF IInv
  <1>9. ASSUME NEW t \in Threads, PopClaim(t)
        PROVE  IInv'
    <2>1. TypeOK'
      BY <1>T, <1>9 DEF PopClaim, Goto, TypeOK, Pointers, Labels
    <2>2. Represents'
      BY <1>T, <1>9 DEF PopClaim, Goto, TypeOK, Represents, Locals, OnStack
    <2>3. FlagIsOwnership'
      BY <1>T, <1>9 DEF PopClaim, Goto, TypeOK, FlagIsOwnership, Locals, Claims, Publishes
    <2>4. Locals'
      BY <1>T, <1>9 DEF PopClaim, Goto, TypeOK, Locals, FlagIsOwnership, Claims, Publishes
    <2>. QED  BY <2>1, <2>2, <2>3, <2>4 DEF IInv
  <1>10. ASSUME NEW t \in Threads, PopClaimFails(t)
        PROVE  IInv'
    <2>1. TypeOK'
      BY <1>T, <1>10 DEF PopClaimFails, Goto, TypeOK, Pointers, Labels
    <2>2. Represents'
      BY <1>T, <1>10 DEF PopClaimFails, Goto, TypeOK, Represents, Locals, OnStack
    <2>3. FlagIsOwnership'
      BY <1>T, <1>10 DEF PopClaimFails, Goto, TypeOK, FlagIsOwnership, Locals, Claims, Publishes
    <2>4. Locals'
      BY <1>T, <1>10 DEF PopClaimFails, Goto, TypeOK, Locals, FlagIsOwnership, Claims, Publishes
    <2>. QED  BY <2>1, <2>2, <2>3, <2>4 DEF IInv
  <1>11. ASSUME NEW t \in Threads, PopNext(t)
        PROVE  IInv'
    <2>1. TypeOK'
      BY <1>T, <1>11 DEF PopNext, Goto, TypeOK, Pointers, Labels, Locals
    <2>2. Represents'
      BY <1>T, <1>11 DEF PopNext, Goto, TypeOK, Represents, Locals, OnStack
    <2>3. FlagIsOwnership'
      BY <1>T, <1>11 DEF PopNext, Goto, TypeOK, FlagIsOwnership, Locals, Claims, Publishes
    <2>4. Locals'
      BY <1>T, <1>11 DEF PopNext, Goto, TypeOK, Locals, FlagIsOwnership, Claims, Publishes
    <2>. QED  BY <2>1, <2>2, <2>3, <2>4 DEF IInv
  <1>12. ASSUME NEW t \in Threads, PopCas(t)
        PROVE  IInv'
    <2>0. /\ ocoms_lifo_head = item[t] /\ item[t] \in Items
          /\ next[t] = ocoms_list_next[ocoms_lifo_head]
          /\ ocoms_lifo_head # Ghost
      BY <1>T, <1>12 DEF PopCas, Goto, Locals
    <2>1. TypeOK'
      BY <1>T, <1>12, <2>0, RemoveTop, FrontPositions
      DEF PopCas, Goto, TypeOK, Pointers, Labels
    <2>2. Represents'
      <3> DEFINE front == SubSeq(stack, 1, Len(stack) - 1)
      <3>1. /\ Len(front) = Len(stack) - 1
            /\ \A k \in 1..(Len(stack) - 1) : front[k] = stack[k]
        BY <1>T, <2>0, RemoveTop, FrontPositions DEF TypeOK
      <3>2. /\ stack' = front
            /\ ocoms_lifo_head' = ocoms_list_next[ocoms_lifo_head]
            /\ ocoms_list_next' = ocoms_list_next
            /\ owner' = [owner EXCEPT ![ocoms_lifo_head] = t]
        BY <1>12, <2>0 DEF PopCas
      <3> HIDE DEF front
      <3>3. ocoms_lifo_head' = IF Len(front) = 0 THEN Ghost
                               ELSE front[Len(front)]
        BY <1>T, <2>0, <3>1, <3>2, RemoveTop
      <3>4. ASSUME NEW i \in Items
            PROVE  OnStack(i)' <=> owner'[i] = NoOwner
        <4>1. OnStack(i)' <=> \E k \in 1..(Len(stack) - 1) : stack[k] = i
          BY <3>1, <3>2 DEF OnStack
        <4>2. CASE i = ocoms_lifo_head
          <5>1. owner'[i] = t
            BY <1>T, <3>2, <4>2 DEF TypeOK
          <5>. QED
            BY <1>T, <2>0, <4>1, <4>2, <5>1, RemoveTop
        <4>3. CASE i # ocoms_lifo_head
          <5>1. owner'[i] = owner[i]
            BY <1>T, <3>2, <4>3 DEF TypeOK
          <5>2. OnStack(i)' <=> OnStack(i)
            BY <1>T, <2>0, <4>1, <4>3, RemoveTop
          <5>. QED
            BY <1>T, <5>1, <5>2 DEF Represents
        <4>. QED
          BY <4>2, <4>3
      <3>5. \A k \in 1..Len(front) : k \in 1..Len(stack) /\
               (k # 1 => k - 1 \in 1..Len(front))
        BY <1>T, <3>1
      <3>6. \A k \in 1..Len(front) :
               ocoms_list_next[front[k]] = IF k = 1 THEN Ghost ELSE front[k - 1]
        BY <1>T, <3>1, <3>5 DEF Represents
      <3>7. \A j, k \in 1..Len(front) : front[j] = front[k] => j = k
        BY <1>T, <3>1, <3>5 DEF Represents
      <3>8. ocoms_list_next[Ghost] = Ghost
        BY <1>T DEF Represents
      <3>. QED
        BY <3>2, <3>3, <3>4, <3>6, <3>7, <3>8 DEF Represents
    <2>3. FlagIsOwnership'
      BY <1>T, <1>12 DEF PopCas, Goto, TypeOK, FlagIsOwnership, Locals, Claims, Publishes
    <2>4. Locals'
      BY <1>T, <1>12 DEF PopCas, Goto, TypeOK, Locals, FlagIsOwnership, Claims, Publishes
    <2>. QED  BY <2>1, <2>2, <2>3, <2>4 DEF IInv
  <1>13. ASSUME NEW t \in Threads, PopCasFails(t)
        PROVE  IInv'
    <2>1. TypeOK'
      BY <1>T, <1>13 DEF PopCasFails, Goto, TypeOK, Pointers, Labels
    <2>2. Represents'
      BY <1>T, <1>13 DEF PopCasFails, Goto, TypeOK, Represents, Locals, OnStack
    <2>3. FlagIsOwnership'
      BY <1>T, <1>13 DEF PopCasFails, Goto, TypeOK, FlagIsOwnership, Locals, Claims, Publishes
    <2>4. Locals'
      BY <1>T, <1>13 DEF PopCasFails, Goto, TypeOK, Locals, FlagIsOwnership, Claims, Publishes
    <2>. QED  BY <2>1, <2>2, <2>3, <2>4 DEF IInv
  <1>14. ASSUME NEW t \in Threads, PopUndo(t)
        PROVE  IInv'
    <2>1. TypeOK'
      BY <1>T, <1>14 DEF PopUndo, Goto, TypeOK, Pointers, Labels
    <2>2. Represents'
      BY <1>T, <1>14 DEF PopUndo, Goto, TypeOK, Represents, Locals, OnStack
    <2>3. FlagIsOwnership'
      BY <1>T, <1>14 DEF PopUndo, Goto, TypeOK, FlagIsOwnership, Locals, Claims, Publishes
    <2>4. Locals'
      BY <1>T, <1>14 DEF PopUndo, Goto, TypeOK, Locals, FlagIsOwnership, Claims, Publishes
    <2>. QED  BY <2>1, <2>2, <2>3, <2>4 DEF IInv
  <1>15. ASSUME NEW t \in Threads, PopClear(t)
        PROVE  IInv'
    <2>1. TypeOK'
      BY <1>T, <1>15 DEF PopClear, Goto, TypeOK, Pointers, Labels
    <2>2. Represents'
      <3>1. item[t] \in Items /\ ~OnStack(item[t])
        BY <1>T, <1>15 DEF PopClear, Goto, Represents, Locals
      <3>2. \A k \in 1..Len(stack) :
               ocoms_list_next'[stack[k]] = ocoms_list_next[stack[k]]
        BY <1>T, <1>15, <3>1 DEF PopClear, TypeOK, OnStack
      <3>3. ocoms_list_next'[Ghost] = ocoms_list_next[Ghost]
        BY <1>T, <1>15, <3>1 DEF PopClear, TypeOK
      <3>. QED
        BY <1>T, <1>15, <3>2, <3>3 DEF PopClear, Represents, OnStack
    <2>3. FlagIsOwnership'
      BY <1>T, <1>15 DEF PopClear, Goto, TypeOK, FlagIsOwnership, Locals, Claims, Publishes
    <2>4. Locals'
      BY <1>T, <1>15 DEF PopClear, Goto, TypeOK, Locals, FlagIsOwnership, Claims, Publishes
    <2>. QED  BY <2>1, <2>2, <2>3, <2>4 DEF IInv
  <1>16. ASSUME NEW t \in Threads, NEW i \in Items, PushCall(t, i)
        PROVE  IInv'
    <2>1. TypeOK'
      BY <1>T, <1>16 DEF PushCall, Goto, TypeOK, Pointers, Labels
    <2>2. Represents'
      BY <1>T, <1>16 DEF PushCall, Goto, TypeOK, Represents, Locals, OnStack
    <2>3. FlagIsOwnership'
      BY <1>T, <1>16 DEF PushCall, Goto, TypeOK, FlagIsOwnership, Locals, Claims, Publishes
    <2>4. Locals'
      BY <1>T, <1>16 DEF PushCall, Goto, TypeOK, Locals, FlagIsOwnership, Claims, Publishes
    <2>. QED  BY <2>1, <2>2, <2>3, <2>4 DEF IInv
  <1>17. CASE UNCHANGED vars
    BY <1>17 DEF IInv, TypeOK, Represents, FlagIsOwnership, Locals, OnStack,
                 Claims, Publishes, vars
  <1>. QED
    BY <1>1, <1>2, <1>3, <1>4, <1>5, <1>6, <1>7, <1>8, <1>9, <1>10, <1>11, <1>12, <1>13, <1>14, <1>15, <1>16, <1>17
    DEF Next, Call, PushStep, PopStep
-----------------------------------------------------------------------------
\* The inductive invariant holds in every reachable state.
LEMMA Invariance == Spec => []IInv
  BY InitIInv, NextIInv, PTL DEF Spec

\* The variables of ocoms_atomic_lifo.h keep their types: no push or pop stores
\* a NULL head or works on the ghost as if it were an item.
THEOREM TypeCorrect == Spec => []TypeOK
  <1>1. IInv => TypeOK
    BY DEF IInv
  <1>. QED
    BY Invariance, <1>1, PTL

\* Whatever the threads do, the linked list is the stack of the completed
\* pushes and pops: no interleaving of the compare-and-swaps loses, duplicates
\* or mislinks an item.
THEOREM ListIsStack == Spec => []Represents
  <1>1. IInv => Represents
    BY DEF IInv
  <1>. QED
    BY Invariance, <1>1, PTL

\* item_free is a lock on the item: at most one thread at a time may link or
\* unlink it, and the flag is 0 exactly when nobody may.
THEOREM FlagCorrect == Spec => []FlagIsOwnership
  <1>1. IInv => FlagIsOwnership
    BY DEF IInv
  <1>. QED
    BY Invariance, <1>1, PTL

\* The compare-and-swaps of push and pop are their linearization points: every
\* step of the list is a step of the abstract stack or leaves it alone.
THEOREM Refinement == Spec => ImplementsLifo
  <1>1. Init => Abstract!Init
    BY DEF Init, Abstract!Init
  <1>2. ASSUME IInv, [Next]_vars
        PROVE  [Abstract!Next]_(Abstract!vars)
    <2>1. ASSUME NEW t \in Threads, PushCas(t)
          PROVE  Abstract!Next
      <3>1. item[t] \in Items /\ owner[item[t]] = t
        BY <1>2, <2>1 DEF IInv, Locals, PushCas, Goto
      <3>2. Abstract!Push(t, item[t])
        BY <2>1, <3>1 DEF PushCas, Abstract!Push
      <3>. QED
        BY <3>1, <3>2 DEF Abstract!Next
    <2>2. ASSUME NEW t \in Threads, PopCas(t)
          PROVE  Abstract!Next
      <3>1. item[t] \in Items /\ ocoms_lifo_head = item[t]
        BY <1>2, <2>2 DEF IInv, Locals, PopCas, Goto
      <3>2. ocoms_lifo_head # Ghost
        BY <3>1, ConstantsAssumption
      <3>3. Len(stack) # 0 /\ item[t] = stack[Len(stack)]
        BY <1>2, <3>1, <3>2, RemoveTop DEF IInv
      <3>4. stack # <<>>
        BY <3>3
      <3>5. Abstract!Pop(t)
        BY <2>2, <3>3, <3>4 DEF PopCas, Abstract!Pop
      <3>. QED
        BY <3>5 DEF Abstract!Next
    <2>3. ASSUME NEW t \in Threads,
                 \/ PushRead(t) \/ PushRetry(t) \/ PushFree(t) \/ PushReturn(t)
                 \/ PopStep(t) /\ ~PopCas(t)
                 \/ Call(t)
          PROVE  UNCHANGED Abstract!vars
      BY <2>3
      DEF PushRead, PushRetry, PushFree, PushReturn, PopStep, PopRead, PopEmpty,
          PopClaim, PopClaimFails, PopNext, PopCasFails, PopUndo, PopClear,
          Call, PopCall, PushCall, Abstract!vars
    <2>4. CASE UNCHANGED vars
      BY <2>4 DEF vars, Abstract!vars
    <2>. QED
      BY <1>2, <2>1, <2>2, <2>3, <2>4
      DEF Next, PushStep, PopStep
  <1>. QED
    BY <1>1, <1>2, Invariance, PTL DEF Spec, ImplementsLifo, Abstract!Spec
=============================================================================
