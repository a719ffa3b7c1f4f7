----------------------------- MODULE AtomicLifo -----------------------------
(***************************************************************************)
(* ocoms_atomic_lifo_t (ocoms/util/ocoms_atomic_lifo.h): an intrusive      *)
(* singly linked LIFO whose head is moved by compare-and-swap.  Every item *)
(* carries a flag, item_free, that a pop must win before it may unlink the *)
(* item; it is what keeps a stale head pointer (the ABA problem) harmless. *)
(*                                                                         *)
(* One action is one access to shared memory.  The build is the one with   *)
(* OCOMS_ENABLE_MULTI_THREADS.  Memory is sequentially consistent; the     *)
(* barriers ocoms_atomic_wmb/rmb give the code no less.                    *)
(*                                                                         *)
(* stack and owner are history variables: no guard reads the first, and    *)
(* the second is the ownership protocol of the callers (only the thread    *)
(* that holds an item pushes it).                                          *)
(***************************************************************************)
EXTENDS Naturals, Sequences

CONSTANTS Threads, Items,
          Ghost,          \* &lifo->ocoms_lifo_ghost
          NULL,
          NoOwner

ASSUME ConstantsAssumption ==
    /\ Ghost \notin Items /\ NULL \notin Items /\ Ghost # NULL
    /\ NoOwner \notin Threads

VARIABLES ocoms_lifo_head,
          ocoms_list_next,   \* the next pointer of every item and of the ghost
          item_free,         \* 0: linked and up for grabs, 1: claimed or held
          pc, item, next,    \* per thread: where it is, the item it works on,
                             \* and the next pointer it read for its CAS
          stack, owner       \* history: the abstract stack, who holds what

vars == <<ocoms_lifo_head, ocoms_list_next, item_free, pc, item, next,
          stack, owner>>

Pointers == Items \cup {Ghost, NULL}

Labels == {"idle", "push_read", "push_cas", "push_free", "push_ret",
           "pop_read", "pop_claim", "pop_next", "pop_cas", "pop_undo",
           "pop_clear"}

\* ocoms_atomic_lifo_construct: the ghost points to itself and is the head.
\* The items come from OBJ_CONSTRUCT (item_free is 1, next is NULL) and are
\* held by the threads that will push them.
Init ==
    /\ ocoms_lifo_head = Ghost
    /\ ocoms_list_next = [i \in Items \cup {Ghost} |->
                            IF i = Ghost THEN Ghost ELSE NULL]
    /\ item_free = [i \in Items |-> 1]
    /\ pc = [t \in Threads |-> "idle"]
    /\ item = [t \in Threads |-> NULL]
    /\ next = [t \in Threads |-> NULL]
    /\ stack = <<>>
    /\ owner \in [Items -> Threads]

\* Thread t moves from label l to label m.
Goto(t, l, m) ==
    /\ pc[t] = l
    /\ pc' = [pc EXCEPT ![t] = m]

-----------------------------------------------------------------------------
(* ocoms_atomic_lifo_push *)

PushCall(t, i) ==
    /\ owner[i] = t
    /\ Goto(t, "idle", "push_read")
    /\ item' = [item EXCEPT ![t] = i]
    /\ UNCHANGED <<ocoms_lifo_head, ocoms_list_next, item_free, next,
                   stack, owner>>

\* item->ocoms_list_next = lifo->ocoms_lifo_head
PushRead(t) ==
    /\ Goto(t, "push_read", "push_cas")
    /\ ocoms_list_next' = [ocoms_list_next EXCEPT ![item[t]] = ocoms_lifo_head]
    /\ UNCHANGED <<ocoms_lifo_head, item_free, item, next, stack, owner>>

\* The compare-and-swap on the head links the item...
PushCas(t) ==
    /\ Goto(t, "push_cas", "push_free")
    /\ ocoms_lifo_head = ocoms_list_next[item[t]]
    /\ ocoms_lifo_head' = item[t]
    /\ stack' = Append(stack, item[t])
    /\ owner' = [owner EXCEPT ![item[t]] = NoOwner]
    /\ UNCHANGED <<ocoms_list_next, item_free, item, next>>

\* ... or fails, and the loop reads the head again.
PushRetry(t) ==
    /\ Goto(t, "push_cas", "push_read")
    /\ ocoms_lifo_head # ocoms_list_next[item[t]]
    /\ UNCHANGED <<ocoms_lifo_head, ocoms_list_next, item_free, item, next,
                   stack, owner>>

\* ocoms_atomic_cmpset_32(&item->item_free, 1, 0), its result ignored
PushFree(t) ==
    /\ Goto(t, "push_free", "push_ret")
    /\ item_free' = [item_free EXCEPT ![item[t]] = IF @ = 1 THEN 0 ELSE @]
    /\ UNCHANGED <<ocoms_lifo_head, ocoms_list_next, item, next, stack, owner>>

\* return item->ocoms_list_next: the field is read again, after the item was
\* published and released, so it need not be the head that was replaced.
PushReturn(t) ==
    /\ Goto(t, "push_ret", "idle")
    /\ item' = [item EXCEPT ![t] = NULL]
    /\ UNCHANGED <<ocoms_lifo_head, ocoms_list_next, item_free, next, stack,
                   owner>>

-----------------------------------------------------------------------------
(* ocoms_atomic_lifo_pop *)

PopCall(t) ==
    /\ Goto(t, "idle", "pop_read")
    /\ UNCHANGED <<ocoms_lifo_head, ocoms_list_next, item_free, item, next,
                   stack, owner>>

\* Mutant: the head is not compared with the ghost.
PopReadUnchecked(t) ==
    /\ Goto(t, "pop_read", "pop_claim")
    /\ item' = [item EXCEPT ![t] = ocoms_lifo_head]
    /\ UNCHANGED <<ocoms_lifo_head, ocoms_list_next, item_free, next, stack,
                   owner>>

\* item = lifo->ocoms_lifo_head, and it is not the ghost
PopRead(t) ==
    /\ Goto(t, "pop_read", "pop_claim")
    /\ ocoms_lifo_head # Ghost
    /\ item' = [item EXCEPT ![t] = ocoms_lifo_head]
    /\ UNCHANGED <<ocoms_lifo_head, ocoms_list_next, item_free, next, stack,
                   owner>>

\* The head is the ghost: the list is empty and pop returns NULL.
PopEmpty(t) ==
    /\ Goto(t, "pop_read", "idle")
    /\ ocoms_lifo_head = Ghost
    /\ UNCHANGED <<ocoms_lifo_head, ocoms_list_next, item_free, item, next,
                   stack, owner>>

\* Mutant: the flag is set, whoever has set it already.
PopClaimBlind(t) ==
    /\ Goto(t, "pop_claim", "pop_next")
    /\ item_free' = [item_free EXCEPT ![item[t]] = 1]
    /\ UNCHANGED <<ocoms_lifo_head, ocoms_list_next, item, next, stack, owner>>

\* ocoms_atomic_cmpset_32(&item->item_free, 0, 1) succeeds...
PopClaim(t) ==
    /\ Goto(t, "pop_claim", "pop_next")
    /\ item_free[item[t]] = 0
    /\ item_free' = [item_free EXCEPT ![item[t]] = 1]
    /\ UNCHANGED <<ocoms_lifo_head, ocoms_list_next, item, next, stack, owner>>

\* ... or another thread holds the item, and the loop starts over.
PopClaimFails(t) ==
    /\ Goto(t, "pop_claim", "pop_read")
    /\ item_free[item[t]] # 0
    /\ item' = [item EXCEPT ![t] = NULL]
    /\ UNCHANGED <<ocoms_lifo_head, ocoms_list_next, item_free, next, stack,
                   owner>>

\* The third argument of the compare-and-swap is read before it is executed.
PopNext(t) ==
    /\ Goto(t, "pop_next", "pop_cas")
    /\ next' = [next EXCEPT ![t] = ocoms_list_next[item[t]]]
    /\ UNCHANGED <<ocoms_lifo_head, ocoms_list_next, item_free, item, stack,
                   owner>>

\* Mutant: the head is set without the comparison.
PopSwap(t) ==
    /\ Goto(t, "pop_cas", "pop_clear")
    /\ ocoms_lifo_head' = next[t]
    /\ next' = [next EXCEPT ![t] = NULL]
    /\ stack' = SubSeq(stack, 1, Len(stack) - 1)
    /\ owner' = [owner EXCEPT ![item[t]] = t]
    /\ UNCHANGED <<ocoms_list_next, item_free, item>>

PopCas(t) ==
    /\ Goto(t, "pop_cas", "pop_clear")
    /\ ocoms_lifo_head = item[t]
    /\ ocoms_lifo_head' = next[t]
    /\ next' = [next EXCEPT ![t] = NULL]
    /\ stack' = SubSeq(stack, 1, Len(stack) - 1)
    /\ owner' = [owner EXCEPT ![item[t]] = t]
    /\ UNCHANGED <<ocoms_list_next, item_free, item>>

PopCasFails(t) ==
    /\ Goto(t, "pop_cas", "pop_undo")
    /\ ocoms_lifo_head # item[t]
    /\ next' = [next EXCEPT ![t] = NULL]
    /\ UNCHANGED <<ocoms_lifo_head, ocoms_list_next, item_free, item, stack,
                   owner>>

\* Mutant: the claim is not given back.
PopUndoForgotten(t) ==
    /\ Goto(t, "pop_undo", "pop_read")
    /\ item' = [item EXCEPT ![t] = NULL]
    /\ UNCHANGED <<ocoms_lifo_head, ocoms_list_next, item_free, next, stack,
                   owner>>

\* ocoms_atomic_cmpset_32(&item->item_free, 1, 0): the claim is given back.
PopUndo(t) ==
    /\ Goto(t, "pop_undo", "pop_read")
    /\ item_free' = [item_free EXCEPT ![item[t]] = IF @ = 1 THEN 0 ELSE @]
    /\ item' = [item EXCEPT ![t] = NULL]
    /\ UNCHANGED <<ocoms_lifo_head, ocoms_list_next, next, stack, owner>>

\* item->ocoms_list_next = NULL; return item
PopClear(t) ==
    /\ Goto(t, "pop_clear", "idle")
    /\ ocoms_list_next' = [ocoms_list_next EXCEPT ![item[t]] = NULL]
    /\ item' = [item EXCEPT ![t] = NULL]
    /\ UNCHANGED <<ocoms_lifo_head, item_free, next, stack, owner>>

-----------------------------------------------------------------------------
PushStep(t) ==
    PushRead(t) \/ PushCas(t) \/ PushRetry(t) \/ PushFree(t) \/ PushReturn(t)

PopStep(t) ==
    \/ PopRead(t) \/ PopEmpty(t) \/ PopClaim(t) \/ PopClaimFails(t)
    \/ PopNext(t) \/ PopCas(t) \/ PopCasFails(t) \/ PopUndo(t) \/ PopClear(t)

Call(t) ==
    PopCall(t) \/ \E i \in Items : PushCall(t, i)

Next ==
    \E t \in Threads : Call(t) \/ PushStep(t) \/ PopStep(t)

Spec == Init /\ [][Next]_vars

\* A thread inside push or pop is scheduled again and again; nothing makes a
\* thread call them.
FairSpec == Spec /\ \A t \in Threads : WF_vars(PushStep(t) \/ PopStep(t))

-----------------------------------------------------------------------------
TypeOK ==
    /\ ocoms_lifo_head \in Items \cup {Ghost}
    /\ ocoms_list_next \in [Items \cup {Ghost} -> Pointers]
    /\ item_free \in [Items -> {0, 1}]
    /\ pc \in [Threads -> Labels]
    /\ item \in [Threads -> Items \cup {NULL}]
    /\ next \in [Threads -> Pointers]
    /\ stack \in Seq(Items)
    /\ owner \in [Items -> Threads \cup {NoOwner}]

OnStack(i) == \E k \in 1..Len(stack) : stack[k] = i

\* The pointers say what the stack says: the head is the top, every item
\* points to the one below it and the bottom one to the ghost, no item is
\* linked twice, and the linked items are the ones no thread holds; the ghost
\* points to itself, which is what lets an empty list be popped.  This is
\* what the ABA problem would break: a pop that swings the head to a next
\* pointer it read too early.
Represents ==
    /\ ocoms_lifo_head = IF Len(stack) = 0 THEN Ghost ELSE stack[Len(stack)]
    /\ \A k \in 1..Len(stack) :
          ocoms_list_next[stack[k]] = IF k = 1 THEN Ghost ELSE stack[k - 1]
    /\ ocoms_list_next[Ghost] = Ghost
    /\ \A j, k \in 1..Len(stack) : stack[j] = stack[k] => j = k
    /\ \A i \in Items : OnStack(i) <=> owner[i] = NoOwner

\* Thread t has won the flag of item i in a pop and not given it back.
Claims(t, i) == item[t] = i /\ pc[t] \in {"pop_next", "pop_cas", "pop_undo"}

\* Thread t has linked item i and not released its flag yet.
Publishes(t, i) == item[t] = i /\ pc[t] = "push_free"

\* item_free is 1 exactly while one thread has the right to change the item's
\* links: its owner, the push that has just linked it or the pop that claims
\* it.  So the two release operations, whose results the code ignores, never
\* fail, and never release somebody else's claim.
FlagIsOwnership ==
    \A i \in Items :
       /\ item_free[i] = 1 <=>
             \/ owner[i] # NoOwner
             \/ \E t \in Threads : Claims(t, i) \/ Publishes(t, i)
       /\ \A s, t \in Threads :
             /\ (Claims(s, i) \/ Publishes(s, i))
             /\ (Claims(t, i) \/ Publishes(t, i))
             => s = t
       /\ \A t \in Threads :
             Claims(t, i) \/ Publishes(t, i) => owner[i] = NoOwner

\* The list implements the stack of module Lifo.
Abstract == INSTANCE Lifo

ImplementsLifo == Abstract!Spec

\* Under fair scheduling the threads inside push and pop do not keep each
\* other busy for ever: calls return again and again until none is left.
LockFree ==
    \/ []<>(\A t \in Threads : pc[t] = "idle")
    \/ []<><<\E t \in Threads : pc[t] # "idle" /\ pc'[t] = "idle">>_vars
=============================================================================
