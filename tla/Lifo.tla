-------------------------------- MODULE Lifo --------------------------------
(***************************************************************************)
(* What an ocoms_atomic_lifo_t promises its callers: a last-in first-out   *)
(* container shared by threads, where every item is either on the stack or *)
(* in the hands of exactly one thread.  The top of the stack is its last   *)
(* element.                                                                *)
(***************************************************************************)
EXTENDS Naturals, Sequences

CONSTANTS Threads,   \* the threads that use the container
          Items,     \* the list items it may hold
          NoOwner    \* the owner of an item that is on the stack

VARIABLES stack,     \* the items on the stack, the top last
          owner      \* the thread that holds an item

vars == <<stack, owner>>

Init ==
    /\ stack = <<>>
    /\ owner \in [Items -> Threads]

Push(t, i) ==
    /\ owner[i] = t
    /\ stack' = Append(stack, i)
    /\ owner' = [owner EXCEPT ![i] = NoOwner]

Pop(t) ==
    /\ stack # <<>>
    /\ stack' = SubSeq(stack, 1, Len(stack) - 1)
    /\ owner' = [owner EXCEPT ![stack[Len(stack)]] = t]

Next ==
    \E t \in Threads : Pop(t) \/ \E i \in Items : Push(t, i)

Spec == Init /\ [][Next]_vars
=============================================================================
