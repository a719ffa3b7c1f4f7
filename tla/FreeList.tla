------------------------------ MODULE FreeList ------------------------------
(***************************************************************************)
(* ocoms_free_list_t (ocoms/util/ocoms_free_list.{h,c}): a pool of items   *)
(* on an atomic LIFO that grows on demand, with a mutex for the growing, a *)
(* condition variable for the threads that wait for an item, and a count   *)
(* of those.                                                               *)
(*                                                                         *)
(* The LIFO is used through its abstract operations (module Lifo, which    *)
(* AtomicLifo implements): a push and a pop are one step each, and what    *)
(* the push returns is read in a step of its own, as AtomicLifo does.      *)
(* Every acquisition of fl_lock is a step; what a thread does between two  *)
(* steps other threads can see is one action.  The build is the default    *)
(* one: POSIX threads, ocoms_using_threads() true.                         *)
(***************************************************************************)
EXTENDS Naturals, Sequences, FiniteSets

CONSTANTS Threads,
          Heap,               \* the owner of the memory of unconstructed items
          NoOwner,            \* the owner of an item that is on the LIFO
          Nobody,             \* the holder of a free fl_lock
          fl_max_to_alloc,    \* 0 means no limit to grow
          fl_num_per_alloc,
          MemoryBound,        \* items the heap can hold
          InitBound,          \* bound on num_elements_to_alloc and on the size
                              \* given to resize
          AllocMayFail        \* malloc or fl->alloc may fail earlier

ASSUME ConstantsAssumption ==
    /\ Heap \notin Threads /\ NoOwner \notin Threads \cup {Heap}
    /\ Nobody \notin Threads
    /\ {fl_max_to_alloc, fl_num_per_alloc, MemoryBound, InitBound} \subseteq Nat
    /\ AllocMayFail \in BOOLEAN

VARIABLES
    ready,              \* between ocoms_free_list_init_ex and the destructor
    stack, owner,       \* the LIFO, and who holds the items off it
    created,            \* number of items constructed so far
    fl_num_allocated, fl_num_waiting,
    c_waiting,          \* of fl_condition
    fl_lock,            \* the thread that holds it
    pc,
    arg,                \* per thread: the item RETURNed, the size to resize to
    num_elements,       \* per thread: the items its grow constructs,
    pushed,             \* and how many of them it has pushed
    unguarded           \* per thread, history: it fell asleep with items on the
                        \* list, or, for want of memory, below the limit

list == <<stack, owner>>
chunk == <<num_elements, pushed>>
vars == <<ready, stack, owner, created, fl_num_allocated, fl_num_waiting,
          c_waiting, fl_lock, pc, arg, num_elements, pushed, unguarded>>

Items == 1..MemoryBound

L == INSTANCE Lifo WITH Threads <- Threads \cup {Heap}

Labels == {"idle", "get_lock", "get_grow", "get_push", "get_unlock", "get_pop",
           "wait_trylock", "wait_lock", "wait_check", "wait_grow", "wait_push",
           "wait_signal", "wait_sleep", "asleep", "woken", "wait_unlock",
           "wait_pop", "return_check", "return_lock", "return_signal",
           "resize_lock", "resize_loop", "resize_grow", "resize_push",
           "resize_unlock"}

Goto(t, l, m) ==
    /\ pc[t] = l
    /\ pc' = [pc EXCEPT ![t] = m]

Lock(t) ==
    /\ fl_lock = Nobody
    /\ fl_lock' = t

\* ocoms_free_list_construct; the memory of the items is still the heap's.
Init ==
    /\ ready = FALSE
    /\ stack = <<>>
    /\ owner = [i \in Items |-> Heap]
    /\ created = 0
    /\ fl_num_allocated = 0 /\ fl_num_waiting = 0 /\ c_waiting = 0
    /\ fl_lock = Nobody
    /\ pc = [t \in Threads |-> "idle"]
    /\ arg = [t \in Threads |-> 0]
    /\ num_elements = [t \in Threads |-> 0]
    /\ pushed = [t \in Threads |-> 0]
    /\ unguarded = [t \in Threads |-> FALSE]

-----------------------------------------------------------------------------
(* ocoms_free_list_grow *)

\* Mutant: the limit is compared with the items there are, not with the sum.
GrowByUnclamped(n) ==
    IF fl_max_to_alloc > 0 /\ fl_num_allocated >= fl_max_to_alloc THEN 0 ELSE n

\* num_elements, cut down to what fl_max_to_alloc leaves.
GrowBy(n) ==
    IF fl_max_to_alloc > 0 /\ fl_num_allocated + n > fl_max_to_alloc
    THEN fl_max_to_alloc - fl_num_allocated
    ELSE n

\* An allocation of n items may succeed, or must fail, for lack of memory.
AllocSucceeds(n) == n > 0 /\ created + n <= MemoryBound
AllocFails(n) == n = 0 \/ AllocMayFail \/ created + n > MemoryBound

\* The label a grow is at in each of its three callers.
GrowLabels == {"get_grow", "wait_grow", "resize_grow"}
PushLabel == [l \in GrowLabels |->
                CASE l = "get_grow"    -> "get_push"
                  [] l = "wait_grow"   -> "wait_push"
                  [] l = "resize_grow" -> "resize_push"]
\* Where the callers go when it fails...
FailLabel == [l \in GrowLabels |->
                CASE l = "get_grow"    -> "get_unlock"
                  [] l = "wait_grow"   -> "wait_sleep"
                  [] l = "resize_grow" -> "resize_unlock"]
\* ... and when it is done.
DoneLabel == [l \in {"get_push", "wait_push", "resize_push"} |->
                CASE l = "get_push"    -> "get_unlock"
                  [] l = "wait_push"   -> "wait_signal"
                  [] l = "resize_push" -> "resize_loop"]

GrowAlloc(t) ==
    /\ pc[t] \in GrowLabels
    /\ LET n == GrowBy(fl_num_per_alloc) IN
       \/ /\ AllocSucceeds(n)
          /\ Goto(t, pc[t], PushLabel[pc[t]])
          /\ num_elements' = [num_elements EXCEPT ![t] = n]
       \/ /\ AllocFails(n)
          /\ Goto(t, pc[t], FailLabel[pc[t]])
          /\ UNCHANGED num_elements
    /\ UNCHANGED <<ready, list, created, fl_num_allocated, fl_num_waiting,
                   c_waiting, fl_lock, arg, pushed, unguarded>>

\* One turn of the loop: construct the next item of the chunk and push it.
GrowPush(t) ==
    /\ pc[t] \in DOMAIN DoneLabel
    /\ pushed[t] < num_elements[t]
    /\ L!Push(Heap, created + 1)
    /\ created' = created + 1
    /\ pushed' = [pushed EXCEPT ![t] = @ + 1]
    /\ UNCHANGED <<ready, fl_num_allocated, fl_num_waiting, c_waiting, fl_lock,
                   pc, arg, num_elements, unguarded>>

\* The items are counted only when all of them can be popped already.
GrowCount(t) ==
    /\ pc[t] \in DOMAIN DoneLabel
    /\ pushed[t] = num_elements[t]
    /\ fl_num_allocated' = fl_num_allocated + num_elements[t]
    /\ Goto(t, pc[t], DoneLabel[pc[t]])
    /\ num_elements' = [num_elements EXCEPT ![t] = 0]
    /\ pushed' = [pushed EXCEPT ![t] = 0]
    /\ UNCHANGED <<ready, list, created, fl_num_waiting, c_waiting, fl_lock,
                   arg, unguarded>>

-----------------------------------------------------------------------------
(* ocoms_free_list_init_ex and _init_ex_new, which no other call overlaps:  *)
(* they grow the list by num_elements_to_alloc, in one go.  A failure is    *)
(* reported to the caller; the list can be used all the same.               *)

InitEx(n) ==
    /\ ~ready
    /\ ready' = TRUE
    /\ \/ /\ AllocSucceeds(GrowBy(n))
          /\ created' = GrowBy(n)
          /\ stack' = [k \in 1..GrowBy(n) |-> k]
          /\ owner' = [i \in Items |-> IF i <= GrowBy(n) THEN NoOwner ELSE Heap]
          /\ fl_num_allocated' = GrowBy(n)
       \/ /\ AllocFails(GrowBy(n))
          /\ UNCHANGED <<list, created, fl_num_allocated>>
    /\ UNCHANGED <<fl_num_waiting, c_waiting, fl_lock, pc, arg, chunk,
                   unguarded>>

\* ocoms_free_list_destruct, when the users are done and have returned every
\* item: pops and destructs the items and frees the chunks.
Destruct ==
    /\ ready
    /\ \A t \in Threads : pc[t] = "idle"
    /\ \A i \in Items : owner[i] \in {NoOwner, Heap}
    /\ ready' = FALSE
    /\ stack' = <<>>
    /\ owner' = [i \in Items |-> Heap]
    /\ created' = 0
    /\ fl_num_allocated' = 0 /\ fl_num_waiting' = 0 /\ c_waiting' = 0
    /\ UNCHANGED <<fl_lock, pc, arg, chunk, unguarded>>

-----------------------------------------------------------------------------
(* A pop by thread t at label l: the item, or on to label m. *)

PopOr(t, l, m) ==
    \/ /\ Goto(t, l, "idle")
       /\ L!Pop(t)
    \/ /\ Goto(t, l, m)
       /\ stack = <<>>
       /\ UNCHANGED list

(* OCOMS_FREE_LIST_GET *)

GetCall(t) ==
    /\ ready
    /\ PopOr(t, "idle", "get_lock")
    /\ UNCHANGED <<ready, created, fl_num_allocated, fl_num_waiting, c_waiting,
                   fl_lock, arg, chunk, unguarded>>

\* Mutant: GET grows the list without waiting for the lock.
GetLockSkipped(t) ==
    /\ Goto(t, "get_lock", "get_grow")
    /\ fl_lock' = t
    /\ UNCHANGED <<ready, list, created, fl_num_allocated, fl_num_waiting,
                   c_waiting, arg, chunk, unguarded>>

GetLock(t) ==
    /\ Goto(t, "get_lock", "get_grow")
    /\ Lock(t)
    /\ UNCHANGED <<ready, list, created, fl_num_allocated, fl_num_waiting,
                   c_waiting, arg, chunk, unguarded>>

GetUnlock(t) ==
    /\ Goto(t, "get_unlock", "get_pop")
    /\ fl_lock' = Nobody
    /\ UNCHANGED <<ready, list, created, fl_num_allocated, fl_num_waiting,
                   c_waiting, arg, chunk, unguarded>>

\* The second pop; without an item GET sets OCOMS_ERR_TEMP_OUT_OF_RESOURCE.
GetPop(t) ==
    /\ PopOr(t, "get_pop", "idle")
    /\ UNCHANGED <<ready, created, fl_num_allocated, fl_num_waiting, c_waiting,
                   fl_lock, arg, chunk, unguarded>>

-----------------------------------------------------------------------------
(* ocoms_condition_signal and _broadcast on fl_condition, called with       *)
(* fl_lock held, one for a single waiter, the other for several.            *)

Sleeping(t) == pc[t] = "asleep"

\* Mutant: one signal, however many threads wait.
SignalOneAndGoto(t, m) ==
    LET moved == [pc EXCEPT ![t] = m] IN
    \/ /\ c_waiting > 0
       /\ \E s \in Threads : Sleeping(s) /\ pc' = [moved EXCEPT ![s] = "woken"]
    \/ /\ c_waiting = 0 \/ \A s \in Threads : ~Sleeping(s)
       /\ pc' = moved

\* What becomes of the threads' labels when t goes on to label m.
SignalAndGoto(t, m) ==
    LET moved == [pc EXCEPT ![t] = m] IN
    \/ /\ fl_num_waiting = 0
       /\ pc' = moved
    \/ /\ fl_num_waiting = 1
       /\ \/ /\ c_waiting > 0
             /\ \E s \in Threads : Sleeping(s) /\ pc' = [moved EXCEPT ![s] = "woken"]
          \/ /\ c_waiting = 0 \/ \A s \in Threads : ~Sleeping(s)
             /\ pc' = moved
    \/ /\ fl_num_waiting > 1
       /\ pc' = [s \in Threads |-> IF Sleeping(s) THEN "woken" ELSE moved[s]]

-----------------------------------------------------------------------------
(* OCOMS_FREE_LIST_WAIT, __ocoms_free_list_wait *)

WaitCall(t) ==
    /\ ready
    /\ PopOr(t, "idle", "wait_trylock")
    /\ UNCHANGED <<ready, created, fl_num_allocated, fl_num_waiting, c_waiting,
                   fl_lock, arg, chunk, unguarded>>

WaitTryLock(t) ==
    /\ \/ /\ Goto(t, "wait_trylock", "wait_check")
          /\ Lock(t)
       \/ /\ Goto(t, "wait_trylock", "wait_lock")
          /\ fl_lock # Nobody
          /\ UNCHANGED fl_lock
    /\ UNCHANGED <<ready, list, created, fl_num_allocated, fl_num_waiting,
                   c_waiting, arg, chunk, unguarded>>

\* The trylock failed: take the lock, only to give it back.
WaitLock(t) ==
    /\ Goto(t, "wait_lock", "wait_unlock")
    /\ Lock(t)
    /\ UNCHANGED <<ready, list, created, fl_num_allocated, fl_num_waiting,
                   c_waiting, arg, chunk, unguarded>>

\* The list may not grow, or a grow may be tried; the LIFO is not looked at.
WaitCheck(t) ==
    /\ \/ /\ fl_max_to_alloc <= fl_num_allocated
          /\ Goto(t, "wait_check", "wait_sleep")
       \/ /\ fl_max_to_alloc > fl_num_allocated
          /\ Goto(t, "wait_check", "wait_grow")
    /\ UNCHANGED <<ready, list, created, fl_num_allocated, fl_num_waiting,
                   c_waiting, fl_lock, arg, chunk, unguarded>>

\* After a successful grow: somebody else may want the other items.
WaitSignal(t) ==
    /\ pc[t] = "wait_signal"
    /\ SignalAndGoto(t, "wait_unlock")
    /\ UNCHANGED <<ready, list, created, fl_num_allocated, fl_num_waiting,
                   c_waiting, fl_lock, arg, chunk, unguarded>>

\* Mutant: the condition is not waited for.
WaitSleepless(t) ==
    /\ Goto(t, "wait_sleep", "wait_unlock")
    /\ UNCHANGED <<ready, list, created, fl_num_allocated, fl_num_waiting,
                   c_waiting, fl_lock, arg, chunk, unguarded>>

\* fl_num_waiting++ and ocoms_condition_wait, which releases fl_lock...
WaitSleep(t) ==
    /\ Goto(t, "wait_sleep", "asleep")
    /\ fl_num_waiting' = fl_num_waiting + 1
    /\ c_waiting' = c_waiting + 1
    /\ fl_lock' = Nobody
    /\ unguarded' = [unguarded EXCEPT ![t] =
                       stack # <<>> \/ fl_num_allocated < fl_max_to_alloc]
    /\ UNCHANGED <<ready, list, created, fl_num_allocated, arg, chunk>>

\* ... wakes up on a signal or for no reason at all...
SpuriousWakeup(t) ==
    /\ Goto(t, "asleep", "woken")
    /\ UNCHANGED <<ready, list, created, fl_num_allocated, fl_num_waiting,
                   c_waiting, fl_lock, arg, chunk, unguarded>>

\* Mutant: fl_num_waiting is not decremented.
WaitWakeUncounted(t) ==
    /\ Goto(t, "woken", "wait_unlock")
    /\ Lock(t)
    /\ c_waiting' = c_waiting - 1
    /\ unguarded' = [unguarded EXCEPT ![t] = FALSE]
    /\ UNCHANGED <<ready, list, created, fl_num_allocated, fl_num_waiting, arg,
                   chunk>>

\* ... and returns once it has fl_lock again; fl_num_waiting--.
WaitWake(t) ==
    /\ Goto(t, "woken", "wait_unlock")
    /\ Lock(t)
    /\ fl_num_waiting' = fl_num_waiting - 1
    /\ c_waiting' = c_waiting - 1
    /\ unguarded' = [unguarded EXCEPT ![t] = FALSE]
    /\ UNCHANGED <<ready, list, created, fl_num_allocated, arg, chunk>>

WaitUnlock(t) ==
    /\ Goto(t, "wait_unlock", "wait_pop")
    /\ fl_lock' = Nobody
    /\ UNCHANGED <<ready, list, created, fl_num_allocated, fl_num_waiting,
                   c_waiting, arg, chunk, unguarded>>

WaitPop(t) ==
    /\ PopOr(t, "wait_pop", "wait_trylock")
    /\ UNCHANGED <<ready, created, fl_num_allocated, fl_num_waiting, c_waiting,
                   fl_lock, arg, chunk, unguarded>>

-----------------------------------------------------------------------------
(* OCOMS_FREE_LIST_RETURN *)

ReturnCall(t, i) ==
    /\ ready
    /\ Goto(t, "idle", "return_check")
    /\ L!Push(t, i)
    /\ arg' = [arg EXCEPT ![t] = i]
    /\ UNCHANGED <<ready, created, fl_num_allocated, fl_num_waiting, c_waiting,
                   fl_lock, chunk, unguarded>>

\* The next pointer of the item is the ghost exactly while it is the bottom
\* of the LIFO; that of an item some thread has popped again is NULL.
PushedOnGhost(i) == stack # <<>> /\ stack[1] = i

ReturnCheck(t) ==
    /\ \/ /\ PushedOnGhost(arg[t])
          /\ Goto(t, "return_check", "return_lock")
       \/ /\ ~PushedOnGhost(arg[t])
          /\ Goto(t, "return_check", "idle")
    /\ arg' = [arg EXCEPT ![t] = 0]
    /\ UNCHANGED <<ready, list, created, fl_num_allocated, fl_num_waiting,
                   c_waiting, fl_lock, chunk, unguarded>>

ReturnLock(t) ==
    /\ Goto(t, "return_lock", "return_signal")
    /\ Lock(t)
    /\ UNCHANGED <<ready, list, created, fl_num_allocated, fl_num_waiting,
                   c_waiting, arg, chunk, unguarded>>

ReturnSignal(t) ==
    /\ pc[t] = "return_signal"
    /\ SignalAndGoto(t, "idle")
    /\ fl_lock' = Nobody
    /\ UNCHANGED <<ready, list, created, fl_num_allocated, fl_num_waiting,
                   c_waiting, arg, chunk, unguarded>>

-----------------------------------------------------------------------------
(* ocoms_free_list_resize; the first test is made without the lock.         *)

ResizeCall(t, size) ==
    /\ ready
    /\ \/ /\ fl_num_allocated > size
          /\ Goto(t, "idle", "idle")
          /\ UNCHANGED arg
       \/ /\ fl_num_allocated <= size
          /\ Goto(t, "idle", "resize_lock")
          /\ arg' = [arg EXCEPT ![t] = size]
    /\ UNCHANGED <<ready, list, created, fl_num_allocated, fl_num_waiting,
                   c_waiting, fl_lock, chunk, unguarded>>

ResizeLock(t) ==
    /\ Goto(t, "resize_lock", "resize_loop")
    /\ Lock(t)
    /\ UNCHANGED <<ready, list, created, fl_num_allocated, fl_num_waiting,
                   c_waiting, arg, chunk, unguarded>>

ResizeLoop(t) ==
    /\ \/ /\ arg[t] > fl_num_allocated
          /\ Goto(t, "resize_loop", "resize_grow")
       \/ /\ arg[t] <= fl_num_allocated
          /\ Goto(t, "resize_loop", "resize_unlock")
    /\ UNCHANGED <<ready, list, created, fl_num_allocated, fl_num_waiting,
                   c_waiting, fl_lock, arg, chunk, unguarded>>

ResizeUnlock(t) ==
    /\ Goto(t, "resize_unlock", "idle")
    /\ fl_lock' = Nobody
    /\ arg' = [arg EXCEPT ![t] = 0]
    /\ UNCHANGED <<ready, list, created, fl_num_allocated, fl_num_waiting,
                   c_waiting, chunk, unguarded>>

-----------------------------------------------------------------------------
Call(t) ==
    \/ GetCall(t) \/ WaitCall(t)
    \/ \E i \in Items : ReturnCall(t, i)
    \/ \E size \in 0..InitBound : ResizeCall(t, size)

GrowStep(t) == GrowAlloc(t) \/ GrowPush(t) \/ GrowCount(t)

\* Steps a thread takes by itself once it is inside a call.
Step(t) ==
    \/ GrowStep(t)
    \/ GetLock(t) \/ GetUnlock(t) \/ GetPop(t)
    \/ WaitTryLock(t) \/ WaitLock(t) \/ WaitCheck(t) \/ WaitSignal(t)
    \/ WaitSleep(t) \/ WaitWake(t) \/ WaitUnlock(t) \/ WaitPop(t)
    \/ ReturnCheck(t) \/ ReturnLock(t) \/ ReturnSignal(t)
    \/ ResizeLock(t) \/ ResizeLoop(t) \/ ResizeUnlock(t)

Next ==
    \/ \E n \in 0..InitBound : InitEx(n)
    \/ Destruct
    \/ \E t \in Threads : Call(t) \/ Step(t) \/ SpuriousWakeup(t)

Spec == Init /\ [][Next]_vars

\* A thread that can take its next step eventually does; nobody is forced to
\* call, no lock is granted in any particular order, and no thread wakes up
\* without a signal.
FairSpec == Spec /\ \A t \in Threads : WF_vars(Step(t))

-----------------------------------------------------------------------------
TypeOK ==
    /\ ready \in BOOLEAN
    /\ stack \in Seq(Items)
    /\ owner \in [Items -> Threads \cup {Heap, NoOwner}]
    /\ created \in 0..MemoryBound
    /\ fl_num_allocated \in 0..MemoryBound
    /\ fl_num_waiting \in 0..Cardinality(Threads)
    /\ c_waiting \in 0..Cardinality(Threads)
    /\ fl_lock \in Threads \cup {Nobody}
    /\ pc \in [Threads -> Labels]
    /\ arg \in [Threads -> Nat]
    /\ num_elements \in [Threads -> Nat]
    /\ pushed \in [Threads -> Nat]
    /\ unguarded \in [Threads -> BOOLEAN]

\* fl_max_to_alloc bounds the items that exist, the ones of a chunk that is
\* being constructed and not counted yet included, however many threads find
\* the list empty and try to grow it at the same time.
AtMostMax == fl_max_to_alloc > 0 => created <= fl_max_to_alloc

\* fl_num_allocated counts the items whenever nobody is growing the list: no
\* increment is lost to a concurrent one.
CountIsExact == fl_lock = Nobody => fl_num_allocated = created

\* fl_num_waiting, which decides between signal, broadcast and nothing, counts
\* exactly the threads inside ocoms_condition_wait, so a single signal is sent
\* only when there is a single sleeper.
WaitersAreCounted ==
    LET waiters == {t \in Threads : pc[t] \in {"asleep", "woken"}} IN
    fl_num_waiting = Cardinality(waiters) /\ c_waiting = fl_num_waiting

\* A thread is on its way to signal fl_condition: it is growing the list from
\* WAIT, or its RETURN pushed onto the ghost.
WillSignal(t) ==
    \/ pc[t] \in {"return_lock", "return_signal", "wait_push", "wait_signal"}
    \/ pc[t] = "return_check" /\ PushedOnGhost(arg[t])

\* A thread that fell asleep on an empty list, all items being in use, does not
\* sleep on while items are on the list, unless a thread that will wake it is under way: signalling only
\* for a push that hits the ghost, and only when fl_num_waiting is not 0, is
\* enough for these threads.
SleepersAreWoken ==
    \A t \in Threads :
       Sleeping(t) /\ ~unguarded[t] /\ stack # <<>> =>
          \E s \in Threads : WillSignal(s)

\* The threads come to rest, outside or asleep, or calls keep returning: no
\* deadlock on fl_lock, no grow or resize that goes on for ever.  Two things
\* may keep WAIT busy instead: threads that wake up for no reason, and two
\* waiters whose trylocks keep failing because of each other, each of which
\* then takes the lock only to give it back.
Progress ==
    \/ []<>(\A t \in Threads : pc[t] \in {"idle", "asleep"})
    \/ []<><<\E t \in Threads : pc[t] # "idle" /\ pc'[t] = "idle">>_vars
    \/ []<><<\E t \in Threads : SpuriousWakeup(t)>>_vars
    \/ []<><<\E t \in Threads : WaitLock(t)>>_vars

\* "If the requested item is not available the free list is grown to accomodate
\* the request - unless the max number of allocations has been reached.  In this
\* case the caller is blocked until an item is returned to the list": nobody is
\* left asleep with an item on the list and nobody to signal it.
BlockedUntilReturned ==
    \A t \in Threads :
       Sleeping(t) /\ stack # <<>> => \E s \in Threads : WillSignal(s)
=============================================================================
