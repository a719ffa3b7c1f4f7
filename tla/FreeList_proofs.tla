--------------------------- MODULE FreeList_proofs ---------------------------
(***************************************************************************)
(* Proofs about FreeList: any number of threads, any limits.               *)
(*                                                                         *)
(* That the list never exceeds its maximum follows from fl_lock: only the  *)
(* thread that holds it is between the test against fl_max_to_alloc and    *)
(* the update of fl_num_allocated.  HolderOK ties the lock to the labels,  *)
(* CountOK says what fl_num_allocated lags behind while a chunk is being   *)
(* pushed.                                                                 *)
(***************************************************************************)
EXTENDS FreeList, FiniteSetTheorems, TLAPS

\* The labels at which a thread holds fl_lock, and those inside the loop that
\* pushes a chunk.
HoldLabels == {"get_grow", "get_push", "get_unlock", "wait_check", "wait_grow",
               "wait_push", "wait_signal", "wait_sleep", "wait_unlock",
               "return_signal", "resize_loop", "resize_grow", "resize_push",
               "resize_unlock"}
PushLabels == {"get_push", "wait_push", "resize_push"}

TypesOK ==
    /\ ready \in BOOLEAN
    /\ created \in Nat /\ fl_num_allocated \in Nat
    /\ fl_lock \in Threads \cup {Nobody}
    /\ pc \in [Threads -> Labels]
    /\ num_elements \in [Threads -> Nat]
    /\ pushed \in [Threads -> Nat]

HolderOK == \A t \in Threads : pc[t] \in HoldLabels <=> fl_lock = t

CountOK ==
    /\ \A t \in Threads :
          IF pc[t] \in PushLabels
          THEN /\ pushed[t] <= num_elements[t]
               /\ created = fl_num_allocated + pushed[t]
               /\ fl_max_to_alloc > 0 =>
                     fl_num_allocated + num_elements[t] <= fl_max_to_alloc
          ELSE pushed[t] = 0
    /\ (\A t \in Threads : pc[t] \notin PushLabels) => created = fl_num_allocated
    /\ fl_max_to_alloc > 0 => fl_num_allocated <= fl_max_to_alloc
    /\ ~ready => /\ created = 0
                 /\ \A t \in Threads : pc[t] = "idle"

IInv == TypesOK /\ HolderOK /\ CountOK

-----------------------------------------------------------------------------
\* A chunk never takes the list over its maximum.
LEMMA GrowByBound ==
    ASSUME NEW n \in Nat, fl_num_allocated \in Nat,
           fl_max_to_alloc > 0 => fl_num_allocated <= fl_max_to_alloc
    PROVE  /\ GrowBy(n) \in Nat
           /\ fl_max_to_alloc > 0 => fl_num_allocated + GrowBy(n) <= fl_max_to_alloc
  BY ConstantsAssumption DEF GrowBy

\* The constructed list has no items and no users.
LEMMA InitIInv == Init => IInv
  <1> SUFFICES ASSUME Init PROVE IInv
    OBVIOUS
  <1>0. ready \in BOOLEAN
    BY Zenon DEF Init
  <1>1. TypesOK
    BY <1>0 DEF Init, TypesOK, Labels
  <1>2. \A t \in Threads : pc[t] = "idle" /\ pushed[t] = 0
    BY DEF Init
  <1>3. HolderOK
    BY <1>2, ConstantsAssumption DEF Init, HolderOK, HoldLabels
  <1>4. created = 0 /\ fl_num_allocated = 0
    BY DEF Init
  <1>5. CountOK
    BY <1>2, <1>4, ConstantsAssumption DEF CountOK, PushLabels
  <1>. QED
    BY <1>1, <1>3, <1>5 DEF IInv

\* Every step of every thread preserves the inductive invariant.
LEMMA NextIInv == IInv /\ [Next]_vars => IInv'
  <1> SUFFICES ASSUME IInv, [Next]_vars
               PROVE  IInv'
    OBVIOUS
  <1> USE ConstantsAssumption
  <1>T. TypesOK /\ HolderOK /\ CountOK
    BY DEF IInv
  <1>1. ASSUME NEW t \in Threads, GetCall(t)
        PROVE  IInv'
    <2>1. TypesOK'
      BY <1>T, <1>1 DEF GetCall, PopOr, Goto, TypesOK, Labels, chunk
    <2>2. HolderOK'
      BY <1>T, <1>1 DEF GetCall, PopOr, Goto, TypesOK, HolderOK, HoldLabels
    <2>3. CountOK'
      BY <1>T, <1>1 DEF GetCall, PopOr, Goto, TypesOK, CountOK, PushLabels, chunk
    <2>. QED
      BY <2>1, <2>2, <2>3 DEF IInv
  <1>2. ASSUME NEW t \in Threads, GetLock(t)
        PROVE  IInv'
    <2>1. TypesOK'
      BY <1>T, <1>2 DEF GetLock, Lock, Goto, TypesOK, Labels, chunk
    <2>2. HolderOK'
      BY <1>T, <1>2 DEF GetLock, Lock, Goto, TypesOK, HolderOK, HoldLabels
    <2>3. CountOK'
      BY <1>T, <1>2 DEF GetLock, Lock, Goto, TypesOK, CountOK, PushLabels, chunk
    <2>. QED
      BY <2>1, <2>2, <2>3 DEF IInv
  <1>3. ASSUME NEW t \in Threads, GetUnlock(t)
        PROVE  IInv'
    <2>1. TypesOK'
      BY <1>T, <1>3 DEF GetUnlock, Goto, TypesOK, Labels, chunk
    <2>2. HolderOK'
      BY <1>T, <1>3 DEF GetUnlock, Goto, TypesOK, HolderOK, HoldLabels
    <2>3. CountOK'
      BY <1>T, <1>3 DEF GetUnlock, Goto, TypesOK, CountOK, PushLabels, chunk
    <2>. QED
      BY <2>1, <2>2, <2>3 DEF IInv
  <1>4. ASSUME NEW t \in Threads, GetPop(t)
        PROVE  IInv'
    <2>1. TypesOK'
      BY <1>T, <1>4 DEF GetPop, PopOr, Goto, TypesOK, Labels, chunk
    <2>2. HolderOK'
      BY <1>T, <1>4 DEF GetPop, PopOr, Goto, TypesOK, HolderOK, HoldLabels
    <2>3. CountOK'
      BY <1>T, <1>4 DEF GetPop, PopOr, Goto, TypesOK, CountOK, PushLabels, chunk
    <2>. QED
      BY <2>1, <2>2, <2>3 DEF IInv
  <1>5. ASSUME NEW t \in Threads, WaitCall(t)
        PROVE  IInv'
    <2>1. TypesOK'
      BY <1>T, <1>5 DEF WaitCall, PopOr, Goto, TypesOK, Labels, chunk
    <2>2. HolderOK'
      BY <1>T, <1>5 DEF WaitCall, PopOr, Goto, TypesOK, HolderOK, HoldLabels
    <2>3. CountOK'
      BY <1>T, <1>5 DEF WaitCall, PopOr, Goto, TypesOK, CountOK, PushLabels, chunk
    <2>. QED
      BY <2>1, <2>2, <2>3 DEF IInv
  <1>6. ASSUME NEW t \in Threads, WaitTryLock(t)
        PROVE  IInv'
    <2>1. TypesOK'
      BY <1>T, <1>6 DEF WaitTryLock, Lock, Goto, TypesOK, Labels, chunk
    <2>2. HolderOK'
      BY <1>T, <1>6 DEF WaitTryLock, Lock, Goto, TypesOK, HolderOK, HoldLabels
    <2>3. CountOK'
      BY <1>T, <1>6 DEF WaitTryLock, Lock, Goto, TypesOK, CountOK, PushLabels, chunk
    <2>. QED
      BY <2>1, <2>2, <2>3 DEF IInv
  <1>7. ASSUME NEW t \in Threads, WaitLock(t)
        PROVE  IInv'
    <2>1. TypesOK'
      BY <1>T, <1>7 DEF WaitLock, Lock, Goto, TypesOK, Labels, chunk
    <2>2. HolderOK'
      BY <1>T, <1>7 DEF WaitLock, Lock, Goto, TypesOK, HolderOK, HoldLabels
    <2>3. CountOK'
      BY <1>T, <1>7 DEF WaitLock, Lock, Goto, TypesOK, CountOK, PushLabels, chunk
    <2>. QED
      BY <2>1, <2>2, <2>3 DEF IInv
  <1>8. ASSUME NEW t \in Threads, WaitCheck(t)
        PROVE  IInv'
    <2>1. TypesOK'
      BY <1>T, <1>8 DEF WaitCheck, Goto, TypesOK, Labels, chunk
    <2>2. HolderOK'
      BY <1>T, <1>8 DEF WaitCheck, Goto, TypesOK, HolderOK, HoldLabels
    <2>3. CountOK'
      BY <1>T, <1>8 DEF WaitCheck, Goto, TypesOK, CountOK, PushLabels, chunk
    <2>. QED
      BY <2>1, <2>2, <2>3 DEF IInv
  <1>9. ASSUME NEW t \in Threads, WaitSignal(t)
        PROVE  IInv'
    <2>1. TypesOK'
      BY <1>T, <1>9 DEF WaitSignal, SignalAndGoto, Sleeping, Goto, TypesOK, Labels, chunk
    <2>2. HolderOK'
      BY <1>T, <1>9 DEF WaitSignal, SignalAndGoto, Sleeping, Goto, TypesOK, HolderOK, HoldLabels
    <2>3. CountOK'
      BY <1>T, <1>9 DEF WaitSignal, SignalAndGoto, Sleeping, Goto, TypesOK, CountOK, PushLabels, chunk
    <2>. QED
      BY <2>1, <2>2, <2>3 DEF IInv
  <1>10. ASSUME NEW t \in Threads, WaitSleep(t)
        PROVE  IInv'
    <2>1. TypesOK'
      BY <1>T, <1>10 DEF WaitSleep, Goto, TypesOK, Labels, chunk
    <2>2. HolderOK'
      BY <1>T, <1>10 DEF WaitSleep, Goto, TypesOK, HolderOK, HoldLabels
    <2>3. CountOK'
      BY <1>T, <1>10 DEF WaitSleep, Goto, TypesOK, CountOK, PushLabels, chunk
    <2>. QED
      BY <2>1, <2>2, <2>3 DEF IInv
  <1>11. ASSUME NEW t \in Threads, SpuriousWakeup(t)
        PROVE  IInv'
    <2>1. TypesOK'
      BY <1>T, <1>11 DEF SpuriousWakeup, Goto, TypesOK, Labels, chunk
    <2>2. HolderOK'
      BY <1>T, <1>11 DEF SpuriousWakeup, Goto, TypesOK, HolderOK, HoldLabels
    <2>3. CountOK'
      BY <1>T, <1>11 DEF SpuriousWakeup, Goto, TypesOK, CountOK, PushLabels, chunk
    <2>. QED
      BY <2>1, <2>2, <2>3 DEF IInv
  <1>12. ASSUME NEW t \in Threads, WaitWake(t)
        PROVE  IInv'
    <2>1. TypesOK'
      BY <1>T, <1>12 DEF WaitWake, Lock, Goto, TypesOK, Labels, chunk
    <2>2. HolderOK'
      BY <1>T, <1>12 DEF WaitWake, Lock, Goto, TypesOK, HolderOK, HoldLabels
    <2>3. CountOK'
      BY <1>T, <1>12 DEF WaitWake, Lock, Goto, TypesOK, CountOK, PushLabels, chunk
    <2>. QED
      BY <2>1, <2>2, <2>3 DEF IInv
  <1>13. ASSUME NEW t \in Threads, WaitUnlock(t)
        PROVE  IInv'
    <2>1. TypesOK'
      BY <1>T, <1>13 DEF WaitUnlock, Goto, TypesOK, Labels, chunk
    <2>2. HolderOK'
      BY <1>T, <1>13 DEF WaitUnlock, Goto, TypesOK, HolderOK, HoldLabels
    <2>3. CountOK'
      BY <1>T, <1>13 DEF WaitUnlock, Goto, TypesOK, CountOK, PushLabels, chunk
    <2>. QED
      BY <2>1, <2>2, <2>3 DEF IInv
  <1>14. ASSUME NEW t \in Threads, WaitPop(t)
        PROVE  IInv'
    <2>1. TypesOK'
      BY <1>T, <1>14 DEF WaitPop, PopOr, Goto, TypesOK, Labels, chunk
    <2>2. HolderOK'
      BY <1>T, <1>14 DEF WaitPop, PopOr, Goto, TypesOK, HolderOK, HoldLabels
    <2>3. CountOK'
      BY <1>T, <1>14 DEF WaitPop, PopOr, Goto, TypesOK, CountOK, PushLabels, chunk
    <2>. QED
      BY <2>1, <2>2, <2>3 DEF IInv
  <1>15. ASSUME NEW t \in Threads, ReturnCheck(t)
        PROVE  IInv'
    <2>1. TypesOK'
      BY <1>T, <1>15 DEF ReturnCheck, Goto, TypesOK, Labels, chunk
    <2>2. HolderOK'
      BY <1>T, <1>15 DEF ReturnCheck, Goto, TypesOK, HolderOK, HoldLabels
    <2>3. CountOK'
      BY <1>T, <1>15 DEF ReturnCheck, Goto, TypesOK, CountOK, PushLabels, chunk
    <2>. QED
      BY <2>1, <2>2, <2>3 DEF IInv
  <1>16. ASSUME NEW t \in Threads, ReturnLock(t)
        PROVE  IInv'
    <2>1. TypesOK'
      BY <1>T, <1>16 DEF ReturnLock, Lock, Goto, TypesOK, Labels, chunk
    <2>2. HolderOK'
      BY <1>T, <1>16 DEF ReturnLock, Lock, Goto, TypesOK, HolderOK, HoldLabels
    <2>3. CountOK'
      BY <1>T, <1>16 DEF ReturnLock, Lock, Goto, TypesOK, CountOK, PushLabels, chunk
    <2>. QED
      BY <2>1, <2>2, <2>3 DEF IInv
  <1>17. ASSUME NEW t \in Threads, ReturnSignal(t)
        PROVE  IInv'
    <2>1. TypesOK'
      BY <1>T, <1>17 DEF ReturnSignal, SignalAndGoto, Sleeping, Goto, TypesOK, Labels, chunk
    <2>2. HolderOK'
      BY <1>T, <1>17 DEF ReturnSignal, SignalAndGoto, Sleeping, Goto, TypesOK, HolderOK, HoldLabels
    <2>3. CountOK'
      BY <1>T, <1>17 DEF ReturnSignal, SignalAndGoto, Sleeping, Goto, TypesOK, CountOK, PushLabels, chunk
    <2>. QED
      BY <2>1, <2>2, <2>3 DEF IInv
  <1>18. ASSUME NEW t \in Threads, ResizeLock(t)
        PROVE  IInv'
    <2>1. TypesOK'
      BY <1>T, <1>18 DEF ResizeLock, Lock, Goto, TypesOK, Labels, chunk
    <2>2. HolderOK'
      BY <1>T, <1>18 DEF ResizeLock, Lock, Goto, TypesOK, HolderOK, HoldLabels
    <2>3. CountOK'
      BY <1>T, <1>18 DEF ResizeLock, Lock, Goto, TypesOK, CountOK, PushLabels, chunk
    <2>. QED
      BY <2>1, <2>2, <2>3 DEF IInv
  <1>19. ASSUME NEW t \in Threads, ResizeLoop(t)
        PROVE  IInv'
    <2>1. TypesOK'
      BY <1>T, <1>19 DEF ResizeLoop, Goto, TypesOK, Labels, chunk
    <2>2. HolderOK'
      BY <1>T, <1>19 DEF ResizeLoop, Goto, TypesOK, HolderOK, HoldLabels
    <2>3. CountOK'
      BY <1>T, <1>19 DEF ResizeLoop, Goto, TypesOK, CountOK, PushLabels, chunk
    <2>. QED
      BY <2>1, <2>2, <2>3 DEF IInv
  <1>20. ASSUME NEW t \in Threads, ResizeUnlock(t)
        PROVE  IInv'
    <2>1. TypesOK'
      BY <1>T, <1>20 DEF ResizeUnlock, Goto, TypesOK, Labels, chunk
    <2>2. HolderOK'
      BY <1>T, <1>20 DEF ResizeUnlock, Goto, TypesOK, HolderOK, HoldLabels
    <2>3. CountOK'
      BY <1>T, <1>20 DEF ResizeUnlock, Goto, TypesOK, CountOK, PushLabels, chunk
    <2>. QED
      BY <2>1, <2>2, <2>3 DEF IInv
  <1>21. ASSUME NEW t \in Threads, NEW i \in Items, ReturnCall(t, i)
        PROVE  IInv'
    <2>1. TypesOK'
      BY <1>T, <1>21 DEF ReturnCall, Goto, TypesOK, Labels, chunk
    <2>2. HolderOK'
      BY <1>T, <1>21 DEF ReturnCall, Goto, TypesOK, HolderOK, HoldLabels
    <2>3. CountOK'
      BY <1>T, <1>21 DEF ReturnCall, Goto, TypesOK, CountOK, PushLabels, chunk
    <2>. QED
      BY <2>1, <2>2, <2>3 DEF IInv
  <1>22. ASSUME NEW t \in Threads, NEW size \in Nat, ResizeCall(t, size)
        PROVE  IInv'
    <2>1. TypesOK'
      BY <1>T, <1>22 DEF ResizeCall, Goto, TypesOK, Labels, chunk
    <2>2. HolderOK'
      BY <1>T, <1>22 DEF ResizeCall, Goto, TypesOK, HolderOK, HoldLabels
    <2>3. CountOK'
      BY <1>T, <1>22 DEF ResizeCall, Goto, TypesOK, CountOK, PushLabels, chunk
    <2>. QED
      BY <2>1, <2>2, <2>3 DEF IInv
  <1>23. ASSUME NEW t \in Threads, GrowAlloc(t)
        PROVE  IInv'
    <2> DEFINE k == GrowBy(fl_num_per_alloc)
    <2>1. k \in Nat /\ (fl_max_to_alloc > 0 => fl_num_allocated + k <= fl_max_to_alloc)
      BY <1>T, GrowByBound DEF TypesOK, CountOK
    <2>2. /\ pc[t] \in GrowLabels
          /\ UNCHANGED <<ready, created, fl_num_allocated, fl_lock, pushed>>
      BY <1>23 DEF GrowAlloc
    <2>3. \/ /\ pc' = [pc EXCEPT ![t] = PushLabel[pc[t]]]
             /\ num_elements' = [num_elements EXCEPT ![t] = k]
          \/ /\ pc' = [pc EXCEPT ![t] = FailLabel[pc[t]]]
             /\ num_elements' = num_elements
      BY <1>23 DEF GrowAlloc, Goto
    <2>4. /\ PushLabel[pc[t]] \in PushLabels
          /\ FailLabel[pc[t]] \in {"get_unlock", "wait_sleep", "resize_unlock"}
      BY <2>2 DEF GrowLabels, PushLabel, FailLabel, PushLabels
    <2>5. \A s \in Threads : pc[s] \in PushLabels => s = t
      BY <1>T, <2>2 DEF HolderOK, HoldLabels, PushLabels, GrowLabels
    <2>6. \A s \in Threads : pc[s] \notin PushLabels
      BY <2>2, <2>5 DEF PushLabels, GrowLabels
    <2>7. pushed[t] = 0 /\ created = fl_num_allocated /\ ready = TRUE
      BY <1>T, <2>2, <2>6 DEF CountOK, GrowLabels, TypesOK
    <2> HIDE DEF k
    <2>8. TypesOK'
      BY <1>T, <2>1, <2>2, <2>3, <2>4 DEF TypesOK, Labels, PushLabels
    <2>9. HolderOK'
      BY <1>T, <2>2, <2>3, <2>4 DEF TypesOK, HolderOK, HoldLabels, PushLabels, GrowLabels
    <2>10. CountOK'
      BY <1>T, <2>1, <2>2, <2>3, <2>4, <2>6, <2>7 DEF TypesOK, CountOK, PushLabels
    <2>. QED
      BY <2>8, <2>9, <2>10 DEF IInv
  <1>24. ASSUME NEW t \in Threads, GrowPush(t)
        PROVE  IInv'
    <2>1. /\ pc[t] \in PushLabels /\ pushed[t] < num_elements[t]
          /\ created' = created + 1
          /\ pushed' = [pushed EXCEPT ![t] = @ + 1]
          /\ UNCHANGED <<ready, fl_num_allocated, fl_lock, pc, num_elements>>
      BY <1>24 DEF GrowPush, DoneLabel, PushLabels
    <2>2. \A s \in Threads : pc[s] \in PushLabels => s = t
      BY <1>T, <2>1 DEF HolderOK, HoldLabels, PushLabels
    <2>3. TypesOK'
      BY <1>T, <2>1 DEF TypesOK
    <2>4. HolderOK'
      BY <1>T, <2>1 DEF HolderOK
    <2>5. CountOK'
      BY <1>T, <2>1, <2>2 DEF TypesOK, CountOK, PushLabels
    <2>. QED
      BY <2>3, <2>4, <2>5 DEF IInv
  <1>25. ASSUME NEW t \in Threads, GrowCount(t)
        PROVE  IInv'
    <2>1. /\ pc[t] \in PushLabels /\ pushed[t] = num_elements[t]
          /\ fl_num_allocated' = fl_num_allocated + num_elements[t]
          /\ num_elements' = [num_elements EXCEPT ![t] = 0]
          /\ pushed' = [pushed EXCEPT ![t] = 0]
          /\ pc' = [pc EXCEPT ![t] = DoneLabel[pc[t]]]
          /\ UNCHANGED <<ready, created, fl_lock>>
      BY <1>25 DEF GrowCount, DoneLabel, PushLabels, Goto
    <2>2. \A s \in Threads : pc[s] \in PushLabels => s = t
      BY <1>T, <2>1 DEF HolderOK, HoldLabels, PushLabels
    <2>3. DoneLabel[pc[t]] \in {"get_unlock", "wait_signal", "resize_loop"}
      BY <2>1 DEF DoneLabel, PushLabels
    <2>4. TypesOK'
      BY <1>T, <2>1, <2>3 DEF TypesOK, Labels
    <2>5. HolderOK'
      BY <1>T, <2>1, <2>3 DEF TypesOK, HolderOK, HoldLabels, PushLabels
    <2>6. CountOK'
      BY <1>T, <2>1, <2>2, <2>3 DEF TypesOK, CountOK, PushLabels
    <2>. QED
      BY <2>4, <2>5, <2>6 DEF IInv
  <1>26. ASSUME NEW n \in Nat, InitEx(n)
        PROVE  IInv'
    <2> DEFINE k == GrowBy(n)
    <2>1. ~ready /\ created = 0 /\ \A t \in Threads : pc[t] = "idle"
      BY <1>T, <1>26 DEF InitEx, CountOK
    <2>2. fl_num_allocated = 0 /\ \A t \in Threads : pushed[t] = 0
      BY <1>T, <2>1 DEF CountOK, PushLabels
    <2>3. k \in Nat /\ (fl_max_to_alloc > 0 => k <= fl_max_to_alloc)
      BY <2>2, GrowByBound
    <2>4. /\ ready' = TRUE /\ UNCHANGED <<fl_lock, pc, num_elements, pushed>>
          /\ \/ created' = k /\ fl_num_allocated' = k
             \/ created' = created /\ fl_num_allocated' = fl_num_allocated
      BY <1>26 DEF InitEx, chunk
    <2> HIDE DEF k
    <2>5. TypesOK'
      BY <1>T, <2>3, <2>4 DEF TypesOK
    <2>6. HolderOK'
      BY <1>T, <2>4 DEF HolderOK
    <2>7. CountOK'
      BY <1>T, <2>1, <2>2, <2>3, <2>4 DEF CountOK, PushLabels
    <2>. QED
      BY <2>5, <2>6, <2>7 DEF IInv
  <1>27. CASE Destruct
    <2>0. ready' \in BOOLEAN
      BY <1>27, Zenon DEF Destruct
    <2>1. /\ created' = 0 /\ fl_num_allocated' = 0
          /\ UNCHANGED <<fl_lock, pc, num_elements, pushed>>
          /\ \A t \in Threads : pc[t] = "idle"
      BY <1>27 DEF Destruct, chunk
    <2>2. TypesOK'
      BY <1>T, <2>0, <2>1 DEF TypesOK
    <2>3. HolderOK'
      BY <1>T, <2>1 DEF HolderOK
    <2>4. \A t \in Threads : pushed[t] = 0
      BY <1>T, <2>1 DEF CountOK, PushLabels
    <2>5. CountOK'
      BY <2>1, <2>4 DEF CountOK, PushLabels
    <2>. QED
      BY <2>2, <2>3, <2>5 DEF IInv
  <1>28. CASE UNCHANGED vars
    BY <1>T, <1>28 DEF vars, IInv, TypesOK, HolderOK, CountOK
  <1>. QED
    BY <1>1, <1>2, <1>3, <1>4, <1>5, <1>6, <1>7, <1>8, <1>9, <1>10, <1>11,
       <1>12, <1>13, <1>14, <1>15, <1>16, <1>17, <1>18, <1>19, <1>20,
       <1>21, <1>22, <1>23, <1>24, <1>25, <1>26, <1>27, <1>28
    DEF Next, Call, Step, GrowStep

-----------------------------------------------------------------------------
\* The inductive invariant holds in every reachable state.
LEMMA Invariance == Spec => []IInv
  BY InitIInv, NextIInv, PTL DEF Spec

\* ocoms_free_list_grow never makes more than fl_max_to_alloc items, whatever
\* GET, WAIT and resize calls run at the same time.
THEOREM NeverOverMax == Spec => []AtMostMax
  <1>1. IInv => AtMostMax
    BY ConstantsAssumption
    DEF IInv, TypesOK, CountOK, AtMostMax
  <1>. QED
    BY Invariance, <1>1, PTL

\* While fl_lock is free, fl_num_allocated is the number of items that exist.
THEOREM CountCorrect == Spec => []CountIsExact
  <1>1. IInv => CountIsExact
    BY ConstantsAssumption
    DEF IInv, TypesOK, HolderOK, CountOK, CountIsExact, HoldLabels, PushLabels
  <1>. QED
    BY Invariance, <1>1, PTL
-----------------------------------------------------------------------------
(* fl_num_waiting and c_waiting count the threads inside the wait.  The     *)
(* counts change in the same steps as the set of these threads; a signal    *)
(* only moves threads from one of its two labels to the other.              *)

WaitLabels == {"asleep", "woken"}
Waiters == {t \in Threads : pc[t] \in WaitLabels}

WaitersOK ==
    /\ IsFiniteSet(Waiters)
    /\ fl_num_waiting = Cardinality(Waiters)
    /\ c_waiting = fl_num_waiting

\* A step outside the wait, from label to label, keeps the waiters.
LEMMA GotoKeepsWaiters ==
    ASSUME TypesOK, NEW t \in Threads, NEW m, pc[t] \notin WaitLabels,
           m \notin WaitLabels, pc' = [pc EXCEPT ![t] = m]
    PROVE  Waiters' = Waiters
  BY DEF Waiters, WaitLabels, TypesOK

\* So does a signal, by a thread outside the wait.
LEMMA SignalKeepsWaiters ==
    ASSUME TypesOK, NEW t \in Threads, NEW m, pc[t] \notin WaitLabels,
           m \notin WaitLabels, SignalAndGoto(t, m)
    PROVE  Waiters' = Waiters
  <1>1. CASE pc' = [pc EXCEPT ![t] = m]
    BY <1>1, GotoKeepsWaiters
  <1>2. ASSUME NEW s \in Threads, Sleeping(s),
               pc' = [[pc EXCEPT ![t] = m] EXCEPT ![s] = "woken"]
        PROVE  Waiters' = Waiters
    BY <1>2 DEF Waiters, WaitLabels, TypesOK, Sleeping
  <1>3. CASE pc' = [s \in Threads |-> IF Sleeping(s) THEN "woken"
                                      ELSE [pc EXCEPT ![t] = m][s]]
    BY <1>3 DEF Waiters, WaitLabels, TypesOK, Sleeping
  <1>. QED
    BY <1>1, <1>2, <1>3 DEF SignalAndGoto

\* The counts follow the threads that enter and leave the wait.
LEMMA WaitersKept == IInv /\ WaitersOK /\ [Next]_vars => WaitersOK'
  <1> SUFFICES ASSUME IInv, WaitersOK, [Next]_vars
               PROVE  WaitersOK'
    OBVIOUS
  <1>T. TypesOK
    BY DEF IInv
  <1> DEFINE Kept == Waiters' = Waiters /\ UNCHANGED <<fl_num_waiting, c_waiting>>
  <1>K. ASSUME Kept PROVE WaitersOK'
    BY <1>K DEF WaitersOK
  <1>1. ASSUME NEW t \in Threads, WaitSleep(t)
        PROVE  WaitersOK'
    <2>1. /\ t \notin Waiters /\ Waiters' = Waiters \cup {t}
          /\ fl_num_waiting' = fl_num_waiting + 1 /\ c_waiting' = c_waiting + 1
      BY <1>T, <1>1 DEF WaitSleep, Goto, Waiters, WaitLabels, TypesOK
    <2>2. /\ IsFiniteSet(Waiters \cup {t})
          /\ Cardinality(Waiters \cup {t}) = Cardinality(Waiters) + 1
      BY <2>1, FS_AddElement DEF WaitersOK
    <2>. QED
      BY <2>1, <2>2 DEF WaitersOK
  <1>2. ASSUME NEW t \in Threads, WaitWake(t)
        PROVE  WaitersOK'
    <2>1. /\ t \in Waiters /\ Waiters' = Waiters \ {t}
          /\ fl_num_waiting' = fl_num_waiting - 1 /\ c_waiting' = c_waiting - 1
      BY <1>T, <1>2 DEF WaitWake, Goto, Waiters, WaitLabels, TypesOK
    <2>2. /\ IsFiniteSet(Waiters \ {t})
          /\ Cardinality(Waiters \ {t}) = Cardinality(Waiters) - 1
      BY <2>1, FS_RemoveElement DEF WaitersOK
    <2>. QED
      BY <2>1, <2>2 DEF WaitersOK
  <1>3. CASE Destruct
    <2>1. Waiters' = {} /\ fl_num_waiting' = 0 /\ c_waiting' = 0
      BY <1>3 DEF Destruct, Waiters, WaitLabels
    <2>. QED
      BY <2>1, FS_EmptySet DEF WaitersOK
  <1>4. ASSUME NEW t \in Threads, SpuriousWakeup(t)
        PROVE  Kept
    BY <1>T, <1>4 DEF SpuriousWakeup, Goto, Waiters, WaitLabels, TypesOK
  <1>5. ASSUME NEW t \in Threads, WaitSignal(t) \/ ReturnSignal(t)
        PROVE  Kept
    BY <1>T, <1>5, SignalKeepsWaiters DEF WaitSignal, ReturnSignal, WaitLabels
  <1>6. ASSUME NEW t \in Threads, NEW m \in Labels, pc[t] \notin WaitLabels,
               m \notin WaitLabels, Goto(t, pc[t], m) \/ UNCHANGED pc,
               UNCHANGED <<fl_num_waiting, c_waiting>>
        PROVE  Kept
    BY <1>T, <1>6, GotoKeepsWaiters DEF Goto, Waiters
  <1>7. ASSUME NEW t \in Threads, Call(t)
        PROVE  Kept
    BY <1>T, <1>7, <1>6
    DEF Call, GetCall, WaitCall, ReturnCall, ResizeCall, PopOr, Goto, Labels, WaitLabels
  <1>8. ASSUME NEW t \in Threads, GrowAlloc(t)
        PROVE  Kept
    <2>1. /\ PushLabel[pc[t]] \in PushLabels
          /\ FailLabel[pc[t]] \in {"get_unlock", "wait_sleep", "resize_unlock"}
          /\ pc[t] \in GrowLabels
      BY <1>8 DEF GrowAlloc, GrowLabels, PushLabel, FailLabel, PushLabels
    <2>. QED
      BY <1>8, <2>1, <1>6 DEF GrowAlloc, Goto, GrowLabels, PushLabels, Labels, WaitLabels
  <1>9. ASSUME NEW t \in Threads, GrowPush(t) \/ GrowCount(t)
        PROVE  Kept
    <2>1. /\ DoneLabel[pc[t]] \in {"get_unlock", "wait_signal", "resize_loop"}
          /\ pc[t] \in PushLabels
      BY <1>9 DEF GrowPush, GrowCount, DoneLabel, PushLabels
    <2>. QED
      BY <1>9, <2>1, <1>6 DEF GrowPush, GrowCount, Goto, PushLabels, Labels, WaitLabels
  <1>10. ASSUME NEW t \in Threads,
                GetLock(t) \/ GetUnlock(t) \/ GetPop(t) \/ WaitTryLock(t)
                  \/ WaitLock(t) \/ WaitCheck(t) \/ WaitUnlock(t) \/ WaitPop(t)
        PROVE  Kept
    BY <1>10, <1>6
    DEF GetLock, GetUnlock, GetPop, WaitTryLock, WaitLock, WaitCheck, WaitUnlock,
        WaitPop, PopOr, Goto, Labels, WaitLabels
  <1>11. ASSUME NEW t \in Threads,
                ReturnCheck(t) \/ ReturnLock(t) \/ ResizeLock(t)
                  \/ ResizeLoop(t) \/ ResizeUnlock(t)
         PROVE  Kept
    BY <1>11, <1>6
    DEF ReturnCheck, ReturnLock, ResizeLock, ResizeLoop, ResizeUnlock, Goto,
        Labels, WaitLabels
  <1>12. ASSUME NEW n, InitEx(n)
         PROVE  Kept
    BY <1>12 DEF InitEx, Waiters
  <1>13. CASE UNCHANGED vars
    BY <1>13 DEF vars, WaitersOK, Waiters
  <1>. QED
    BY <1>1, <1>2, <1>3, <1>4, <1>5, <1>7, <1>8, <1>9, <1>10, <1>11, <1>12, <1>13, <1>K
    DEF Next, Step, GrowStep

\* The counts hold in every reachable state.
LEMMA WaitersInvariance == Spec => []WaitersOK
  <1>1. Init => WaitersOK
    <2>1. Init => Waiters = {}
      BY DEF Init, Waiters, WaitLabels
    <2>. QED
      BY <2>1, FS_EmptySet DEF Init, WaitersOK
  <1>. QED
    BY <1>1, WaitersKept, Invariance, PTL DEF Spec

\* fl_num_waiting is the number of threads inside ocoms_condition_wait, however
\* the growing, returning and waking threads interleave.
THEOREM WaitersCounted == Spec => []WaitersAreCounted
  <1>1. WaitersOK => WaitersAreCounted
    BY DEF WaitersOK, WaitersAreCounted, Waiters, WaitLabels
  <1>. QED
    BY WaitersInvariance, <1>1, PTL

-----------------------------------------------------------------------------
(* No guarded sleeper is forgotten.  A thread that fell asleep at the limit *)
(* keeps the list at the limit, so that only RETURN pushes; the push that    *)
(* ends an empty list is the one on the ghost, whose thread signals later;   *)
(* and a signal leaves nobody asleep, for fl_num_waiting is exact.           *)

Guarded(t) == Sleeping(t) /\ ~unguarded[t]

SleepTypesOK ==
    /\ stack \in Seq(Nat)
    /\ unguarded \in [Threads -> BOOLEAN]
    /\ arg \in [Threads -> Nat]

SleepOK ==
    /\ SleepTypesOK
    /\ \A t \in Threads : pc[t] \in PushLabels => num_elements[t] > 0
    /\ \A t \in Threads : Guarded(t) => fl_num_allocated >= fl_max_to_alloc
    /\ SleepersAreWoken

\* Nobody constructs items while a thread sleeps that fell asleep at the limit.
LEMMA GuardedAtLimit ==
    ASSUME fl_max_to_alloc > 0, IInv, SleepOK, NEW s \in Threads, Guarded(s),
           NEW t \in Threads
    PROVE  pc[t] \notin PushLabels
  BY ConstantsAssumption DEF IInv, TypesOK, CountOK, SleepOK

\* A signal wakes one sleeper if there is one, and all if there are several.
LEMMA SignalWakesAll ==
    ASSUME TypesOK, WaitersOK, NEW t \in Threads, NEW m \in Labels,
           m # "asleep", SignalAndGoto(t, m), NEW s \in Threads
    PROVE  pc'[s] # "asleep"
  <1> SUFFICES ASSUME pc'[s] = "asleep" PROVE FALSE
    OBVIOUS
  <1>1. Sleeping(s)
    BY DEF SignalAndGoto, TypesOK, Sleeping
  <1>2. s \in Waiters
    BY <1>1 DEF Sleeping, Waiters, WaitLabels
  <1>3. fl_num_waiting \in Nat /\ fl_num_waiting # 0
    BY <1>2, FS_CardinalityType, FS_EmptySet DEF WaitersOK
  <1>4. CASE fl_num_waiting = 1
    <2>1. PICK x : Waiters = {x}
      BY <1>4, FS_Singleton DEF WaitersOK
    <2>2. PICK r \in Threads : Sleeping(r) /\ pc' = [[pc EXCEPT ![t] = m] EXCEPT ![r] = "woken"]
      BY <1>1, <1>4 DEF SignalAndGoto, WaitersOK
    <2>3. r \in Waiters
      BY <2>2 DEF Sleeping, Waiters, WaitLabels
    <2>4. r = s
      BY <1>2, <2>1, <2>3
    <2>. QED
      BY <2>2, <2>4 DEF TypesOK
  <1>5. CASE fl_num_waiting > 1
    BY <1>1, <1>5, <1>3 DEF SignalAndGoto
  <1>. QED
    BY <1>3, <1>4, <1>5

\* Who is on the way to signal stays so, as long as the others leave the bottom
\* of the list alone and it does not signal itself.
LEMMA SignallerStays ==
    ASSUME NEW s \in Threads, WillSignal(s), stack # <<>>, stack' # <<>>,
           stack'[1] = stack[1], pc'[s] = pc[s], arg'[s] = arg[s]
    PROVE  WillSignal(s)'
  BY DEF WillSignal, PushedOnGhost

\* A pop that leaves items behind leaves the bottom one.
LEMMA PopKeepsBottom ==
    ASSUME SleepTypesOK, NEW t, L!Pop(t)
    PROVE  /\ stack' \in Seq(Nat)
           /\ stack' # <<>> => stack # <<>> /\ stack'[1] = stack[1]
  <1>1. stack \in Seq(Nat) /\ stack # <<>> /\ stack' = SubSeq(stack, 1, Len(stack) - 1)
    BY DEF L!Pop, SleepTypesOK
  <1>. QED
    BY <1>1

LEMMA SleepersKept ==
    fl_max_to_alloc > 0 /\ IInv /\ WaitersOK /\ SleepOK /\ [Next]_vars => SleepOK'
  <1> SUFFICES ASSUME fl_max_to_alloc > 0, IInv, WaitersOK, SleepOK, [Next]_vars
               PROVE  SleepOK'
    OBVIOUS
  <1> USE ConstantsAssumption
  <1>T. TypesOK /\ SleepTypesOK
    BY DEF IInv, SleepOK
  <1>A. ASSUME NEW t \in Threads, NEW m \in Labels, m \notin PushLabels,
               m # "asleep", pc' = [pc EXCEPT ![t] = m],
               UNCHANGED <<unguarded, fl_num_allocated, num_elements>>
        PROVE  /\ \A s \in Threads : pc'[s] \in PushLabels => num_elements'[s] > 0
               /\ \A s \in Threads : Guarded(s)' => Guarded(s)
               /\ \A s \in Threads : Guarded(s)' => fl_num_allocated' >= fl_max_to_alloc
               /\ \A s \in Threads : s # t => pc'[s] = pc[s]
    BY <1>T, <1>A DEF SleepOK, TypesOK, Guarded, Sleeping
  \* A step that leaves the list as it is, of a thread that goes on to signal if
  \* it was about to.
  <1>B. ASSUME NEW t \in Threads, NEW m \in Labels, m \notin PushLabels,
               m # "asleep", pc' = [pc EXCEPT ![t] = m],
               UNCHANGED <<unguarded, fl_num_allocated, num_elements, stack>>,
               arg' = arg \/ \E n \in Nat : arg' = [arg EXCEPT ![t] = n],
               WillSignal(t) => m \in {"return_lock", "return_signal", "wait_signal"}
        PROVE  SleepOK'
    <2>1. SleepTypesOK'
      BY <1>T, <1>B DEF SleepTypesOK
    <2>2. \A s \in Threads : s # t => arg'[s] = arg[s]
      BY <1>T, <1>B DEF SleepTypesOK
    <2>3. SleepersAreWoken'
      <3> SUFFICES ASSUME NEW r \in Threads, Guarded(r)', stack' # <<>>
                   PROVE  \E s \in Threads : WillSignal(s)'
        BY DEF SleepersAreWoken, Guarded
      <3>1. Guarded(r) /\ stack # <<>>
        BY <1>A, <1>B
      <3>2. PICK s \in Threads : WillSignal(s)
        BY <3>1 DEF SleepOK, SleepersAreWoken, Guarded
      <3>3. CASE s = t
        BY <1>T, <1>B, <3>2, <3>3 DEF WillSignal, TypesOK
      <3>4. CASE s # t
        BY <1>A, <1>B, <2>2, <3>1, <3>2, <3>4, SignallerStays
      <3>. QED
        BY <3>3, <3>4
    <2>. QED
      BY <1>A, <1>B, <2>1, <2>3 DEF SleepOK
  \* A pop, of a thread that is not about to signal.
  <1>C. ASSUME NEW t \in Threads, NEW l \in {"idle", "get_pop", "wait_pop"},
               NEW m \in {"get_lock", "idle", "wait_trylock"}, PopOr(t, l, m),
               UNCHANGED <<unguarded, fl_num_allocated, num_elements, arg>>
        PROVE  SleepOK'
    <2>1. CASE Goto(t, l, m) /\ UNCHANGED list
      BY <1>B, <1>C, <2>1 DEF Goto, list, Labels, PushLabels, WillSignal
    <2>2. CASE Goto(t, l, "idle") /\ L!Pop(t)
      <3>1. SleepTypesOK'
        BY <1>T, <1>C, <2>2, PopKeepsBottom DEF SleepTypesOK
      <3>2. SleepersAreWoken'
        <4> SUFFICES ASSUME NEW r \in Threads, Guarded(r)', stack' # <<>>
                     PROVE  \E s \in Threads : WillSignal(s)'
          BY DEF SleepersAreWoken, Guarded
        <4>1. Guarded(r) /\ stack # <<>> /\ stack'[1] = stack[1]
          BY <1>A, <1>C, <1>T, <2>2, PopKeepsBottom DEF Goto, Labels, PushLabels
        <4>2. PICK s \in Threads : WillSignal(s)
          BY <4>1 DEF SleepOK, SleepersAreWoken, Guarded
        <4>3. s # t
          BY <1>C, <2>2, <4>2 DEF Goto, WillSignal
        <4>. QED
          BY <1>A, <1>C, <2>2, <4>1, <4>2, <4>3, SignallerStays
          DEF Goto, Labels, PushLabels
      <3>. QED
        BY <1>A, <1>C, <2>2, <3>1, <3>2 DEF SleepOK, Goto, Labels, PushLabels
    <2>. QED
      BY <1>C, <2>1, <2>2 DEF PopOr
  \* A signal: afterwards nobody is asleep.
  <1>D. ASSUME NEW t \in Threads, NEW m \in {"idle", "wait_unlock"}, SignalAndGoto(t, m),
               UNCHANGED <<unguarded, fl_num_allocated, num_elements, arg, stack>>
        PROVE  SleepOK'
    <2>1. \A s \in Threads : pc'[s] # "asleep"
      BY <1>T, <1>D, SignalWakesAll DEF Labels
    <2>2. \A s \in Threads : pc'[s] \in PushLabels => pc[s] \in PushLabels
      BY <1>T, <1>D DEF SignalAndGoto, TypesOK, PushLabels
    <2>. QED
      BY <1>T, <1>D, <2>1, <2>2
      DEF SleepOK, SleepTypesOK, SleepersAreWoken, Guarded, Sleeping
  <1>1. ASSUME NEW t \in Threads, GetCall(t) \/ WaitCall(t) \/ GetPop(t) \/ WaitPop(t)
        PROVE  SleepOK'
    BY <1>1, <1>C DEF GetCall, WaitCall, GetPop, WaitPop, chunk
  <1>2. ASSUME NEW t \in Threads, NEW i \in Items, ReturnCall(t, i)
        PROVE  SleepOK'
    <2>1. /\ i \in Nat /\ stack' = Append(stack, i) /\ pc[t] = "idle"
          /\ pc' = [pc EXCEPT ![t] = "return_check"] /\ arg' = [arg EXCEPT ![t] = i]
          /\ UNCHANGED <<unguarded, fl_num_allocated, num_elements>>
      BY <1>2 DEF ReturnCall, L!Push, Goto, chunk, Items
    <2>2. SleepTypesOK' /\ stack' # <<>>
      BY <1>T, <2>1 DEF SleepTypesOK
    <2>3. stack'[1] = IF stack = <<>> THEN i ELSE stack[1]
      BY <1>T, <2>1 DEF SleepTypesOK
    <2>4. SleepersAreWoken'
      <3> SUFFICES ASSUME NEW r \in Threads, Guarded(r)'
                   PROVE  \E s \in Threads : WillSignal(s)'
        BY DEF SleepersAreWoken, Guarded
      <3>1. Guarded(r)
        BY <1>A, <2>1 DEF Labels, PushLabels
      <3>2. CASE stack = <<>>
        <4>1. PushedOnGhost(arg[t])' /\ pc'[t] = "return_check"
          BY <1>T, <2>1, <2>2, <2>3, <3>2 DEF PushedOnGhost, TypesOK, SleepTypesOK
        <4>. QED
          BY <4>1 DEF WillSignal
      <3>3. CASE stack # <<>>
        <4>1. PICK s \in Threads : WillSignal(s)
          BY <3>1, <3>3 DEF SleepOK, SleepersAreWoken, Guarded
        <4>2. s # t
          BY <2>1, <4>1 DEF WillSignal
        <4>3. pc'[s] = pc[s] /\ arg'[s] = arg[s]
          BY <1>T, <2>1, <4>2 DEF TypesOK, SleepTypesOK
        <4>. QED
          BY <2>2, <2>3, <3>3, <4>1, <4>3, SignallerStays
      <3>. QED
        BY <3>2, <3>3
    <2>. QED
      BY <1>A, <2>1, <2>2, <2>4 DEF SleepOK, Labels, PushLabels
  <1>3. ASSUME NEW t \in Threads, NEW size \in Nat, ResizeCall(t, size)
        PROVE  SleepOK'
    BY <1>3, <1>B DEF ResizeCall, Goto, chunk, list, Labels, PushLabels, WillSignal
  <1>4. ASSUME NEW t \in Threads, GrowAlloc(t)
        PROVE  SleepOK'
    <2> DEFINE k == GrowBy(fl_num_per_alloc)
    <2>1. /\ pc[t] \in GrowLabels
          /\ UNCHANGED <<unguarded, fl_num_allocated, arg, stack>>
          /\ PushLabel[pc[t]] \in PushLabels
          /\ FailLabel[pc[t]] \in {"get_unlock", "wait_sleep", "resize_unlock"}
      BY <1>4 DEF GrowAlloc, GrowLabels, PushLabel, FailLabel, PushLabels, list
    <2>2. CASE pc' = [pc EXCEPT ![t] = FailLabel[pc[t]]] /\ UNCHANGED num_elements
      BY <2>1, <2>2, <1>B DEF Labels, PushLabels, WillSignal, GrowLabels
    <2>3. CASE /\ k > 0 /\ num_elements' = [num_elements EXCEPT ![t] = k]
               /\ pc' = [pc EXCEPT ![t] = PushLabel[pc[t]]]
      <3>1. /\ \A s \in Threads : Guarded(s)' => Guarded(s)
            /\ \A s \in Threads : s # t => pc'[s] = pc[s]
        BY <1>T, <2>1, <2>3 DEF TypesOK, Guarded, Sleeping, PushLabels
      <3>2. k \in Nat
        BY GrowByBound DEF IInv, TypesOK, CountOK
      <3> HIDE DEF k
      <3>3. \A s \in Threads : pc'[s] \in PushLabels => num_elements'[s] > 0
        BY <1>T, <2>3, <3>1, <3>2 DEF SleepOK, TypesOK
      <3>4. SleepersAreWoken'
        <4> SUFFICES ASSUME NEW r \in Threads, Guarded(r)', stack' # <<>>
                     PROVE  \E s \in Threads : WillSignal(s)'
          BY DEF SleepersAreWoken, Guarded
        <4>1. PICK s \in Threads : WillSignal(s)
          BY <2>1, <3>1 DEF SleepOK, SleepersAreWoken, Guarded
        <4>2. s # t
          BY <2>1, <4>1 DEF WillSignal, GrowLabels
        <4>. QED
          BY <2>1, <3>1, <4>1, <4>2, SignallerStays
      <3>. QED
        BY <1>T, <2>1, <3>1, <3>3, <3>4 DEF SleepOK, SleepTypesOK
    <2>. QED
      BY <1>4, <2>2, <2>3 DEF GrowAlloc, Goto, AllocSucceeds
  <1>5. ASSUME NEW t \in Threads, GrowPush(t)
        PROVE  SleepOK'
    <2>1. /\ pc[t] \in PushLabels /\ stack' = Append(stack, created + 1)
          /\ UNCHANGED <<unguarded, fl_num_allocated, num_elements, arg, pc>>
      BY <1>5 DEF GrowPush, DoneLabel, PushLabels, L!Push
    <2>2. \A s \in Threads : ~Guarded(s)
      BY <2>1, GuardedAtLimit
    <2>3. SleepTypesOK'
      BY <1>T, <2>1 DEF SleepTypesOK, TypesOK
    <2>. QED
      BY <2>1, <2>2, <2>3 DEF SleepOK, SleepersAreWoken, Guarded, Sleeping
  <1>6. ASSUME NEW t \in Threads, GrowCount(t)
        PROVE  SleepOK'
    <2>1. /\ pc[t] \in PushLabels
          /\ pc' = [pc EXCEPT ![t] = DoneLabel[pc[t]]]
          /\ num_elements' = [num_elements EXCEPT ![t] = 0]
          /\ UNCHANGED <<unguarded, arg, stack>>
          /\ DoneLabel[pc[t]] \in {"get_unlock", "wait_signal", "resize_loop"}
      BY <1>6 DEF GrowCount, DoneLabel, PushLabels, Goto, list
    <2>2. \A s \in Threads : ~Guarded(s)
      BY <2>1, GuardedAtLimit
    <2>3. \A s \in Threads : pc'[s] # "asleep" \/ pc'[s] = pc[s]
      BY <1>T, <2>1 DEF TypesOK
    <2>4. \A s \in Threads : ~Guarded(s)'
      BY <2>1, <2>2, <2>3 DEF Guarded, Sleeping
    <2>5. \A s \in Threads : pc'[s] \in PushLabels => num_elements'[s] > 0
      BY <1>T, <2>1 DEF SleepOK, TypesOK, PushLabels
    <2>. QED
      BY <1>T, <2>1, <2>4, <2>5 DEF SleepOK, SleepTypesOK, SleepersAreWoken, Guarded
  <1>7. ASSUME NEW t \in Threads, WaitSleep(t)
        PROVE  SleepOK'
    <2>1. /\ pc[t] = "wait_sleep" /\ pc' = [pc EXCEPT ![t] = "asleep"]
          /\ unguarded' = [unguarded EXCEPT ![t] =
                             stack # <<>> \/ fl_num_allocated < fl_max_to_alloc]
          /\ UNCHANGED <<fl_num_allocated, num_elements, arg, stack>>
      BY <1>7 DEF WaitSleep, Goto, list, chunk
    <2>2. SleepTypesOK'
      BY <1>T, <2>1 DEF SleepTypesOK
    <2>3. \A s \in Threads : s # t => /\ pc'[s] = pc[s] /\ arg'[s] = arg[s]
                                      /\ unguarded'[s] = unguarded[s]
      BY <1>T, <2>1 DEF SleepTypesOK, TypesOK
    <2>4. Guarded(t)' => stack = <<>> /\ fl_num_allocated >= fl_max_to_alloc
      <3>1. unguarded'[t] = (stack # <<>> \/ fl_num_allocated < fl_max_to_alloc)
        BY <1>T, <2>1, Zenon DEF SleepTypesOK
      <3>2. fl_num_allocated < fl_max_to_alloc \/ fl_num_allocated >= fl_max_to_alloc
        BY <1>T DEF TypesOK
      <3>. QED
        BY <3>1, <3>2, Zenon DEF Guarded
    <2>5. \A s \in Threads : Guarded(s)' => s = t \/ Guarded(s)
      BY <2>3 DEF Guarded, Sleeping
    <2>6. SleepersAreWoken'
      <3> SUFFICES ASSUME NEW r \in Threads, Guarded(r)', stack' # <<>>
                   PROVE  \E s \in Threads : WillSignal(s)'
        BY DEF SleepersAreWoken, Guarded
      <3>1. PICK s \in Threads : WillSignal(s)
        BY <2>1, <2>4, <2>5 DEF SleepOK, SleepersAreWoken, Guarded
      <3>2. s # t
        BY <2>1, <3>1 DEF WillSignal
      <3>. QED
        BY <2>1, <2>3, <3>1, <3>2, SignallerStays
    <2>7. \A s \in Threads : pc'[s] \in PushLabels => num_elements'[s] > 0
      BY <1>T, <2>1, <2>3 DEF SleepOK, TypesOK, PushLabels
    <2>. QED
      BY <2>1, <2>2, <2>4, <2>5, <2>6, <2>7 DEF SleepOK
  <1>8. ASSUME NEW t \in Threads, WaitWake(t)
        PROVE  SleepOK'
    <2>1. /\ pc[t] = "woken" /\ pc' = [pc EXCEPT ![t] = "wait_unlock"]
          /\ unguarded' = [unguarded EXCEPT ![t] = FALSE]
          /\ UNCHANGED <<fl_num_allocated, num_elements, arg, stack>>
      BY <1>8 DEF WaitWake, Goto, list, chunk
    <2>2. SleepTypesOK'
      BY <1>T, <2>1 DEF SleepTypesOK
    <2>3. \A s \in Threads : s # t => /\ pc'[s] = pc[s] /\ arg'[s] = arg[s]
                                      /\ unguarded'[s] = unguarded[s]
      BY <1>T, <2>1 DEF SleepTypesOK, TypesOK
    <2>4. \A s \in Threads : Guarded(s)' => Guarded(s)
      BY <1>T, <2>1, <2>3 DEF Guarded, Sleeping, TypesOK
    <2>5. SleepersAreWoken'
      <3> SUFFICES ASSUME NEW r \in Threads, Guarded(r)', stack' # <<>>
                   PROVE  \E s \in Threads : WillSignal(s)'
        BY DEF SleepersAreWoken, Guarded
      <3>1. PICK s \in Threads : WillSignal(s)
        BY <2>1, <2>4 DEF SleepOK, SleepersAreWoken, Guarded
      <3>2. s # t
        BY <2>1, <3>1 DEF WillSignal
      <3>. QED
        BY <2>1, <2>3, <3>1, <3>2, SignallerStays
    <2>6. \A s \in Threads : pc'[s] \in PushLabels => num_elements'[s] > 0
      BY <1>T, <2>1, <2>3 DEF SleepOK, TypesOK, PushLabels
    <2>. QED
      BY <2>1, <2>2, <2>4, <2>5, <2>6 DEF SleepOK
  <1>9. ASSUME NEW t \in Threads, WaitSignal(t) \/ ReturnSignal(t)
        PROVE  SleepOK'
    BY <1>9, <1>D DEF WaitSignal, ReturnSignal, list, chunk
  <1>10. ASSUME NEW t \in Threads, SpuriousWakeup(t)
         PROVE  SleepOK'
    BY <1>10, <1>B DEF SpuriousWakeup, Goto, list, chunk, Labels, PushLabels, WillSignal
  <1>11. ASSUME NEW t \in Threads, ReturnCheck(t)
         PROVE  SleepOK'
    BY <1>11, <1>B DEF ReturnCheck, Goto, list, chunk, Labels, PushLabels, WillSignal
  <1>12. ASSUME NEW t \in Threads,
                GetLock(t) \/ GetUnlock(t) \/ WaitTryLock(t) \/ WaitLock(t)
                  \/ WaitCheck(t) \/ WaitUnlock(t)
         PROVE  SleepOK'
    BY <1>12, <1>B
    DEF GetLock, GetUnlock, WaitTryLock, WaitLock, WaitCheck, WaitUnlock, Goto,
        list, chunk, Labels, PushLabels, WillSignal
  <1>13. ASSUME NEW t \in Threads,
                ReturnLock(t) \/ ResizeLock(t) \/ ResizeLoop(t) \/ ResizeUnlock(t)
         PROVE  SleepOK'
    BY <1>13, <1>B
    DEF ReturnLock, ResizeLock, ResizeLoop, ResizeUnlock, Goto, list, chunk,
        Labels, PushLabels, WillSignal
  <1>14. ASSUME NEW n \in Nat, InitEx(n)
         PROVE  SleepOK'
    <2>1. \A s \in Threads : pc[s] = "idle" /\ pc'[s] = "idle"
      BY <1>14 DEF InitEx, IInv, CountOK
    <2>2. GrowBy(n) \in Nat
      BY GrowByBound DEF IInv, TypesOK, CountOK
    <2>3. SleepTypesOK'
      BY <1>T, <1>14, <2>2 DEF InitEx, SleepTypesOK, list
    <2>. QED
      BY <2>1, <2>3 DEF SleepOK, SleepersAreWoken, Guarded, Sleeping, PushLabels
  <1>15. CASE Destruct
    <2>1. \A s \in Threads : pc[s] = "idle" /\ pc'[s] = "idle"
      BY <1>15 DEF Destruct
    <2>2. SleepTypesOK'
      BY <1>T, <1>15 DEF Destruct, SleepTypesOK
    <2>. QED
      BY <2>1, <2>2 DEF SleepOK, SleepersAreWoken, Guarded, Sleeping, PushLabels
  <1>16. CASE UNCHANGED vars
    BY <1>16 DEF vars, SleepOK, SleepTypesOK, SleepersAreWoken, Guarded, Sleeping,
                 WillSignal, PushedOnGhost
  <1>. QED
    BY <1>1, <1>2, <1>3, <1>4, <1>5, <1>6, <1>7, <1>8, <1>9, <1>10, <1>11, <1>12,
       <1>13, <1>14, <1>15, <1>16
    DEF Next, Call, Step, GrowStep

\* With a limit, no thread that fell asleep at the limit, all items in use,
\* sleeps on beside an item unless a thread is on its way to signal.  Without
\* one WAIT never grows the list and GET, which does, does not signal.
THEOREM SleepersWoken ==
    ASSUME fl_max_to_alloc > 0
    PROVE  Spec => []SleepersAreWoken
  <1>1. Init => SleepOK
    BY DEF Init, SleepOK, SleepTypesOK, SleepersAreWoken, Guarded, Sleeping, PushLabels
  <1>2. SleepOK => SleepersAreWoken
    BY DEF SleepOK
  <1>3. IInv /\ WaitersOK /\ SleepOK /\ [Next]_vars => SleepOK'
    BY SleepersKept
  <1>. QED
    BY <1>1, <1>2, <1>3, Invariance, WaitersInvariance, PTL DEF Spec

=============================================================================
