---------------------------- MODULE Threads_proofs ----------------------------
(***************************************************************************)
(* What threads do to each other: the spin lock and the operations of      *)
(* Atomics, the waiters of Condition, and ObjectClass, for any threads.    *)
(*                                                                         *)
(* The spin lock excludes for any number of threads and calls, any width   *)
(* of the word, and every port whose operations have the forms of          *)
(* AtomicsAssumption, together with everything else that the threads do    *)
(* with the same instructions.  LockExcludes is not inductive.  A          *)
(* store-conditional takes the lock on the word of a load-linked made      *)
(* before: that the lock is still free is what the reservation says        *)
(* (ReservedOK).  What was read in a section is still there when it is     *)
(* written (DataOK), as nobody else is inside (HoldersOK).                 *)
(*                                                                         *)
(* OperationsAppearAtomic speaks of the moments when no call is under way. *)
(* The invariant that carries it there keeps, at all times, an order of    *)
(* the calls that have had their effect, with the word before and after    *)
(* each (Explained).  A call joins at the end of it at its one store, or   *)
(* when its compare-and-set is refused; an addition under the lock joins   *)
(* at its plain write, before it returns (Pending).                        *)
(*                                                                         *)
(* That c_waiting counts the waiters and that the resource has one user    *)
(* hold in every build.  A broadcast reaches all waiters in every build    *)
(* whose waiters sleep; where they poll it needs a program that calls      *)
(* neither timedwait nor OCOMS_WAKEUP_THREAD (KeepsSignals), since both    *)
(* let a waiter in, or a signal go, behind the back of the count.  For the *)
(* polling wait the invariant is that a waiter goes to wait only when no   *)
(* signal is left: from a broadcast until its last signal is taken, the    *)
(* threads it owes one are all there are inside the wait.                  *)
(*                                                                         *)
(* Classes and objects may be any, with any inheritance, on machines that  *)
(* let the stores of ocoms_class_initialize be seen in their order         *)
(* (StoreOrder).  InitInv is the checked, locked and checked again         *)
(* initialization: the flag is set only after the arrays, by the holder of *)
(* class_lock alone, and a class whose flag is set is saved unless its     *)
(* initializer is on the way there.  HeapInv is the life of an object: it  *)
(* has no references while a thread makes it, then those that are counted, *)
(* and none when a thread destructs it.                                    *)
(***************************************************************************)
EXTENDS Atomics, Condition, ObjectClass, FiniteSetTheorems, WellFoundedInduction, TLAPS

Labels == {"idle", "read", "link", "store", "instruction", "spin", "section",
           "update", "unlock"}
InsideLabels == {"section", "update", "unlock"}
Inside(t) == atomic_pc[t] \in InsideLabels

\* What a thread at a label is calling, and which forms an operation can have.
ShapeOK ==
    /\ port \in Ports
    /\ atomic_pc \in [AtomicThreads -> Labels]
    /\ DOMAIN call = AtomicThreads
    /\ DOMAIN seen = AtomicThreads
    /\ DOMAIN reserved = AtomicThreads
    /\ \A t \in AtomicThreads :
          /\ Inside(t) \/ atomic_pc[t] = "spin" => OnLock(t)
          /\ atomic_pc[t] = "read" => ~OnLock(t)

HoldersOK ==
    /\ lock \in {OCOMS_ATOMIC_UNLOCKED, OCOMS_ATOMIC_LOCKED}
    /\ lock = OCOMS_ATOMIC_LOCKED => \E t \in AtomicThreads : Inside(t)
    /\ \A t \in AtomicThreads : Inside(t) => lock = OCOMS_ATOMIC_LOCKED
    /\ \A t, u \in AtomicThreads : Inside(t) /\ Inside(u) => t = u

\* A load-linked of the lock went on because the lock was free, and a reservation
\* that is still there says that it has stayed so.
ReservedOK ==
    \A t \in AtomicThreads :
       atomic_pc[t] = "store" /\ OnLock(t) /\ reserved[t] = "lock"
       => lock = OCOMS_ATOMIC_UNLOCKED

\* Every update that was made is in the data, and what a thread inside has read
\* is what it still holds.
DataOK ==
    /\ shared = sections
    /\ \A t \in AtomicThreads :
          atomic_pc[t] = "update" /\ ~Math(t) => seen[t] = shared

LockInv == ShapeOK /\ HoldersOK /\ ReservedOK /\ DataOK

-----------------------------------------------------------------------------
\* Where a call starts: at one of the first three labels, and with a plain read
\* only if the operation is not one on the lock.
LEMMA EntryLabels ==
    ASSUME port \in Ports
    PROVE  /\ Entry(port.cmpset) \in {"link", "instruction"}
           /\ \A c \in Requests :
                c.op \in port.ops =>
                  LET op == IF c.op \in {"add", "sub"} /\ port.math = "locked"
                            THEN "lock" ELSE c.op
                  IN  /\ Entry(Form(op)) \in {"read", "link", "instruction"}
                      /\ Entry(Form(op)) = "read" => op \notin {"lock", "trylock"}
  <1>1. Entry(port.cmpset) \in {"link", "instruction"}
    BY AtomicsAssumption DEF Entry
  <1>2. ASSUME NEW c \in Requests, c.op \in port.ops
        PROVE  LET op == IF c.op \in {"add", "sub"} /\ port.math = "locked"
                         THEN "lock" ELSE c.op
               IN  /\ Entry(Form(op)) \in {"read", "link", "instruction"}
                   /\ Entry(Form(op)) = "read" => op \notin {"lock", "trylock"}
    <2>1. c.op \in Operations
      BY AtomicsAssumption
    <2>2. CASE c.op \in {"cmpset", "lock", "trylock"}
      BY <1>1, <2>2 DEF Form
    <2>3. CASE c.op = "swap"
      BY <1>2, <2>3, AtomicsAssumption DEF Form, Entry
    <2>4. CASE c.op \in {"add", "sub"}
      BY <1>1, <1>2, <2>4, AtomicsAssumption DEF Form, Entry
    <2>5. CASE c.op = "sc"
      BY <2>5 DEF Form, Entry
    <2>. QED
      BY <2>1, <2>2, <2>3, <2>4, <2>5 DEF Operations
  <1>. QED
    BY <1>1, <1>2

\* What is stored in the lock to take it.
LEMMA LockedValue ==
    ASSUME NEW t, OnLock(t), NEW arg, NEW old
    PROVE  NewValue(call[t].op, arg, old) = OCOMS_ATOMIC_LOCKED
  BY DEF OnLock, NewValue

\* A step that leaves the lock, the data and who is inside alone keeps the
\* invariant, if it is not one inside and makes no reservation of its own count.
LEMMA OutsideStep ==
    ASSUME LockInv, NEW t \in AtomicThreads, ~Inside(t),
           NEW label \in Labels \ InsideLabels, AtomicGoto(t, label),
           label = "spin" => OnLock(t) /\ UNCHANGED call,
           label = "read" => ~OnLock(t)',
           label = "store" /\ OnLock(t)' => lock = OCOMS_ATOMIC_UNLOCKED,
           DOMAIN call' = AtomicThreads, DOMAIN seen' = AtomicThreads,
           DOMAIN reserved' = AtomicThreads,
           \A u \in AtomicThreads : u # t => /\ call'[u] = call[u]
                                             /\ seen'[u] = seen[u]
                                             /\ reserved'[u] \in {reserved[u], "none"},
           UNCHANGED <<port, lock, shared, sections>>
    PROVE  LockInv'
  <1>1. /\ atomic_pc' \in [AtomicThreads -> Labels] /\ atomic_pc'[t] = label
        /\ \A u \in AtomicThreads : u # t => atomic_pc'[u] = atomic_pc[u]
    BY DEF LockInv, ShapeOK, AtomicGoto
  <1>2. \A u \in AtomicThreads : Inside(u)' <=> Inside(u)
    BY <1>1 DEF Inside
  <1>3. ShapeOK'
    BY <1>1, <1>2 DEF LockInv, ShapeOK, OnLock, Inside, InsideLabels
  <1>4. HoldersOK'
    BY <1>2 DEF LockInv, HoldersOK
  <1>5. ReservedOK'
    BY <1>1 DEF LockInv, ReservedOK, OnLock
  <1>6. DataOK'
    BY <1>1 DEF LockInv, DataOK, Math, Inside, InsideLabels
  <1>. QED
    BY <1>3, <1>4, <1>5, <1>6 DEF LockInv

\* A call that is refused, or that returns, ends outside.
LEMMA RefusedStep ==
    ASSUME LockInv, NEW t \in AtomicThreads, ~Inside(t),
           \/ Refused(t)
           \/ \E x : Return(t, x),
           DOMAIN reserved' = AtomicThreads,
           \A u \in AtomicThreads : u # t => reserved'[u] \in {reserved[u], "none"},
           UNCHANGED <<port, lock, shared, sections>>
    PROVE  LockInv'
  <1>1. DOMAIN call = AtomicThreads /\ DOMAIN seen = AtomicThreads
    BY DEF LockInv, ShapeOK
  <1>2. ASSUME Finish(t)
        PROVE  LockInv'
    <2>1. /\ AtomicGoto(t, "idle")
          /\ DOMAIN call' = AtomicThreads /\ DOMAIN seen' = AtomicThreads
          /\ \A u \in AtomicThreads : u # t => /\ call'[u] = call[u]
                                               /\ seen'[u] = seen[u]
      BY <1>1, <1>2 DEF Finish, Sees
    <2>. QED
      BY <2>1, OutsideStep DEF Labels, InsideLabels
  <1>3. ASSUME call[t].op \notin {"cmpset", "trylock"},
               AtomicGoto(t, IF call[t].op = "lock" THEN "spin" ELSE "read"),
               UNCHANGED <<call, seen>>
        PROVE  LockInv'
    BY <1>1, <1>3, OutsideStep DEF Labels, InsideLabels, OnLock
  <1>. QED
    BY <1>2, <1>3 DEF Refused, Return

\* Taking the lock while it is free.
LEMMA LockTaken ==
    ASSUME LockInv, NEW t \in AtomicThreads, ~Inside(t), OnLock(t),
           lock = OCOMS_ATOMIC_UNLOCKED,
           NEW v, v = OCOMS_ATOMIC_LOCKED, StoreTo("lock", v),
           NEW old, Done(t, old),
           UNCHANGED <<port, shared, sections>>
    PROVE  LockInv'
  <1>1. /\ atomic_pc' = [atomic_pc EXCEPT ![t] = "section"] /\ UNCHANGED <<call, seen>>
        /\ lock' = OCOMS_ATOMIC_LOCKED
        /\ \A u \in AtomicThreads : reserved'[u] # "lock"
        /\ DOMAIN reserved' = AtomicThreads
    BY DEF Done, AtomicGoto, StoreTo
  <1>2. /\ atomic_pc' \in [AtomicThreads -> Labels] /\ atomic_pc'[t] = "section"
        /\ \A u \in AtomicThreads : u # t => atomic_pc'[u] = atomic_pc[u]
    BY <1>1 DEF LockInv, ShapeOK, Labels
  <1>3. \A u \in AtomicThreads : ~Inside(u)
    BY DEF LockInv, HoldersOK, OCOMS_ATOMIC_LOCKED, OCOMS_ATOMIC_UNLOCKED
  <1>4. \A u \in AtomicThreads : Inside(u)' <=> u = t
    BY <1>2, <1>3 DEF Inside, InsideLabels
  <1>5. ShapeOK'
    BY <1>1, <1>2, <1>4 DEF LockInv, ShapeOK, OnLock
  <1>6. HoldersOK'
    BY <1>1, <1>4 DEF HoldersOK
  <1>7. ReservedOK'
    BY <1>1 DEF ReservedOK
  <1>8. DataOK'
    BY <1>1, <1>2 DEF LockInv, DataOK, Math
  <1>. QED
    BY <1>5, <1>6, <1>7, <1>8 DEF LockInv

\* The lock changes only in the hands of its holder, a section's data too.
LEMMA NextLockInv ==
    ASSUME LockInv, [AtomicNext]_atomicVars
    PROVE  LockInv'
  <1>D. /\ port \in Ports /\ atomic_pc \in [AtomicThreads -> Labels]
        /\ DOMAIN call = AtomicThreads /\ DOMAIN seen = AtomicThreads
        /\ DOMAIN reserved = AtomicThreads
    BY DEF LockInv, ShapeOK
  <1>E. Entry(port.cmpset) \in {"link", "instruction"}
    BY <1>D, EntryLabels
  <1>1. ASSUME NEW t \in AtomicThreads, NEW c \in Requests, AtomicCall(t, c)
        PROVE  LockInv'
    <2> DEFINE op == IF c.op \in {"add", "sub"} /\ port.math = "locked"
                     THEN "lock" ELSE c.op
               label == Entry(Form(op))
    <2>1. /\ atomic_pc[t] = "idle" /\ c.op \in port.ops
          /\ AtomicGoto(t, label)
          /\ UNCHANGED <<port, lock, reserved, seen, shared, sections>>
          /\ call'[t].op = op /\ DOMAIN call' = AtomicThreads
          /\ \A u \in AtomicThreads : u # t => call'[u] = call[u]
      BY <1>1, <1>D DEF AtomicCall, memory
    <2>2. /\ label \in {"read", "link", "instruction"}
          /\ label = "read" => op \notin {"lock", "trylock"}
      BY <1>D, <2>1, EntryLabels
    <2> HIDE DEF op, label
    <2>3. label = "read" => ~OnLock(t)'
      BY <2>1, <2>2 DEF OnLock
    <2>. QED
      BY <1>D, <2>1, <2>2, <2>3, OutsideStep DEF Inside, Labels, InsideLabels
  <1>2. ASSUME NEW t \in AtomicThreads, LoadLinked(t)
        PROVE  LockInv'
    <2>1. /\ atomic_pc[t] = "link" /\ ~Inside(t)
          /\ DOMAIN reserved' = AtomicThreads
          /\ \A u \in AtomicThreads : u # t => reserved'[u] = reserved[u]
          /\ UNCHANGED <<port, lock, shared, sections>>
      BY <1>2, <1>D DEF LoadLinked, Inside, InsideLabels
    <2>2. CASE Mismatch(t)
      BY <1>2, <2>1, <2>2, RefusedStep DEF LoadLinked
    <2>3. CASE ~Mismatch(t)
      <3>1. /\ AtomicGoto(t, "store") /\ UNCHANGED call
            /\ DOMAIN seen' = AtomicThreads
            /\ \A u \in AtomicThreads : u # t => seen'[u] = seen[u]
        BY <1>2, <1>D, <2>3 DEF LoadLinked, Sees
      <3>2. OnLock(t)' => lock = OCOMS_ATOMIC_UNLOCKED
        BY <2>3, <3>1 DEF Mismatch, OnLock, Contents, Expected
      <3>. QED
        BY <1>D, <2>1, <3>1, <3>2, OutsideStep DEF Labels, InsideLabels
    <2>. QED
      BY <2>2, <2>3
  <1>3. ASSUME NEW t \in AtomicThreads, StoreConditional(t)
        PROVE  LockInv'
    <2>1. atomic_pc[t] = "store" /\ ~Inside(t) /\ UNCHANGED <<port, shared, sections>>
      BY <1>3 DEF StoreConditional, Inside, InsideLabels
    <2>2. CASE OnLock(t)
      <3>1. lock = OCOMS_ATOMIC_UNLOCKED
        BY <1>3, <2>2 DEF StoreConditional, Address, LockInv, ReservedOK
      <3>. QED
        BY <1>3, <2>1, <2>2, <3>1, LockedValue, LockTaken
           DEF StoreConditional, Address
    <2>3. CASE ~OnLock(t)
      <3>1. \E x : Return(t, x)
        BY <1>3, <2>3 DEF StoreConditional, Done
      <3>2. /\ UNCHANGED lock /\ DOMAIN reserved' = AtomicThreads
            /\ \A u \in AtomicThreads : reserved'[u] \in {reserved[u], "none"}
        BY <1>3, <2>3 DEF StoreConditional, Address, StoreTo
      <3>. QED
        BY <2>1, <3>1, <3>2, RefusedStep
    <2>. QED
      BY <2>2, <2>3
  <1>4. ASSUME NEW t \in AtomicThreads, StoreConditionalFails(t)
        PROVE  LockInv'
    <2>1. /\ atomic_pc[t] = "store" /\ ~Inside(t) /\ UNCHANGED <<port, lock, shared, sections>>
          /\ DOMAIN reserved' = AtomicThreads
          /\ \A u \in AtomicThreads : u # t => reserved'[u] = reserved[u]
      BY <1>4, <1>D DEF StoreConditionalFails, Inside, InsideLabels
    <2>2. CASE \E x : Return(t, x)
      BY <2>1, <2>2, RefusedStep
    <2>3. CASE AtomicGoto(t, "link") /\ UNCHANGED <<call, seen>>
      BY <1>D, <2>1, <2>3, OutsideStep DEF Labels, InsideLabels
    <2>. QED
      BY <1>4, <2>2, <2>3 DEF StoreConditionalFails
  <1>5. ASSUME NEW t \in AtomicThreads, Instruction(t)
        PROVE  LockInv'
    <2>1. atomic_pc[t] = "instruction" /\ ~Inside(t) /\ UNCHANGED <<port, shared, sections>>
      BY <1>5 DEF Instruction, Inside, InsideLabels
    <2>2. CASE Mismatch(t) /\ OnLock(t)
      <3>1. Refused(t) /\ UNCHANGED <<lock, reserved>>
        BY <1>5, <2>2 DEF Instruction, SaysStored, memory
      <3>. QED
        BY <1>D, <2>1, <3>1, RefusedStep
    <2>3. CASE ~Mismatch(t) /\ OnLock(t)
      <3>1. \E old : Done(t, old)
        BY <1>5, <2>3 DEF Instruction, SaysStored
      <3>2. lock = OCOMS_ATOMIC_UNLOCKED
        BY <2>3 DEF Mismatch, Contents, Expected
      <3>3. StoreTo("lock", NewValue(call[t].op, call[t].arg,
                                     IF Loops(t) THEN seen[t] ELSE Contents(t)))
        BY <1>5, <2>3 DEF Instruction, Address
      <3>. QED
        BY <2>1, <2>3, <3>1, <3>2, <3>3, LockedValue, LockTaken
    <2>4. CASE ~OnLock(t)
      <3>1. /\ UNCHANGED lock /\ DOMAIN reserved' = AtomicThreads
            /\ \A u \in AtomicThreads : reserved'[u] \in {reserved[u], "none"}
        BY <1>5, <1>D, <2>4 DEF Instruction, Address, StoreTo, memory
      <3>2. Refused(t) \/ \E x : Return(t, x)
        BY <1>5, <2>4 DEF Instruction, Done
      <3>. QED
        BY <2>1, <3>1, <3>2, RefusedStep
    <2>. QED
      BY <2>2, <2>3, <2>4
  <1>6. ASSUME NEW t \in AtomicThreads, LoopRead(t) \/ Spin(t)
        PROVE  LockInv'
    <2>1. /\ ~Inside(t) /\ AtomicGoto(t, Entry(port.cmpset))
          /\ DOMAIN seen' = AtomicThreads
          /\ \A u \in AtomicThreads : u # t => seen'[u] = seen[u]
          /\ UNCHANGED <<port, lock, reserved, call, shared, sections>>
      BY <1>6, <1>D DEF LoopRead, Spin, Inside, InsideLabels, Sees, memory
    <2>. QED
      BY <1>D, <1>E, <2>1, OutsideStep DEF Labels, InsideLabels
  <1>7. ASSUME NEW t \in AtomicThreads, SectionRead(t)
        PROVE  LockInv'
    <2>1. /\ Inside(t) /\ atomic_pc' = [atomic_pc EXCEPT ![t] = "update"]
          /\ seen' = [seen EXCEPT ![t] = IF Math(t) THEN word ELSE shared]
          /\ UNCHANGED <<port, lock, reserved, call, shared, sections>>
      BY <1>7 DEF SectionRead, Inside, InsideLabels, AtomicGoto, Sees, memory
    <2>2. /\ atomic_pc' \in [AtomicThreads -> Labels] /\ atomic_pc'[t] = "update"
          /\ \A u \in AtomicThreads : u # t => atomic_pc'[u] = atomic_pc[u]
      BY <1>D, <2>1 DEF Labels
    <2>3. \A u \in AtomicThreads : Inside(u)' <=> Inside(u)
      BY <2>1, <2>2 DEF Inside, InsideLabels
    <2>4. ShapeOK'
      BY <1>D, <2>1, <2>2, <2>3 DEF LockInv, ShapeOK, OnLock
    <2>5. HoldersOK'
      BY <2>1, <2>3 DEF LockInv, HoldersOK
    <2>6. ReservedOK'
      BY <2>1, <2>2 DEF LockInv, ReservedOK, OnLock
    <2>7. DataOK'
      BY <1>D, <2>1, <2>2 DEF LockInv, DataOK, Math
    <2>. QED
      BY <2>4, <2>5, <2>6, <2>7 DEF LockInv
  <1>8. ASSUME NEW t \in AtomicThreads, SectionWrite(t)
        PROVE  LockInv'
    <2>1. /\ atomic_pc[t] = "update" /\ atomic_pc' = [atomic_pc EXCEPT ![t] = "unlock"]
          /\ UNCHANGED <<port, call, seen>>
      BY <1>8 DEF SectionWrite, AtomicGoto
    <2>2. /\ UNCHANGED lock /\ DOMAIN reserved' = AtomicThreads
          /\ \A u \in AtomicThreads : reserved'[u] \in {reserved[u], "none"}
      BY <1>8, <1>D DEF SectionWrite, StoreTo, memory
    <2>3. /\ atomic_pc' \in [AtomicThreads -> Labels] /\ atomic_pc'[t] = "unlock"
          /\ \A u \in AtomicThreads : u # t => atomic_pc'[u] = atomic_pc[u]
      BY <1>D, <2>1 DEF Labels
    <2>4. Inside(t) /\ \A u \in AtomicThreads : Inside(u)' <=> Inside(u)
      BY <2>1, <2>3 DEF Inside, InsideLabels
    <2>5. ShapeOK'
      BY <1>D, <2>1, <2>2, <2>3, <2>4 DEF LockInv, ShapeOK, OnLock
    <2>6. HoldersOK'
      BY <2>2, <2>4 DEF LockInv, HoldersOK
    <2>7. ReservedOK'
      BY <2>1, <2>2, <2>3 DEF LockInv, ReservedOK, OnLock
    <2>8. shared' = sections'
      BY <1>8, <2>1 DEF SectionWrite, LockInv, DataOK
    <2>9. \A u \in AtomicThreads : atomic_pc'[u] # "update"
      BY <2>3, <2>4 DEF LockInv, HoldersOK, Inside, InsideLabels
    <2>. QED
      BY <2>5, <2>6, <2>7, <2>8, <2>9 DEF LockInv, DataOK
  <1>9. ASSUME NEW t \in AtomicThreads, Unlock(t)
        PROVE  LockInv'
    <2>1. /\ atomic_pc[t] = "unlock" /\ Finish(t) /\ lock' = OCOMS_ATOMIC_UNLOCKED
          /\ DOMAIN reserved' = AtomicThreads
          /\ UNCHANGED <<port, shared, sections>>
      BY <1>9 DEF Unlock, StoreTo, Return
    <2>2. /\ atomic_pc' \in [AtomicThreads -> Labels] /\ atomic_pc'[t] = "idle"
          /\ DOMAIN call' = AtomicThreads /\ DOMAIN seen' = AtomicThreads
          /\ \A u \in AtomicThreads : u # t => /\ atomic_pc'[u] = atomic_pc[u]
                                               /\ call'[u] = call[u]
                                               /\ seen'[u] = seen[u]
      BY <1>D, <2>1 DEF Finish, AtomicGoto, Sees, Labels
    <2>3. \A u \in AtomicThreads : ~Inside(u)'
      BY <2>1, <2>2 DEF LockInv, HoldersOK, Inside, InsideLabels
    <2>4. ShapeOK'
      BY <1>D, <2>1, <2>2, <2>3 DEF LockInv, ShapeOK, OnLock
    <2>5. HoldersOK'
      BY <2>1, <2>3 DEF HoldersOK, OCOMS_ATOMIC_LOCKED, OCOMS_ATOMIC_UNLOCKED
    <2>6. ReservedOK'
      BY <2>1 DEF ReservedOK, OCOMS_ATOMIC_UNLOCKED
    <2>7. DataOK'
      BY <2>1, <2>3 DEF LockInv, DataOK, Inside, InsideLabels
    <2>. QED
      BY <2>4, <2>5, <2>6, <2>7 DEF LockInv
  <1>10. CASE UNCHANGED atomicVars
    BY <1>10 DEF atomicVars, memory, running, LockInv, ShapeOK, HoldersOK,
                 ReservedOK, DataOK, Inside, OnLock, Math
  <1>. QED
    BY <1>1, <1>2, <1>3, <1>4, <1>5, <1>6, <1>7, <1>8, <1>9, <1>10
       DEF AtomicNext, AtomicStep

\* The invariant says what LockExcludes says.
LEMMA InvExcludes ==
    ASSUME LockInv
    PROVE  LockExcludes
  <1> DEFINE inside == {t \in AtomicThreads :
                          atomic_pc[t] \in {"section", "update", "unlock"}}
  <1>1. CASE lock = OCOMS_ATOMIC_LOCKED
    <2>1. PICK t \in AtomicThreads : Inside(t)
      BY <1>1 DEF LockInv, HoldersOK
    <2>2. inside = {t}
      BY <2>1 DEF LockInv, HoldersOK, Inside, InsideLabels
    <2>3. Cardinality(inside) = 1 /\ inside # {}
      BY <2>2, FS_Singleton
    <2>. QED
      BY <1>1, <2>3 DEF LockExcludes
  <1>2. CASE lock # OCOMS_ATOMIC_LOCKED
    <2>1. inside = {}
      BY <1>2 DEF LockInv, HoldersOK, Inside, InsideLabels
    <2>2. Cardinality(inside) = 0
      BY <2>1, FS_EmptySet
    <2>. QED
      BY <1>2, <2>1, <2>2 DEF LockExcludes, LockInv, DataOK
  <1>. QED
    BY <1>1, <1>2

\* One thread at a time is between ocoms_atomic_lock (or a trylock that took the
\* lock) and ocoms_atomic_unlock, and no update made there is lost, on every port
\* and whatever the other threads do to the lock and to the word.
THEOREM SpinLockExcludes ==
    AtomicSpec => []LockExcludes
  <1>1. AtomicInit => LockInv
    BY DEF AtomicInit, LockInv, ShapeOK, HoldersOK, ReservedOK, DataOK, Inside,
           InsideLabels, Labels, OCOMS_ATOMIC_UNLOCKED, OCOMS_ATOMIC_LOCKED
  <1>2. LockInv /\ [AtomicNext]_atomicVars => LockInv'
    BY NextLockInv
  <1>3. LockInv => LockExcludes
    BY InvExcludes
  <1>. QED
    BY <1>1, <1>2, <1>3, PTL DEF AtomicSpec

-----------------------------------------------------------------------------
(* The operations appear atomic *)

\* The compare-and-set of the port compares the whole word, and a port that adds
\* under the lock offers nothing that changes the word without it.
PlainPorts ==
    \A p \in Ports :
       /\ ~p.truncates
       /\ p.math = "locked" => p.ops \cap {"cmpset", "swap", "sc"} = {}

Busy(t) == atomic_pc[t] # "idle"

\* What returned holds of the call of t when its answer is r.
Record(t, r) ==
    [op |-> call[t].task, arg |-> call[t].arg, expect |-> call[t].expect,
     result |-> r, id |-> call[t].id, after |-> call[t].after]

\* An addition under the lock has had its effect before it returns.
Pending(t) == atomic_pc[t] = "unlock" /\ Math(t)
Effect(t) == Record(t, Answer(call[t].task, call[t].arg, seen[t]))
Effects == returned \cup {Effect(t) : t \in {u \in AtomicThreads : Pending(u)}}

\* The calls are numbered, and come after calls that returned.
Ids == {d.id : d \in returned}
CallsOK ==
    /\ made \in Nat
    /\ \A t \in AtomicThreads : Busy(t) =>
          /\ call[t].task \in port.ops /\ call[t].task \in Operations
          /\ call[t].op = IF call[t].task \in {"add", "sub"} /\ port.math = "locked"
                            THEN "lock" ELSE call[t].task
          /\ call[t].id \in 0..(made - 1) /\ call[t].id \notin Ids
          /\ call[t].after \subseteq Ids
          /\ \A u \in AtomicThreads : Busy(u) /\ call[u].id = call[t].id => u = t
    /\ \A d \in returned : d.id \in 0..(made - 1) /\ d.after \subseteq Ids

\* What a thread has read is still in the word as long as it counts on it.
SeenOK ==
    \A t \in AtomicThreads :
       /\ atomic_pc[t] = "store" /\ ~OnLock(t) =>
             /\ reserved[t] = "word" => seen[t] = word
             /\ call[t].op = "cmpset" => seen[t] = call[t].expect
       /\ atomic_pc[t] = "update" /\ Math(t) => seen[t] = word

\* order lists what had an effect, and value is the word before and after each.
OrderOK(order, value) ==
    /\ order \in Seq(Effects)
    /\ \A d \in Effects : \E k \in 1..Len(order) : order[k] = d
    /\ \A j, k \in 1..Len(order) : order[j] = order[k] => j = k
    /\ \A j, k \in 1..Len(order) : order[j].id \in order[k].after => j < k
    /\ value = [k \in 0..Len(order) |-> value[k]]
    /\ value[0] = first /\ value[Len(order)] = word
    /\ \A k \in 1..Len(order) : /\ Agrees(order[k], value[k - 1])
                                /\ value[k] = After(order[k], value[k - 1])

Explained == \E order, value : OrderOK(order, value)
AtomicInv == LockInv /\ CallsOK /\ SeenOK /\ Explained

-----------------------------------------------------------------------------
\* One more effect, which comes last.
LEMMA EffectAdded ==
    ASSUME Explained, NEW d, Effects' = Effects \cup {d},
           \A e \in Effects : e.id # d.id /\ d.id \notin e.after,
           d.id \notin d.after, Agrees(d, word), word' = After(d, word), first' = first
    PROVE  Explained'
  <1>1. PICK order, value : OrderOK(order, value)
    BY DEF Explained
  <1>2. PICK n \in Nat : n = Len(order)
    BY <1>1 DEF OrderOK
  <1>3. PICK order2 : order2 = Append(order, d)
    OBVIOUS
  <1>4. PICK value2 :
          value2 = [k \in 0..(n + 1) |-> IF k = n + 1 THEN After(d, word) ELSE value[k]]
    OBVIOUS
  <1>5. order \in Seq(Effects') /\ d \in Effects' /\ order \in Seq(Effects)
    BY <1>1 DEF OrderOK
  <1>6. /\ order2 \in Seq(Effects') /\ Len(order2) = n + 1
        /\ order2[n + 1] = d /\ \A k \in 1..n : order2[k] = order[k]
    BY <1>2, <1>3, <1>5
  <1>7. \A k \in 1..n : order[k] \in Effects
    BY <1>2, <1>5
  <1>8. \A k \in 1..(n + 1) : k \in 1..n \/ k = n + 1
    OBVIOUS
  <1>9. \A e \in Effects' : \E k \in 1..(n + 1) : order2[k] = e
    <2>1. \A e \in Effects : \E k \in 1..n : order[k] = e
      BY <1>1, <1>2 DEF OrderOK
    <2>. QED
      BY <1>6, <2>1
  <1>10. \A j, k \in 1..(n + 1) : order2[j] = order2[k] => j = k
    <2>1. \A j, k \in 1..n : order[j] = order[k] => j = k
      BY <1>1, <1>2 DEF OrderOK
    <2>2. \A k \in 1..n : order[k] # d
      BY <1>7
    <2>. QED
      BY <1>6, <1>8, <2>1, <2>2
  <1>11. \A j, k \in 1..(n + 1) : order2[j].id \in order2[k].after => j < k
    <2>1. \A j, k \in 1..n : order[j].id \in order[k].after => j < k
      BY <1>1, <1>2 DEF OrderOK
    <2>2. ASSUME NEW j \in 1..(n + 1), NEW k \in 1..(n + 1),
                 order2[j].id \in order2[k].after
          PROVE  j < k
      <3>1. CASE j = n + 1
        BY <1>6, <1>7, <1>8, <2>2, <3>1
      <3>2. CASE j \in 1..n
        BY <1>6, <1>8, <2>1, <2>2, <3>2
      <3>. QED
        BY <1>8, <3>1, <3>2
    <2>. QED
      BY <2>2
  <1>12. /\ value[0] = first /\ value[n] = word
         /\ \A k \in 1..n : /\ Agrees(order[k], value[k - 1])
                            /\ value[k] = After(order[k], value[k - 1])
    BY <1>1, <1>2 DEF OrderOK
  <1>13. /\ value2 = [k \in 0..(n + 1) |-> value2[k]]
         /\ value2[n + 1] = After(d, word) /\ \A k \in 0..n : value2[k] = value[k]
    BY <1>4
  <1>14. value2[0] = first' /\ value2[n + 1] = word'
    BY <1>12, <1>13, 0 \in 0..n
  <1>15. ASSUME NEW k \in 1..(n + 1)
         PROVE  /\ Agrees(order2[k], value2[k - 1])
                /\ value2[k] = After(order2[k], value2[k - 1])
    <2>1. CASE k \in 1..n
      <3>1. k - 1 \in 0..n /\ k \in 0..n
        BY <2>1
      <3>. QED
        BY <1>6, <1>12, <1>13, <2>1, <3>1
    <2>2. CASE k = n + 1
      <3>1. k - 1 = n /\ n \in 0..n
        BY <2>2
      <3>. QED
        BY <1>6, <1>12, <1>13, <2>2, <3>1
    <2>. QED
      BY <1>8, <2>1, <2>2
  <1>16. OrderOK(order2, value2)'
    BY <1>6, <1>9, <1>10, <1>11, <1>13, <1>14, <1>15 DEF OrderOK
  <1>. QED
    BY <1>16 DEF Explained

\* The same effects in the same order.
LEMMA EffectsKept ==
    ASSUME Explained, Effects' = Effects, word' = word, first' = first
    PROVE  Explained'
  <1>1. PICK order, value : OrderOK(order, value)
    BY DEF Explained
  <1>2. OrderOK(order, value)'
    BY <1>1 DEF OrderOK
  <1>. QED
    BY <1>2 DEF Explained

-----------------------------------------------------------------------------
\* The threads other than t are where they were.
OthersStay(t) ==
    \A u \in AtomicThreads : u # t => /\ atomic_pc'[u] = atomic_pc[u]
                                      /\ call'[u] = call[u]
                                      /\ seen'[u] = seen[u]

\* How a step of t leaves its call.
Stays(t) == Busy(t)' /\ UNCHANGED <<call, returned>>
Returns(t, r) == ~Busy(t)' /\ returned' = returned \cup {Record(t, r)}
Leaves(t) == ~Busy(t)' /\ UNCHANGED returned

LEMMA CallsStep ==
    ASSUME CallsOK, NEW t \in AtomicThreads, Busy(t), OthersStay(t),
           Stays(t) \/ Leaves(t) \/ \E r : Returns(t, r), UNCHANGED <<port, made>>
    PROVE  CallsOK'
  <1>1. CASE Stays(t) \/ Leaves(t)
    <2>1. Ids' = Ids
      BY <1>1 DEF Ids, Stays, Leaves
    <2>2. \A u \in AtomicThreads : Busy(u)' => Busy(u) /\ call'[u] = call[u]
      BY <1>1 DEF Stays, Leaves, OthersStay, Busy
    <2>. QED
      BY <1>1, <2>1, <2>2 DEF CallsOK, Stays, Leaves
  <1>2. ASSUME NEW r, Returns(t, r)
        PROVE  CallsOK'
    <2>1. PICK d : d = Record(t, r)
      OBVIOUS
    <2>2. d.id = call[t].id /\ d.after = call[t].after
      BY <2>1 DEF Record
    <2>3. returned' = returned \cup {d} /\ Ids' = Ids \cup {call[t].id}
      BY <1>2, <2>1, <2>2 DEF Returns, Ids
    <2>4. \A u \in AtomicThreads : Busy(u)' => Busy(u) /\ u # t /\ call'[u] = call[u]
      BY <1>2 DEF Returns, OthersStay, Busy
    <2>5. \A u \in AtomicThreads : u # t /\ Busy(u) => call[u].id # call[t].id
      BY DEF CallsOK
    <2>. QED
      BY <2>2, <2>3, <2>4, <2>5 DEF CallsOK
  <1>. QED
    BY <1>1, <1>2

\* The effect that t itself has had and not returned, in a set.
Own(t) == IF Pending(t) THEN {Effect(t)} ELSE {}

\* A step of t changes the effects by what it returns and by its own.
LEMMA EffectsStep ==
    ASSUME NEW t \in AtomicThreads, OthersStay(t)
    PROVE  \E rest : /\ Effects = returned \cup rest \cup Own(t)
                     /\ Effects' = returned' \cup rest \cup Own(t)'
  <1>1. PICK rest : rest = {Effect(u) : u \in {v \in AtomicThreads : v # t /\ Pending(v)}}
    OBVIOUS
  <1>2. \A u \in AtomicThreads : u # t => /\ Pending(u)' <=> Pending(u)
                                          /\ Effect(u)' = Effect(u)
    BY DEF OthersStay, Pending, Math, Effect, Record
  <1>3. rest = {Effect(u)' : u \in {v \in AtomicThreads : v # t /\ Pending(v)'}}
    BY <1>1, <1>2
  <1>4. Effects = returned \cup rest \cup Own(t)
    BY <1>1, Zenon DEF Effects, Own
  <1>5. Effects' = returned' \cup rest \cup Own(t)'
    BY <1>3, Zenon DEF Effects, Own
  <1>. QED
    BY <1>4, <1>5

\* The effect of a call under way is none of those recorded, and comes after none
\* that is not.
LEMMA FreshEffect ==
    ASSUME CallsOK, NEW t \in AtomicThreads, Busy(t), ~Pending(t), NEW d,
           d.id = call[t].id, d.after = call[t].after
    PROVE  /\ \A e \in Effects : e.id # d.id /\ d.id \notin e.after
           /\ d.id \notin d.after
  <1>1. \A e \in returned : e.id \in Ids /\ e.after \subseteq Ids
    BY DEF CallsOK, Ids
  <1>2. call[t].id \notin Ids /\ call[t].after \subseteq Ids
    BY DEF CallsOK
  <1>3. ASSUME NEW u \in AtomicThreads, Pending(u)
        PROVE  Effect(u).id # d.id /\ d.id \notin Effect(u).after
    <2>1. Busy(u) /\ u # t
      BY <1>3 DEF Pending, Busy
    <2>2. call[u].id # call[t].id /\ call[u].after \subseteq Ids
      BY <2>1 DEF CallsOK
    <2>3. Effect(u).id = call[u].id /\ Effect(u).after = call[u].after
      BY DEF Effect, Record
    <2>. QED
      BY <1>2, <2>2, <2>3
  <1>. QED
    BY <1>1, <1>2, <1>3 DEF Effects

\* A step that returns nothing and leaves the word alone.
LEMMA QuietStep ==
    ASSUME Explained, NEW t \in AtomicThreads, OthersStay(t), ~Pending(t), ~Pending(t)',
           UNCHANGED <<returned, word, first>>
    PROVE  Explained'
  BY EffectsStep, EffectsKept DEF Own

\* A step at which a call has its effect and returns.
LEMMA ReturnStep ==
    ASSUME Explained, CallsOK, NEW t \in AtomicThreads, OthersStay(t), Busy(t), ~Pending(t),
           NEW r, Returns(t, r), Agrees(Record(t, r), word),
           word' = After(Record(t, r), word), UNCHANGED first
    PROVE  Explained'
  <1>1. PICK d : d = Record(t, r)
    OBVIOUS
  <1>2. d.id = call[t].id /\ d.after = call[t].after
    BY <1>1 DEF Record
  <1>3. ~Pending(t)' /\ returned' = returned \cup {d}
    BY <1>1 DEF Returns, Pending, Busy
  <1>4. Effects' = Effects \cup {d}
    BY <1>3, EffectsStep DEF Own
  <1>. QED
    BY <1>1, <1>2, <1>4, FreshEffect, EffectAdded

-----------------------------------------------------------------------------
\* On a port that adds under the lock no other call changes the word.
LEMMA UpdatesAlone ==
    ASSUME PlainPorts, LockInv, CallsOK, NEW t \in AtomicThreads, Busy(t), ~OnLock(t),
           NEW u \in AtomicThreads, Inside(u)
    PROVE  ~Math(u)
  <1>. SUFFICES ASSUME Math(u) PROVE FALSE
    OBVIOUS
  <1>1. Busy(u) /\ OnLock(u) /\ port \in Ports
    BY DEF LockInv, ShapeOK, Inside, InsideLabels, Busy
  <1>2. port.math = "locked"
    BY <1>1 DEF CallsOK, OnLock, Math
  <1>3. port.ops \cap {"cmpset", "swap", "sc"} = {}
    BY <1>1, <1>2 DEF PlainPorts
  <1>4. /\ call[t].task \in port.ops /\ call[t].task \in Operations
        /\ call[t].op = IF call[t].task \in {"add", "sub"} THEN "lock" ELSE call[t].task
    BY <1>2 DEF CallsOK
  <1>. QED
    BY <1>3, <1>4 DEF OnLock, Operations

\* A step that keeps the word, or takes away every reservation of it while nobody
\* else is updating it under the lock.
LEMMA SeenStep ==
    ASSUME SeenOK, NEW t \in AtomicThreads, OthersStay(t),
           \A u \in AtomicThreads : u # t /\ reserved'[u] = "word" =>
              reserved[u] = "word" /\ word' = word,
           \/ word' = word
           \/ \A u \in AtomicThreads : u # t => ~(atomic_pc[u] = "update" /\ Math(u)),
           atomic_pc'[t] = "store" /\ ~OnLock(t)' =>
              /\ reserved'[t] = "word" => seen'[t] = word'
              /\ call'[t].op = "cmpset" => seen'[t] = call'[t].expect,
           atomic_pc'[t] = "update" /\ Math(t)' => seen'[t] = word'
    PROVE  SeenOK'
  <1>1. ASSUME NEW u \in AtomicThreads, u # t
        PROVE  /\ atomic_pc'[u] = atomic_pc[u] /\ seen'[u] = seen[u]
               /\ call'[u] = call[u] /\ OnLock(u)' = OnLock(u) /\ Math(u)' = Math(u)
    BY <1>1 DEF OthersStay, OnLock, Math
  <1>2. ASSUME NEW u \in AtomicThreads, u # t
        PROVE  /\ atomic_pc'[u] = "store" /\ ~OnLock(u)' =>
                    /\ reserved'[u] = "word" => seen'[u] = word'
                    /\ call'[u].op = "cmpset" => seen'[u] = call'[u].expect
               /\ atomic_pc'[u] = "update" /\ Math(u)' => seen'[u] = word'
    BY <1>1, <1>2 DEF SeenOK
  <1>. QED
    BY <1>2 DEF SeenOK

\* How a step moves t.
LEMMA CallMoves ==
    ASSUME LockInv, NEW t \in AtomicThreads
    PROVE  /\ \A label : /\ AtomicGoto(t, label) /\ label # "idle"
                         /\ UNCHANGED <<call, returned>>
                         /\ seen' = seen \/ \E v : Sees(t, v)
                         => /\ OthersStay(t) /\ Stays(t) /\ atomic_pc'[t] = label
                            /\ \A v : Sees(t, v) => seen'[t] = v
           /\ Finish(t) => OthersStay(t) /\ atomic_pc'[t] = "idle" /\ ~Busy(t)'
           /\ \A r : Return(t, r) =>
                 OthersStay(t) /\ Returns(t, r) /\ atomic_pc'[t] = "idle"
  <1>1. /\ atomic_pc \in [AtomicThreads -> Labels] /\ DOMAIN call = AtomicThreads
        /\ DOMAIN seen = AtomicThreads
    BY DEF LockInv, ShapeOK
  <1>2. Finish(t) => OthersStay(t) /\ atomic_pc'[t] = "idle" /\ ~Busy(t)'
    BY <1>1 DEF Finish, AtomicGoto, Sees, OthersStay, Busy
  <1>3. \A r : Return(t, r) => OthersStay(t) /\ Returns(t, r) /\ atomic_pc'[t] = "idle"
    BY <1>2 DEF Return, Returns, Record
  <1>4. ASSUME NEW label, AtomicGoto(t, label), label # "idle",
               UNCHANGED <<call, returned>>, seen' = seen \/ \E v : Sees(t, v)
        PROVE  /\ OthersStay(t) /\ Stays(t) /\ atomic_pc'[t] = label
               /\ \A v : Sees(t, v) => seen'[t] = v
    BY <1>1, <1>4 DEF AtomicGoto, Sees, OthersStay, Stays, Busy
  <1>. QED
    BY <1>2, <1>3, <1>4

\* What a step of a call under way leaves true of the calls and of what was read.
LEMMA RestStep ==
    ASSUME CallsOK, SeenOK, NEW t \in AtomicThreads, Busy(t), OthersStay(t),
           Stays(t) \/ Leaves(t) \/ \E r : Returns(t, r), UNCHANGED <<port, made>>,
           \A u \in AtomicThreads : u # t /\ reserved'[u] = "word" =>
              reserved[u] = "word" /\ word' = word,
           \/ word' = word
           \/ \A u \in AtomicThreads : u # t => ~(atomic_pc[u] = "update" /\ Math(u)),
           atomic_pc'[t] \notin {"store", "update"}
    PROVE  CallsOK' /\ SeenOK'
  <1>1. CallsOK'
    BY CallsStep
  <1>2. SeenOK'
    BY SeenStep
  <1>. QED
    BY <1>1, <1>2

\* A call that is refused does nothing to the word.
LEMMA RefusedKeeps ==
    ASSUME LockInv, CallsOK, SeenOK, Explained, NEW t \in AtomicThreads, Busy(t),
           ~Pending(t), Refused(t), call[t].op = "cmpset" => word # call[t].expect,
           \A u \in AtomicThreads : u # t => reserved'[u] = reserved[u],
           UNCHANGED <<port, word, first, made>>
    PROVE  CallsOK' /\ SeenOK' /\ Explained'
  <1>1. CASE call[t].op = "cmpset" /\ Return(t, 0)
    <2>1. OthersStay(t) /\ Returns(t, 0) /\ atomic_pc'[t] = "idle"
      BY <1>1, CallMoves
    <2>2. PICK d : d = Record(t, 0)
      OBVIOUS
    <2>3. d.op = "cmpset" /\ d.result = 0 /\ d.expect = call[t].expect
      BY <1>1, <2>2 DEF CallsOK, Record
    <2>4. Agrees(d, word) /\ After(d, word) = word
      BY <1>1, <2>3 DEF Agrees, After
    <2>5. Explained'
      BY <2>1, <2>2, <2>4, ReturnStep
    <2>. QED
      BY <2>1, <2>5, RestStep
  <1>2. CASE Finish(t) /\ UNCHANGED returned
    <2>1. OthersStay(t) /\ Leaves(t) /\ atomic_pc'[t] = "idle"
      BY <1>2, CallMoves DEF Leaves
    <2>2. Explained'
      BY <1>2, <2>1, QuietStep DEF Pending
    <2>. QED
      BY <2>1, <2>2, RestStep
  <1>3. ASSUME NEW label \in {"spin", "read"}, AtomicGoto(t, label),
               UNCHANGED <<call, seen, returned>>
        PROVE  CallsOK' /\ SeenOK' /\ Explained'
    <2>1. OthersStay(t) /\ Stays(t) /\ atomic_pc'[t] = label
      BY <1>3, CallMoves
    <2>2. Explained'
      BY <1>3, <2>1, QuietStep DEF Pending
    <2>. QED
      BY <2>1, <2>2, RestStep
  <1>. QED
    BY <1>1, <1>2, <1>3 DEF Refused

\* A call on the word stores, and returns.
LEMMA StoresWord ==
    ASSUME PlainPorts, LockInv, CallsOK, SeenOK, Explained,
           NEW t \in AtomicThreads, Busy(t), ~Pending(t), ~OnLock(t),
           call[t].op = "cmpset" => word = call[t].expect,
           StoreTo("word", NewValue(call[t].op, call[t].arg, word)),
           Return(t, Answer(call[t].op, call[t].arg, word)),
           UNCHANGED <<port, first, made>>
    PROVE  CallsOK' /\ SeenOK' /\ Explained'
  <1>1. PICK r : r = Answer(call[t].op, call[t].arg, word)
    OBVIOUS
  <1>2. OthersStay(t) /\ Returns(t, r) /\ atomic_pc'[t] = "idle"
    BY <1>1, CallMoves
  <1>3. PICK d : d = Record(t, r)
    OBVIOUS
  <1>4. /\ call[t].op \in {"cmpset", "swap", "add", "sub", "sc"}
        /\ d.op = call[t].op /\ d.result = r /\ d.expect = call[t].expect
        /\ d.arg = call[t].arg
    BY <1>3 DEF Record, CallsOK, OnLock, Operations
  <1>5. Agrees(d, word)
    BY <1>1, <1>4 DEF Agrees, Answer
  <1>6. After(d, word) = NewValue(call[t].op, call[t].arg, word)
    BY <1>1, <1>4 DEF After, Answer
  <1>7. word' = After(d, word)
    BY <1>6 DEF StoreTo
  <1>8. Explained'
    BY <1>2, <1>3, <1>5, <1>7, ReturnStep
  <1>9. \A u \in AtomicThreads : reserved'[u] # "word"
    BY DEF StoreTo
  <1>10. \A u \in AtomicThreads : ~(atomic_pc[u] = "update" /\ Math(u))
    BY UpdatesAlone DEF Inside, InsideLabels
  <1>. QED
    BY <1>2, <1>8, <1>9, <1>10, RestStep

\* A call takes the lock.
LEMMA StoresLock ==
    ASSUME LockInv, CallsOK, SeenOK, Explained, NEW t \in AtomicThreads, Busy(t),
           ~Pending(t), OnLock(t), NEW v, StoreTo("lock", v), NEW old, Done(t, old),
           UNCHANGED <<port, first, made>>
    PROVE  CallsOK' /\ SeenOK' /\ Explained'
  <1>1. AtomicGoto(t, "section") /\ UNCHANGED <<call, seen, returned>>
    BY DEF Done
  <1>2. OthersStay(t) /\ Stays(t) /\ atomic_pc'[t] = "section"
    BY <1>1, CallMoves
  <1>3. word' = word /\ \A u \in AtomicThreads : reserved'[u] \in {reserved[u], "none"}
    BY DEF StoreTo
  <1>4. Explained'
    BY <1>1, <1>2, <1>3, QuietStep DEF Pending
  <1>. QED
    BY <1>2, <1>3, <1>4, RestStep

-----------------------------------------------------------------------------
\* The order of effects goes on with each step.
LEMMA NextAtomicInv ==
    ASSUME PlainPorts, AtomicInv, [AtomicNext]_atomicVars
    PROVE  AtomicInv'
  <1>D. /\ LockInv /\ CallsOK /\ SeenOK /\ Explained /\ port \in Ports
        /\ DOMAIN call = AtomicThreads /\ DOMAIN seen = AtomicThreads
        /\ DOMAIN reserved = AtomicThreads
    BY DEF AtomicInv, LockInv, ShapeOK
  <1>E. Entry(port.cmpset) \in {"link", "instruction"}
    BY <1>D, EntryLabels
  <1> SUFFICES CallsOK' /\ SeenOK' /\ Explained'
    BY <1>D, NextLockInv DEF AtomicInv
  <1>1. ASSUME NEW t \in AtomicThreads, NEW c \in Requests, AtomicCall(t, c)
        PROVE  CallsOK' /\ SeenOK' /\ Explained'
    <2>1. PICK op : op = IF c.op \in {"add", "sub"} /\ port.math = "locked"
                         THEN "lock" ELSE c.op
      OBVIOUS
    <2>2. PICK label : label = Entry(Form(op))
      OBVIOUS
    <2>3. /\ atomic_pc[t] = "idle" /\ c.op \in port.ops /\ made' = made + 1
          /\ AtomicGoto(t, label)
          /\ call' = [call EXCEPT ![t] =
                [op |-> op, task |-> c.op, arg |-> c.arg, expect |-> c.expect,
                 id |-> made, after |-> Ids]]
          /\ UNCHANGED <<port, word, first, reserved, seen, returned>>
      BY <1>1, <2>1, <2>2 DEF AtomicCall, memory, Ids
    <2>4. label \in {"read", "link", "instruction"} /\ c.op \in Operations
      BY <1>D, <2>1, <2>2, <2>3, EntryLabels, AtomicsAssumption
    <2>5. /\ atomic_pc'[t] = label
          /\ \A u \in AtomicThreads : u # t => atomic_pc'[u] = atomic_pc[u]
      BY <1>D, <2>3 DEF AtomicGoto, LockInv, ShapeOK
    <2>6. /\ call'[t].op = op /\ call'[t].task = c.op /\ call'[t].id = made
          /\ call'[t].after = Ids
          /\ \A u \in AtomicThreads : u # t => call'[u] = call[u]
      BY <1>D, <2>3
    <2>7. OthersStay(t)
      BY <2>3, <2>5, <2>6 DEF OthersStay
    <2>8. Explained'
      BY <1>D, <2>3, <2>4, <2>5, <2>7, QuietStep DEF Pending
    <2>9. SeenOK'
      BY <1>D, <2>3, <2>4, <2>5, <2>7, SeenStep
    <2>10. Ids' = Ids /\ \A i \in Ids : i \in 0..(made - 1)
      BY <1>D, <2>3 DEF Ids, CallsOK
    <2>11. ~Busy(t) /\ \A u \in AtomicThreads : u # t => (Busy(u)' <=> Busy(u))
      BY <2>3, <2>5 DEF Busy
    <2>12. CallsOK'
      <3>1. /\ made \in Nat /\ made' \in Nat /\ made \notin Ids
            /\ \A i \in 0..(made - 1) : i \in 0..(made' - 1) /\ i # made
            /\ made \in 0..(made' - 1)
        BY <1>D, <2>3, <2>10 DEF CallsOK
      <3>2. /\ c.op \in port'.ops
            /\ op = IF c.op \in {"add", "sub"} /\ port'.math = "locked"
                      THEN "lock" ELSE c.op
        BY <2>1, <2>3
      <3>3. ASSUME NEW u \in AtomicThreads, Busy(u)'
            PROVE  /\ call'[u].task \in port'.ops /\ call'[u].task \in Operations
                   /\ call'[u].op = IF call'[u].task \in {"add", "sub"} /\ port'.math = "locked"
                                      THEN "lock" ELSE call'[u].task
                   /\ call'[u].id \in 0..(made' - 1) /\ call'[u].id \notin Ids'
                   /\ call'[u].after \subseteq Ids'
        <4>1. CASE u = t
          <5>1. /\ call'[u].op = op /\ call'[u].task = c.op /\ call'[u].id = made
                /\ call'[u].after = Ids
            BY <2>6, <4>1
          <5>2. /\ call'[u].task \in port'.ops /\ call'[u].task \in Operations
                /\ call'[u].op = IF call'[u].task \in {"add", "sub"} /\ port'.math = "locked"
                                   THEN "lock" ELSE call'[u].task
            BY <2>4, <3>2, <5>1
          <5>3. /\ call'[u].id \in 0..(made' - 1) /\ call'[u].id \notin Ids'
                /\ call'[u].after \subseteq Ids'
            <6>1. made \in 0..(made' - 1) /\ made \notin Ids
              BY <3>1
            <6>. QED
              BY <2>10, <5>1, <6>1, Zenon
          <5>. QED
            BY <5>2, <5>3
        <4>2. CASE u # t
          BY <1>D, <2>3, <2>6, <2>10, <2>11, <3>1, <3>3, <4>2 DEF CallsOK
        <4>. QED
          BY <4>1, <4>2
      <3>4. \A u \in AtomicThreads : u # t /\ Busy(u)' => call'[u].id \in 0..(made - 1)
        BY <1>D, <2>6, <2>11 DEF CallsOK
      <3>5. ASSUME NEW u \in AtomicThreads, NEW v \in AtomicThreads, Busy(u)', Busy(v)',
                   call'[u].id = call'[v].id
            PROVE  u = v
        <4>1. CASE u # t /\ v # t
          BY <1>D, <2>6, <2>11, <3>5, <4>1 DEF CallsOK
        <4>2. CASE u = t \/ v = t
          BY <2>6, <3>1, <3>4, <3>5, <4>2
        <4>. QED
          BY <4>1, <4>2
      <3>6. \A d \in returned' : d.id \in 0..(made' - 1) /\ d.after \subseteq Ids'
        BY <1>D, <2>3, <2>10, <3>1 DEF CallsOK
      <3>. QED
        BY <3>1, <3>3, <3>5, <3>6 DEF CallsOK
    <2>. QED
      BY <2>8, <2>9, <2>12
  <1>2. ASSUME NEW t \in AtomicThreads, LoadLinked(t)
        PROVE  CallsOK' /\ SeenOK' /\ Explained'
    <2>1. /\ atomic_pc[t] = "link" /\ Busy(t) /\ ~Pending(t)
          /\ \A u \in AtomicThreads : u # t => reserved'[u] = reserved[u]
          /\ UNCHANGED <<port, word, first, made>>
      BY <1>D, <1>2 DEF LoadLinked, Busy, Pending
    <2>2. CASE Mismatch(t)
      <3>1. Refused(t)
        BY <1>2, <2>2 DEF LoadLinked
      <3>2. call[t].op = "cmpset" => word # call[t].expect
        BY <2>2 DEF Mismatch, Contents, Expected, OnLock, Loops
      <3>. QED
        BY <1>D, <2>1, <3>1, <3>2, RefusedKeeps
    <2>3. CASE ~Mismatch(t)
      <3>1. AtomicGoto(t, "store") /\ Sees(t, Contents(t)) /\ UNCHANGED <<call, returned>>
        BY <1>2, <2>3 DEF LoadLinked
      <3>2. /\ OthersStay(t) /\ Stays(t) /\ atomic_pc'[t] = "store"
            /\ seen'[t] = Contents(t)
        BY <1>D, <3>1, CallMoves
      <3>3. Explained'
        BY <1>D, <2>1, <3>1, <3>2, QuietStep DEF Pending
      <3>4. CallsOK'
        BY <1>D, <2>1, <3>2, CallsStep
      <3>5. /\ ~OnLock(t)' => seen'[t] = word
            /\ ~OnLock(t)' /\ call'[t].op = "cmpset" => seen'[t] = call'[t].expect
        BY <2>3, <3>1, <3>2 DEF OnLock, Contents, Mismatch, Expected, Loops
      <3>6. SeenOK'
        BY <1>D, <2>1, <3>2, <3>5, SeenStep
      <3>. QED
        BY <3>3, <3>4, <3>6
    <2>. QED
      BY <2>2, <2>3
  <1>3. ASSUME NEW t \in AtomicThreads, StoreConditional(t)
        PROVE  CallsOK' /\ SeenOK' /\ Explained'
    <2>1. /\ atomic_pc[t] = "store" /\ Busy(t) /\ ~Pending(t)
          /\ UNCHANGED <<port, first, made>>
      BY <1>3 DEF StoreConditional, Busy, Pending
    <2>2. CASE OnLock(t)
      BY <1>D, <1>3, <2>1, <2>2, StoresLock DEF StoreConditional, Address
    <2>3. CASE ~OnLock(t)
      <3>1. /\ seen[t] = word
            /\ call[t].op = "cmpset" => word = call[t].expect
        BY <1>D, <1>3, <2>1, <2>3 DEF StoreConditional, Address, SeenOK
      <3>2. /\ StoreTo("word", NewValue(call[t].op, call[t].arg, word))
            /\ Return(t, Answer(call[t].op, call[t].arg, word))
        BY <1>3, <2>3, <3>1 DEF StoreConditional, Address, Done
      <3>. QED
        BY <1>D, <2>1, <2>3, <3>1, <3>2, StoresWord
    <2>. QED
      BY <2>2, <2>3
  <1>4. ASSUME NEW t \in AtomicThreads, StoreConditionalFails(t)
        PROVE  CallsOK' /\ SeenOK' /\ Explained'
    <2>1. /\ atomic_pc[t] = "store" /\ Busy(t) /\ ~Pending(t)
          /\ \A u \in AtomicThreads : u # t => reserved'[u] = reserved[u]
          /\ UNCHANGED <<port, word, first, made>>
      BY <1>D, <1>4 DEF StoreConditionalFails, Busy, Pending
    <2>2. CASE call[t].op = "sc"
      <3>1. OthersStay(t) /\ Returns(t, 0) /\ atomic_pc'[t] = "idle"
        BY <1>D, <1>4, <2>2, CallMoves DEF StoreConditionalFails
      <3>2. PICK d : d = Record(t, 0)
        OBVIOUS
      <3>3. d.op = "sc" /\ d.result = 0
        BY <1>D, <2>1, <2>2, <3>2 DEF CallsOK, Record
      <3>4. Agrees(d, word) /\ After(d, word) = word
        BY <3>3 DEF Agrees, After
      <3>5. Explained'
        BY <1>D, <2>1, <3>1, <3>2, <3>4, ReturnStep
      <3>. QED
        BY <1>D, <2>1, <3>1, <3>5, RestStep
    <2>3. CASE call[t].op # "sc"
      <3>1. AtomicGoto(t, "link") /\ UNCHANGED <<call, seen, returned>>
        BY <1>4, <2>3 DEF StoreConditionalFails
      <3>2. OthersStay(t) /\ Stays(t) /\ atomic_pc'[t] = "link"
        BY <1>D, <3>1, CallMoves
      <3>3. Explained'
        BY <1>D, <2>1, <3>1, <3>2, QuietStep DEF Pending
      <3>. QED
        BY <1>D, <2>1, <3>2, <3>3, RestStep
    <2>. QED
      BY <2>2, <2>3
  <1>5. ASSUME NEW t \in AtomicThreads, Instruction(t)
        PROVE  CallsOK' /\ SeenOK' /\ Explained'
    <2>1. /\ atomic_pc[t] = "instruction" /\ Busy(t) /\ ~Pending(t)
          /\ UNCHANGED <<port, first, made>>
      BY <1>5 DEF Instruction, Busy, Pending
    <2>2. SaysStored(t) <=> ~Mismatch(t)
      BY <1>D DEF PlainPorts, SaysStored
    <2>3. CASE Mismatch(t)
      <3>1. Refused(t) /\ UNCHANGED <<word, reserved>>
        BY <1>5, <2>2, <2>3 DEF Instruction, memory
      <3>2. call[t].op = "cmpset" => word # call[t].expect
        BY <2>3 DEF Mismatch, Contents, Expected, OnLock, Loops
      <3>. QED
        BY <1>D, <2>1, <3>1, <3>2, RefusedKeeps
    <2>4. PICK old : old = IF Loops(t) THEN seen[t] ELSE Contents(t)
      OBVIOUS
    <2>5. ASSUME ~Mismatch(t)
          PROVE  /\ StoreTo(Address(t), NewValue(call[t].op, call[t].arg, old))
                 /\ Done(t, old)
      BY <1>5, <2>2, <2>4, <2>5 DEF Instruction
    <2>6. CASE ~Mismatch(t) /\ OnLock(t)
      BY <1>D, <2>1, <2>5, <2>6, StoresLock DEF Address
    <2>7. CASE ~Mismatch(t) /\ ~OnLock(t)
      <3>1. old = word /\ (call[t].op = "cmpset" => word = call[t].expect)
        BY <2>4, <2>7 DEF Mismatch, Contents, Expected, Loops
      <3>2. /\ StoreTo("word", NewValue(call[t].op, call[t].arg, word))
            /\ Return(t, Answer(call[t].op, call[t].arg, word))
        BY <2>5, <2>7, <3>1 DEF Address, Done
      <3>. QED
        BY <1>D, <2>1, <2>7, <3>1, <3>2, StoresWord
    <2>. QED
      BY <2>3, <2>6, <2>7
  <1>6. ASSUME NEW t \in AtomicThreads, LoopRead(t) \/ Spin(t)
        PROVE  CallsOK' /\ SeenOK' /\ Explained'
    <2>1. /\ atomic_pc[t] \in {"read", "spin"} /\ Busy(t) /\ ~Pending(t)
          /\ UNCHANGED <<port, word, first, reserved, made, call, returned>>
          /\ AtomicGoto(t, Entry(port.cmpset))
          /\ seen' = seen \/ \E v : Sees(t, v)
      BY <1>6 DEF LoopRead, Spin, Busy, Pending, memory
    <2>2. PICK label \in {"link", "instruction"} : AtomicGoto(t, label)
      BY <1>E, <2>1
    <2>3. OthersStay(t) /\ Stays(t) /\ atomic_pc'[t] = label
      BY <1>D, <2>1, <2>2, CallMoves
    <2>4. Explained'
      BY <1>D, <2>1, <2>3, QuietStep DEF Pending
    <2>. QED
      BY <1>D, <2>1, <2>3, <2>4, RestStep
  <1>7. ASSUME NEW t \in AtomicThreads, SectionRead(t)
        PROVE  CallsOK' /\ SeenOK' /\ Explained'
    <2>1. /\ atomic_pc[t] = "section" /\ Busy(t) /\ ~Pending(t)
          /\ UNCHANGED <<port, word, first, reserved, made, call, returned>>
          /\ AtomicGoto(t, "update") /\ Sees(t, IF Math(t) THEN word ELSE shared)
      BY <1>7 DEF SectionRead, Busy, Pending, memory
    <2>2. /\ OthersStay(t) /\ Stays(t) /\ atomic_pc'[t] = "update"
          /\ Math(t) => seen'[t] = word
      BY <1>D, <2>1, CallMoves
    <2>3. Explained'
      BY <1>D, <2>1, <2>2, QuietStep DEF Pending
    <2>4. CallsOK'
      BY <1>D, <2>1, <2>2, CallsStep
    <2>5. SeenOK'
      BY <1>D, <2>1, <2>2, SeenStep DEF Math
    <2>. QED
      BY <2>3, <2>4, <2>5
  <1>8. ASSUME NEW t \in AtomicThreads, SectionWrite(t)
        PROVE  CallsOK' /\ SeenOK' /\ Explained'
    <2>1. /\ atomic_pc[t] = "update" /\ Busy(t) /\ ~Pending(t) /\ Inside(t)
          /\ UNCHANGED <<port, first, made, call, seen, returned>>
          /\ AtomicGoto(t, "unlock")
      BY <1>8 DEF SectionWrite, Busy, Pending, Inside, InsideLabels
    <2>2. OthersStay(t) /\ Stays(t) /\ atomic_pc'[t] = "unlock"
      BY <1>D, <2>1, CallMoves
    <2>3. \A u \in AtomicThreads : u # t => atomic_pc[u] # "update"
      BY <1>D, <2>1 DEF LockInv, HoldersOK, Inside, InsideLabels
    <2>4. \A u \in AtomicThreads : reserved'[u] = "word" => reserved[u] = "word" /\ word' = word
      BY <1>8, <1>D DEF SectionWrite, StoreTo, memory
    <2>5. CASE Math(t)
      <3>1. PICK d : d = Effect(t)
        OBVIOUS
      <3>2. seen[t] = word /\ call[t].task \in {"add", "sub"}
        BY <1>D, <2>1, <2>5 DEF SeenOK, Math
      <3>3. /\ d.op = call[t].task /\ d.arg = call[t].arg
            /\ d.result = Answer(call[t].task, call[t].arg, word)
            /\ d.id = call[t].id /\ d.after = call[t].after
        BY <3>1, <3>2 DEF Effect, Record
      <3>4. Agrees(d, word)
        BY <3>2, <3>3 DEF Agrees
      <3>5. word' = After(d, word)
        BY <1>8, <2>5, <3>2, <3>3 DEF SectionWrite, StoreTo, After
      <3>6. Pending(t)' /\ Effect(t)' = d
        BY <2>1, <2>2, <2>5, <3>1 DEF Pending, Effect, Record, Math
      <3>7. Effects' = Effects \cup {d}
        BY <2>1, <2>2, <3>6, EffectsStep DEF Own
      <3>8. Explained'
        BY <1>D, <2>1, <3>3, <3>4, <3>5, <3>7, FreshEffect, EffectAdded
      <3>. QED
        BY <1>D, <2>1, <2>2, <2>3, <2>4, <3>8, RestStep
    <2>6. CASE ~Math(t)
      <3>1. UNCHANGED <<word, reserved>>
        BY <1>8, <2>6 DEF SectionWrite, memory
      <3>2. Explained'
        BY <1>D, <2>1, <2>2, <2>6, <3>1, QuietStep DEF Pending, Math
      <3>. QED
        BY <1>D, <2>1, <2>2, <3>1, <3>2, RestStep
    <2>. QED
      BY <2>5, <2>6
  <1>9. ASSUME NEW t \in AtomicThreads, Unlock(t)
        PROVE  CallsOK' /\ SeenOK' /\ Explained'
    <2>1. /\ atomic_pc[t] = "unlock" /\ Busy(t)
          /\ UNCHANGED <<port, first, made, word>>
          /\ \A u \in AtomicThreads : reserved'[u] \in {reserved[u], "none"}
      BY <1>9 DEF Unlock, StoreTo, Busy
    <2>2. CASE Math(t)
      <3>1. PICK r : r = Answer(call[t].task, call[t].arg, seen[t])
        OBVIOUS
      <3>2. OthersStay(t) /\ Returns(t, r) /\ atomic_pc'[t] = "idle"
        BY <1>9, <1>D, <2>2, <3>1, CallMoves DEF Unlock
      <3>3. returned' = returned \cup {Effect(t)}
        BY <3>1, <3>2 DEF Returns, Effect
      <3>4. Pending(t) /\ ~Pending(t)'
        BY <2>1, <2>2, <3>2 DEF Pending
      <3>5. Effects' = Effects
        BY <3>2, <3>3, <3>4, EffectsStep DEF Own
      <3>6. Explained'
        BY <1>D, <2>1, <3>5, EffectsKept
      <3>. QED
        BY <1>D, <2>1, <3>2, <3>6, RestStep
    <2>3. CASE ~Math(t)
      <3>1. Finish(t) /\ UNCHANGED returned
        BY <1>9, <2>3 DEF Unlock
      <3>2. OthersStay(t) /\ Leaves(t) /\ atomic_pc'[t] = "idle"
        BY <1>D, <3>1, CallMoves DEF Leaves
      <3>3. Explained'
        BY <1>D, <2>1, <2>3, <3>1, <3>2, QuietStep DEF Pending
      <3>. QED
        BY <1>D, <2>1, <3>2, <3>3, RestStep
    <2>. QED
      BY <2>2, <2>3
  <1>10. CASE UNCHANGED atomicVars
    <2>1. UNCHANGED <<port, word, first, reserved, atomic_pc, call, seen, made, returned>>
      BY <1>10 DEF atomicVars, memory, running
    <2>2. CallsOK' /\ SeenOK'
      BY <1>D, <2>1 DEF CallsOK, Busy, Ids, SeenOK, OnLock, Math
    <2>3. Effects' = Effects
      BY <2>1 DEF Effects, Pending, Effect, Record, Math
    <2>. QED
      BY <1>D, <2>1, <2>2, <2>3, EffectsKept
  <1>. QED
    BY <1>1, <1>2, <1>3, <1>4, <1>5, <1>6, <1>7, <1>8, <1>9, <1>10
       DEF AtomicNext, AtomicStep

-----------------------------------------------------------------------------
\* A set of naturals that is not empty has a least element.
LEMMA LeastElement ==
    ASSUME NEW S \in SUBSET Nat, S # {}
    PROVE  \E k \in S : \A j \in S : k <= j
  <1>1. \E R : /\ IsWellFoundedOn(R, Nat)
               /\ \A j, k \in Nat : <<j, k>> \in R <=> j < k
    <2>1. \A j, k \in Nat : <<j, k>> \in OpToRel(<, Nat) <=> j < k
      BY DEF OpToRel
    <2> WITNESS OpToRel(<, Nat)
    <2>. QED
      BY <2>1, NatLessThanWellFounded
  <1>2. PICK R : /\ IsWellFoundedOn(R, Nat)
                 /\ \A j, k \in Nat : <<j, k>> \in R <=> j < k
    BY <1>1
  <1>3. S \subseteq Nat /\ IsWellFoundedOn(R, Nat)
    BY <1>2
  <1>4. \E k \in S : \A j \in S : ~(<<j, k>> \in R)
    BY <1>3, WFMin, Zenon
  <1>5. PICK k \in S : \A j \in S : ~(<<j, k>> \in R)
    BY <1>4
  <1>6. \A j \in S : ~(j < k)
    BY <1>2, <1>3, <1>5, Zenon
  <1>. QED
    BY <1>3, <1>6

\* The function that Explains defines is the one of the invariant.
LEMMA ValuesExplain ==
    ASSUME NEW order, NEW n \in Nat, Len(order) = n, DOMAIN order = 1..n,
           NEW value, value = [k \in 0..n |-> value[k]],
           value[0] = first, value[n] = word,
           \A k \in 1..n : /\ Agrees(order[k], value[k - 1])
                           /\ value[k] = After(order[k], value[k - 1])
    PROVE  Explains(order)
  <1> DEFINE defined(f) ==
               f = [k \in 0..Len(order) |->
                      IF k = 0 THEN first ELSE After(order[k], f[k - 1])]
             f0 == CHOOSE f : defined(f)
  <1>1. value = [k \in 0..n |-> IF k = 0 THEN first ELSE After(order[k], value[k - 1])]
    <2>1. \A k \in 0..n : k = 0 \/ k \in 1..n
      OBVIOUS
    <2>. QED
      BY <2>1
  <1>2. defined(value)
    BY <1>1
  <1>3. defined(f0)
    BY <1>2
  <1>4. PICK g : g = f0
    OBVIOUS
  <1>5. g = [k \in 0..n |-> IF k = 0 THEN first ELSE After(order[k], g[k - 1])]
    BY <1>3, <1>4
  <1>6. \A k \in 1..n : k \in 0..n /\ k # 0
    OBVIOUS
  <1>7. PICK h : h = [k \in 0..n |-> IF k = 0 THEN first ELSE After(order[k], g[k - 1])]
    OBVIOUS
  <1>8. \A k \in 1..n : h[k] = After(order[k], g[k - 1])
    BY <1>6, <1>7
  <1>9. \A k \in 1..n : g[k] = After(order[k], g[k - 1])
    BY <1>5, <1>7, <1>8
  <1>10. \A k \in 0..n : g[k] = value[k]
    <2>1. SUFFICES ASSUME ~ \A k \in 0..n : g[k] = value[k] PROVE FALSE
      OBVIOUS
    <2>2. PICK S : S = {k \in 0..n : g[k] # value[k]}
      OBVIOUS
    <2>3. S \in SUBSET Nat /\ S # {}
      BY <2>1, <2>2
    <2>4. PICK k \in S : \A j \in S : k <= j
      BY <2>3, LeastElement
    <2>5. k \in 0..n /\ g[k] # value[k] /\ g[0] = first
      BY <1>5, <2>2, <2>4
    <2>6. k \in 1..n /\ k - 1 \in 0..n /\ k - 1 \notin S
      BY <2>3, <2>4, <2>5
    <2>7. g[k - 1] = value[k - 1]
      BY <2>2, <2>6
    <2>8. g[k] = After(order[k], g[k - 1]) /\ value[k] = After(order[k], value[k - 1])
      BY <1>9, <2>6
    <2>. QED
      BY <2>5, <2>7, <2>8
  <1>11. /\ \A k \in DOMAIN order : Agrees(order[k], g[k - 1])
        /\ word = g[Len(order)]
    <2>1. \A k \in 1..n : k - 1 \in 0..n
      OBVIOUS
    <2>. QED
      BY <1>10, <2>1
  <1> HIDE DEF f0, defined
  <1>12. /\ \A k \in DOMAIN order : Agrees(order[k], f0[k - 1])
        /\ word = f0[Len(order)]
    BY <1>4, <1>11
  <1>. QED
    BY <1>12 DEF Explains, f0, defined

\* When no call is under way the order explains what returned.
LEMMA InvAppears ==
    ASSUME AtomicInv
    PROVE  OperationsAppearAtomic
  <1> SUFFICES ASSUME Quiet PROVE \E order \in SetToSeqs(returned) :
                 /\ \A i, j \in DOMAIN order : order[i].id \in order[j].after => i < j
                 /\ Explains(order)
    BY DEF OperationsAppearAtomic
  <1>1. Effects = returned
    BY DEF Quiet, Effects, Pending
  <1>2. PICK order, value : OrderOK(order, value)
    BY DEF AtomicInv, Explained
  <1>3. PICK n \in Nat : n = Len(order)
    BY <1>2 DEF OrderOK
  <1>4. order \in [1..n -> returned] /\ DOMAIN order = 1..n
    BY <1>1, <1>2, <1>3 DEF OrderOK
  <1>5. order \in Bijection(1..n, returned)
    BY <1>1, <1>2, <1>3, <1>4 DEF OrderOK, Bijection, Injection, Surjection, IsInjective
  <1>6. Cardinality(returned) = n
    <2>1. IsFiniteSet(1..n) /\ Cardinality(1..n) = IF 1 > n THEN 0 ELSE n - 1 + 1
      BY FS_Interval
    <2>2. Cardinality(1..n) = n
      BY <2>1
    <2>. QED
      BY <1>5, <2>1, <2>2, FS_Bijection DEF ExistsBijection
  <1>7. order \in SetToSeqs(returned)
    BY <1>2, <1>3, <1>4, <1>6 DEF OrderOK, SetToSeqs
  <1>8. \A i, j \in DOMAIN order : order[i].id \in order[j].after => i < j
    BY <1>2, <1>3, <1>4 DEF OrderOK
  <1>9. Explains(order)
    BY <1>2, <1>3, <1>4, ValuesExplain DEF OrderOK
  <1>. QED
    BY <1>7, <1>8, <1>9

\* The appearance of atomic operation is upheld (sys/atomic.h): whatever form the
\* port gives its operations, the calls on the word that returned have the results,
\* and leave the word, of some order of the same calls made in one step each, in
\* which a call that returned before another began comes before it.
THEOREM OperationsLinearize ==
    ASSUME PlainPorts
    PROVE  AtomicSpec => []OperationsAppearAtomic
  <1>1. AtomicInit => AtomicInv
    <2> SUFFICES ASSUME AtomicInit PROVE AtomicInv
      OBVIOUS
    <2>1. LockInv
      BY DEF AtomicInit, LockInv, ShapeOK, HoldersOK, ReservedOK, DataOK, Inside,
             InsideLabels, Labels, OCOMS_ATOMIC_UNLOCKED, OCOMS_ATOMIC_LOCKED
    <2>2. \A t \in AtomicThreads : atomic_pc[t] = "idle"
      BY DEF AtomicInit
    <2>3. CallsOK /\ SeenOK
      BY <2>2 DEF AtomicInit, CallsOK, Busy, Ids, SeenOK
    <2>4. Effects = {}
      BY <2>2 DEF AtomicInit, Effects, Pending
    <2>5. PICK order : order = <<>>
      OBVIOUS
    <2>6. PICK value : value = [k \in 0..0 |-> first]
      OBVIOUS
    <2>7. order \in Seq(Effects) /\ Len(order) = 0
      BY <2>5
    <2>8. value = [k \in 0..0 |-> value[k]] /\ value[0] = first /\ value[0] = word
      BY <2>6 DEF AtomicInit
    <2>9. OrderOK(order, value)
      BY <2>4, <2>7, <2>8 DEF OrderOK
    <2>. QED
      BY <2>1, <2>3, <2>9 DEF AtomicInv, Explained
  <1>2. AtomicInv /\ [AtomicNext]_atomicVars => AtomicInv'
    BY NextAtomicInv
  <1>3. AtomicInv => OperationsAppearAtomic
    BY InvAppears
  <1>. QED
    BY <1>1, <1>2, <1>3, PTL DEF AtomicSpec

-----------------------------------------------------------------------------
KeepsSignals == \A b \in Builds : b.sleeps \/ ~(b.timed \/ b.wakeup)

Wakers == {"wakeup", "store", "look", "notify"}
Places == {"idle", "check", "held", "using", "enter", "counted", "wait", "leave",
           "again"} \cup Wakers
In(places) == {t \in CondThreads : at[t] \in places}

TypeOK ==
    /\ build \in Builds
    /\ mutex \in CondThreads \cup {"nobody"}
    /\ active \in BOOLEAN
    /\ c_waiting \in Nat /\ c_signaled \in Int
    /\ at \in [CondThreads -> Places]
    /\ asleep \subseteq CondThreads /\ timed \subseteq CondThreads
    /\ owed \subseteq CondThreads
    /\ count_seen \in [CondThreads -> Nat]

\* The mutex belongs to the thread that is at a place it has it at.
MutexOK ==
    \A t \in CondThreads :
       mutex = t <=> at[t] \in {"check", "held", "enter", "counted", "leave"}

UserOK ==
    /\ \A t, u \in In({"held", "using"}) : t = u
    /\ active <=> In({"held", "using"}) # {}

CountOK == IsFiniteSet(Waiting) /\ WaitersAreCounted

\* Who sleeps and who is owed a signal is inside the wait.
WaitOK ==
    /\ asleep \subseteq In({"wait"})
    /\ owed \subseteq In({"wait", "leave"})
    /\ build.sleeps => owed \cap asleep = {}
    /\ ~build.sleeps => asleep = {}

BaseInv == TypeOK /\ MutexOK /\ UserOK /\ CountOK /\ WaitOK

\* The polling wait, in a program that only waits, signals and broadcasts.
PollOK ==
    ~build.sleeps =>
    /\ ~build.timed /\ ~build.wakeup
    /\ timed = {}
    /\ In(Wakers) = {}
    /\ owed = {} \/ owed = In({"wait", "leave"})
    /\ Cardinality(owed) <= c_signaled
    /\ In({"leave"}) # {} => c_signaled >= 1

-----------------------------------------------------------------------------
\* A thread that goes from one place to another.
Moves(t, place) == at' = [at EXCEPT ![t] = place]

LEMMA MoveStep ==
    ASSUME TypeOK, NEW t \in CondThreads, NEW place \in Places, Moves(t, place)
    PROVE  /\ at' \in [CondThreads -> Places]
           /\ at'[t] = place
           /\ \A u \in CondThreads : u # t => at'[u] = at[u]
  BY DEF TypeOK, Moves

\* How the waiters change with a move, and their number.
LEMMA CountStep ==
    ASSUME BaseInv, NEW t \in CondThreads, NEW place \in Places, Moves(t, place),
           c_waiting' = c_waiting
                        + (IF place \in {"counted", "wait", "leave"} THEN 1 ELSE 0)
                        - (IF t \in Waiting THEN 1 ELSE 0)
    PROVE  CountOK' /\ c_waiting' \in Nat
  <1>1. /\ IsFiniteSet(Waiting) /\ c_waiting = Cardinality(Waiting)
        /\ c_waiting \in Nat /\ at \in [CondThreads -> Places]
    BY DEF BaseInv, TypeOK, CountOK, WaitersAreCounted
  <1>2. CASE place \in {"counted", "wait", "leave"}
    <2>1. Waiting' = Waiting \cup {t}
      BY <1>1, <1>2 DEF Moves, Waiting
    <2>2. /\ IsFiniteSet(Waiting \cup {t})
          /\ Cardinality(Waiting \cup {t}) =
               IF t \in Waiting THEN Cardinality(Waiting) ELSE Cardinality(Waiting) + 1
      BY <1>1, FS_AddElement
    <2>. QED
      BY <1>1, <1>2, <2>1, <2>2 DEF CountOK, WaitersAreCounted
  <1>3. CASE place \notin {"counted", "wait", "leave"}
    <2>1. Waiting' = Waiting \ {t}
      BY <1>1, <1>3 DEF Moves, Waiting
    <2>2. /\ IsFiniteSet(Waiting \ {t})
          /\ Cardinality(Waiting \ {t}) =
               IF t \in Waiting THEN Cardinality(Waiting) - 1 ELSE Cardinality(Waiting)
      BY <1>1, FS_RemoveElement
    <2>3. IsFiniteSet(Waiting)' /\ WaitersAreCounted'
      BY <1>1, <1>3, <2>1, <2>2 DEF WaitersAreCounted
    <2>4. c_waiting' \in Nat
      BY <2>1, <2>2, <2>3, FS_CardinalityType DEF WaitersAreCounted
    <2>. QED
      BY <2>3, <2>4 DEF CountOK
  <1>. QED
    BY <1>2, <1>3

\* While a program does not free the resource without the mutex, who has decided
\* to wait does so for a resource in use, and nobody is left behind when it is free.
FreeOK ==
    ~build.wakeup =>
    /\ In(Wakers) = {}
    /\ In({"enter", "counted"}) # {} => active
    /\ NobodyIsStranded

-----------------------------------------------------------------------------
\* The second half of a broadcast under the mutex leaves nobody asleep: with one
\* waiter there is at most one sleeper to signal.
LEMMA NotifyWakesAll ==
    ASSUME BaseInv, Notify(c_waiting)
    PROVE  asleep' = {}
  <1>1. CASE c_waiting = 1
    <2>1. PICK w : Waiting = {w}
      BY <1>1, FS_Singleton DEF BaseInv, CountOK, WaitersAreCounted
    <2>2. asleep \subseteq {w}
      BY <2>1 DEF BaseInv, WaitOK, In, Waiting
    <2>. QED
      BY <1>1, <2>2 DEF Notify
  <1>2. CASE c_waiting # 1
    BY <1>2 DEF Notify
  <1>. QED
    BY <1>1, <1>2

-----------------------------------------------------------------------------
\* What holds in every build.
LEMMA NextBase ==
    ASSUME BaseInv, [CondNext]_condVars
    PROVE  BaseInv'
  <1>T. /\ TypeOK /\ at \in [CondThreads -> Places] /\ c_waiting \in Nat
        /\ c_signaled \in Int /\ "nobody" \notin CondThreads
    BY ConditionAssumption DEF BaseInv, TypeOK
  <1>1. ASSUME NEW t \in CondThreads, Acquire(t) \/ AcquireTimed(t)
        PROVE  BaseInv'
    <2>1. at[t] = "idle" /\ Moves(t, "check") /\ c_waiting' = c_waiting
      BY <1>1 DEF Acquire, AcquireTimed, Locks, Moves
    <2>2. /\ at' \in [CondThreads -> Places] /\ at'[t] = "check"
          /\ \A u \in CondThreads : u # t => at'[u] = at[u]
      BY <1>T, <2>1, MoveStep DEF Places, Wakers
    <2>3. CountOK' /\ c_waiting' \in Nat
      BY <1>T, <2>1, CountStep DEF Waiting, Places, Wakers
    <2>4. TypeOK'
      BY <1>1, <1>T, <2>2, <2>3 DEF Acquire, AcquireTimed, Locks, TypeOK
    <2>5. MutexOK'
      BY <1>1, <1>T, <2>1, <2>2 DEF Acquire, AcquireTimed, Locks, BaseInv, MutexOK
    <2>6. UserOK'
      BY <1>1, <1>T, <2>1, <2>2 DEF Acquire, AcquireTimed, Locks, BaseInv, MutexOK, UserOK, In
    <2>7. WaitOK'
      BY <1>1, <1>T, <2>1, <2>2 DEF Acquire, AcquireTimed, Locks, BaseInv, WaitOK, In
    <2>. QED
      BY <2>3, <2>4, <2>5, <2>6, <2>7 DEF BaseInv
  <1>2. ASSUME NEW t \in CondThreads, Take(t)
        PROVE  BaseInv'
    <2>1. at[t] = "check" /\ Moves(t, "held") /\ c_waiting' = c_waiting
      BY <1>2 DEF Take, Moves
    <2>2. /\ at' \in [CondThreads -> Places] /\ at'[t] = "held"
          /\ \A u \in CondThreads : u # t => at'[u] = at[u]
      BY <1>T, <2>1, MoveStep DEF Places, Wakers
    <2>3. CountOK' /\ c_waiting' \in Nat
      BY <1>T, <2>1, CountStep DEF Waiting, Places, Wakers
    <2>4. TypeOK'
      BY <1>2, <1>T, <2>2, <2>3 DEF Take, TypeOK
    <2>5. MutexOK'
      BY <1>2, <1>T, <2>1, <2>2 DEF Take, BaseInv, MutexOK
    <2>6. UserOK'
      BY <1>2, <1>T, <2>1, <2>2 DEF Take, BaseInv, MutexOK, UserOK, In
    <2>7. WaitOK'
      BY <1>2, <1>T, <2>1, <2>2 DEF Take, BaseInv, WaitOK, In
    <2>. QED
      BY <2>3, <2>4, <2>5, <2>6, <2>7 DEF BaseInv
  <1>3. ASSUME NEW t \in CondThreads, EnterWait(t)
        PROVE  BaseInv'
    <2>1. at[t] = "enter" /\ Moves(t, "counted") /\ c_waiting' = c_waiting + 1
      BY <1>3 DEF EnterWait, Moves
    <2>2. /\ at' \in [CondThreads -> Places] /\ at'[t] = "counted"
          /\ \A u \in CondThreads : u # t => at'[u] = at[u]
      BY <1>T, <2>1, MoveStep DEF Places, Wakers
    <2>3. CountOK' /\ c_waiting' \in Nat
      BY <1>T, <2>1, CountStep DEF Waiting, Places, Wakers
    <2>4. TypeOK'
      BY <1>3, <1>T, <2>2, <2>3 DEF EnterWait, TypeOK
    <2>5. MutexOK'
      BY <1>3, <1>T, <2>1, <2>2 DEF EnterWait, BaseInv, MutexOK
    <2>6. UserOK'
      BY <1>3, <1>T, <2>1, <2>2 DEF EnterWait, BaseInv, MutexOK, UserOK, In
    <2>7. WaitOK'
      BY <1>3, <1>T, <2>1, <2>2 DEF EnterWait, BaseInv, WaitOK, In
    <2>. QED
      BY <2>3, <2>4, <2>5, <2>6, <2>7 DEF BaseInv
  <1>17. ASSUME NEW t \in CondThreads, MustWait(t)
        PROVE  BaseInv'
    <2>1. at[t] = "check" /\ Moves(t, "enter") /\ c_waiting' = c_waiting
      BY <1>17 DEF MustWait, Moves
    <2>2. /\ at' \in [CondThreads -> Places] /\ at'[t] = "enter"
          /\ \A u \in CondThreads : u # t => at'[u] = at[u]
      BY <1>T, <2>1, MoveStep DEF Places, Wakers
    <2>3. CountOK' /\ c_waiting' \in Nat
      BY <1>T, <2>1, CountStep DEF Waiting, Places, Wakers
    <2>4. TypeOK'
      BY <1>17, <1>T, <2>2, <2>3 DEF MustWait, TypeOK
    <2>5. MutexOK'
      BY <1>17, <1>T, <2>1, <2>2 DEF MustWait, BaseInv, MutexOK
    <2>6. UserOK'
      BY <1>17, <1>T, <2>1, <2>2 DEF MustWait, BaseInv, MutexOK, UserOK, In
    <2>7. WaitOK'
      BY <1>17, <1>T, <2>1, <2>2 DEF MustWait, BaseInv, WaitOK, In
    <2>. QED
      BY <2>3, <2>4, <2>5, <2>6, <2>7 DEF BaseInv
  <1>4. ASSUME NEW t \in CondThreads, Sleep(t)
        PROVE  BaseInv'
    <2>1. at[t] = "counted" /\ Moves(t, "wait") /\ c_waiting' = c_waiting
      BY <1>4 DEF Sleep, Moves
    <2>2. /\ at' \in [CondThreads -> Places] /\ at'[t] = "wait"
          /\ \A u \in CondThreads : u # t => at'[u] = at[u]
      BY <1>T, <2>1, MoveStep DEF Places, Wakers
    <2>3. CountOK' /\ c_waiting' \in Nat
      BY <1>T, <2>1, CountStep DEF Waiting, Places, Wakers
    <2>4. TypeOK'
      BY <1>4, <1>T, <2>2, <2>3 DEF Sleep, TypeOK
    <2>5. MutexOK'
      BY <1>4, <1>T, <2>1, <2>2 DEF Sleep, BaseInv, MutexOK
    <2>6. UserOK'
      BY <1>4, <1>T, <2>1, <2>2 DEF Sleep, BaseInv, MutexOK, UserOK, In
    <2>7. WaitOK'
      BY <1>4, <1>T, <2>1, <2>2 DEF Sleep, BaseInv, WaitOK, In
    <2>. QED
      BY <2>3, <2>4, <2>5, <2>6, <2>7 DEF BaseInv
  <1>6. ASSUME NEW t \in CondThreads, PollAgain(t)
        PROVE  BaseInv'
    <2>1. at[t] = "again" /\ Moves(t, "check") /\ c_waiting' = c_waiting
      BY <1>6 DEF PollAgain, Locks, Moves
    <2>2. /\ at' \in [CondThreads -> Places] /\ at'[t] = "check"
          /\ \A u \in CondThreads : u # t => at'[u] = at[u]
      BY <1>T, <2>1, MoveStep DEF Places, Wakers
    <2>3. CountOK' /\ c_waiting' \in Nat
      BY <1>T, <2>1, CountStep DEF Waiting, Places, Wakers
    <2>4. TypeOK'
      BY <1>6, <1>T, <2>2, <2>3 DEF PollAgain, Locks, TypeOK
    <2>5. MutexOK'
      BY <1>6, <1>T, <2>1, <2>2 DEF PollAgain, Locks, BaseInv, MutexOK
    <2>6. UserOK'
      BY <1>6, <1>T, <2>1, <2>2 DEF PollAgain, Locks, BaseInv, MutexOK, UserOK, In
    <2>7. WaitOK'
      BY <1>6, <1>T, <2>1, <2>2 DEF PollAgain, Locks, BaseInv, WaitOK, In
    <2>. QED
      BY <2>3, <2>4, <2>5, <2>6, <2>7 DEF BaseInv
  <1>8. ASSUME NEW t \in CondThreads, Wake(t)
        PROVE  BaseInv'
    <2>1. at[t] = "wait" /\ Moves(t, "leave") /\ c_waiting' = c_waiting
      BY <1>8 DEF Wake, Locks, Moves
    <2>2. /\ at' \in [CondThreads -> Places] /\ at'[t] = "leave"
          /\ \A u \in CondThreads : u # t => at'[u] = at[u]
      BY <1>T, <2>1, MoveStep DEF Places, Wakers
    <2>3. CountOK' /\ c_waiting' \in Nat
      BY <1>T, <2>1, CountStep DEF Waiting, Places, Wakers
    <2>4. TypeOK'
      BY <1>8, <1>T, <2>2, <2>3 DEF Wake, Locks, TypeOK
    <2>5. MutexOK'
      BY <1>8, <1>T, <2>1, <2>2 DEF Wake, Locks, BaseInv, MutexOK
    <2>6. UserOK'
      BY <1>8, <1>T, <2>1, <2>2 DEF Wake, Locks, BaseInv, MutexOK, UserOK, In
    <2>7. WaitOK'
      BY <1>8, <1>T, <2>1, <2>2 DEF Wake, Locks, BaseInv, WaitOK, In
    <2>. QED
      BY <2>3, <2>4, <2>5, <2>6, <2>7 DEF BaseInv
  <1>5. ASSUME NEW t \in CondThreads, Poll(t)
        PROVE  BaseInv'
    <2>1. PICK place \in {"leave", "again", "wait"} :
            /\ at[t] = "counted" /\ Moves(t, place)
            /\ c_waiting' = IF place = "again" THEN c_waiting - 1 ELSE c_waiting
      BY <1>5 DEF Poll, Moves
    <2>2. /\ at' \in [CondThreads -> Places] /\ at'[t] = place
          /\ \A u \in CondThreads : u # t => at'[u] = at[u]
      BY <1>T, <2>1, MoveStep DEF Places, Wakers
    <2>3. CountOK' /\ c_waiting' \in Nat
      BY <1>T, <2>1, CountStep DEF Waiting, Places, Wakers
    <2>4. TypeOK'
      BY <1>5, <1>T, <2>2, <2>3 DEF Poll, TypeOK
    <2>5. MutexOK'
      BY <1>5, <1>T, <2>1, <2>2 DEF Poll, BaseInv, MutexOK
    <2>6. UserOK'
      BY <1>5, <1>T, <2>1, <2>2 DEF Poll, BaseInv, MutexOK, UserOK, In
    <2>7. WaitOK'
      BY <1>5, <1>T, <2>1, <2>2 DEF Poll, BaseInv, WaitOK, In
    <2>. QED
      BY <2>3, <2>4, <2>5, <2>6, <2>7 DEF BaseInv
  <1>7. ASSUME NEW t \in CondThreads, SpuriousOrTimeout(t) \/ Signal(t)
        PROVE  BaseInv'
    <2>1. /\ UNCHANGED <<build, mutex, active, c_waiting, at, timed, count_seen, owed>>
          /\ asleep' \subseteq asleep /\ c_signaled' \in Int
      BY <1>7, <1>T DEF SpuriousOrTimeout, Signal
    <2>. QED
      BY <2>1 DEF BaseInv, TypeOK, MutexOK, UserOK, CountOK, WaitersAreCounted,
                  Waiting, WaitOK, In
  <1>9. ASSUME NEW t \in CondThreads, Leave(t)
        PROVE  BaseInv'
    <2>1. PICK place \in {"idle", "check"} :
            /\ at[t] = "leave" /\ Moves(t, place)
            /\ c_waiting' = c_waiting - 1
      BY <1>9 DEF Leave, Moves
    <2>2. /\ at' \in [CondThreads -> Places] /\ at'[t] = place
          /\ \A u \in CondThreads : u # t => at'[u] = at[u]
      BY <1>T, <2>1, MoveStep DEF Places, Wakers
    <2>3. CountOK' /\ c_waiting' \in Nat
      BY <1>T, <2>1, CountStep DEF Waiting, Places, Wakers
    <2>4. TypeOK'
      BY <1>9, <1>T, <2>2, <2>3 DEF Leave, TypeOK
    <2>5. MutexOK'
      BY <1>9, <1>T, <2>1, <2>2 DEF Leave, BaseInv, MutexOK
    <2>6. UserOK'
      BY <1>9, <1>T, <2>1, <2>2 DEF Leave, BaseInv, MutexOK, UserOK, In
    <2>7. WaitOK'
      BY <1>9, <1>T, <2>1, <2>2 DEF Leave, BaseInv, WaitOK, In
    <2>. QED
      BY <2>3, <2>4, <2>5, <2>6, <2>7 DEF BaseInv
  <1>10. ASSUME NEW t \in CondThreads, ReleaseThread(t)
        PROVE  BaseInv'
    <2>1. at[t] = "held" /\ Moves(t, "idle") /\ c_waiting' = c_waiting
      BY <1>10 DEF ReleaseThread, Moves
    <2>2. /\ at' \in [CondThreads -> Places] /\ at'[t] = "idle"
          /\ \A u \in CondThreads : u # t => at'[u] = at[u]
      BY <1>T, <2>1, MoveStep DEF Places, Wakers
    <2>3. CountOK' /\ c_waiting' \in Nat
      BY <1>T, <2>1, CountStep DEF Waiting, Places, Wakers
    <2>4. TypeOK'
      <3>1. asleep' \subseteq asleep
        BY <1>10 DEF ReleaseThread, Notify
      <3>2. owed' \subseteq CondThreads
        BY <1>10, <1>T DEF ReleaseThread, TypeOK
      <3>3. /\ build' = build /\ timed' = timed /\ count_seen' = count_seen
            /\ c_signaled' \in Int
            /\ mutex' \in CondThreads \cup {"nobody"}
        BY <1>10, <1>T DEF ReleaseThread, TypeOK
      <3>4. active' \in BOOLEAN
        BY <1>10, <1>T DEF ReleaseThread, TypeOK
      <3>. QED
        BY <1>T, <2>2, <2>3, <3>1, <3>2, <3>3, <3>4 DEF TypeOK
    <2>5. MutexOK'
      BY <1>10, <1>T, <2>1, <2>2 DEF ReleaseThread, BaseInv, MutexOK
    <2>6. UserOK'
      BY <1>10, <1>T, <2>1, <2>2 DEF ReleaseThread, BaseInv, MutexOK, UserOK, In
    <2>7. WaitOK'
      <3>1. asleep' = {}
        BY <1>10, NotifyWakesAll DEF ReleaseThread
      <3>. QED
        BY <1>10, <1>T, <2>1, <2>2, <3>1 DEF ReleaseThread, BaseInv, WaitOK, In
    <2>. QED
      BY <2>3, <2>4, <2>5, <2>6, <2>7 DEF BaseInv
  <1>11. ASSUME NEW t \in CondThreads, LetGo(t)
        PROVE  BaseInv'
    <2>1. at[t] = "held" /\ Moves(t, "using") /\ c_waiting' = c_waiting
      BY <1>11 DEF LetGo, Moves
    <2>2. /\ at' \in [CondThreads -> Places] /\ at'[t] = "using"
          /\ \A u \in CondThreads : u # t => at'[u] = at[u]
      BY <1>T, <2>1, MoveStep DEF Places, Wakers
    <2>3. CountOK' /\ c_waiting' \in Nat
      BY <1>T, <2>1, CountStep DEF Waiting, Places, Wakers
    <2>4. TypeOK'
      BY <1>11, <1>T, <2>2, <2>3 DEF LetGo, TypeOK
    <2>5. MutexOK'
      BY <1>11, <1>T, <2>1, <2>2 DEF LetGo, BaseInv, MutexOK
    <2>6. UserOK'
      BY <1>11, <1>T, <2>1, <2>2 DEF LetGo, BaseInv, MutexOK, UserOK, In
    <2>7. WaitOK'
      BY <1>11, <1>T, <2>1, <2>2 DEF LetGo, BaseInv, WaitOK, In
    <2>. QED
      BY <2>3, <2>4, <2>5, <2>6, <2>7 DEF BaseInv
  <1>12. ASSUME NEW t \in CondThreads, Relock(t)
        PROVE  BaseInv'
    <2>1. at[t] = "using" /\ Moves(t, "held") /\ c_waiting' = c_waiting
      BY <1>12 DEF Relock, Locks, Moves
    <2>2. /\ at' \in [CondThreads -> Places] /\ at'[t] = "held"
          /\ \A u \in CondThreads : u # t => at'[u] = at[u]
      BY <1>T, <2>1, MoveStep DEF Places, Wakers
    <2>3. CountOK' /\ c_waiting' \in Nat
      BY <1>T, <2>1, CountStep DEF Waiting, Places, Wakers
    <2>4. TypeOK'
      BY <1>12, <1>T, <2>2, <2>3 DEF Relock, Locks, TypeOK
    <2>5. MutexOK'
      BY <1>12, <1>T, <2>1, <2>2 DEF Relock, Locks, BaseInv, MutexOK
    <2>6. UserOK'
      BY <1>12, <1>T, <2>1, <2>2 DEF Relock, Locks, BaseInv, MutexOK, UserOK, In
    <2>7. WaitOK'
      BY <1>12, <1>T, <2>1, <2>2 DEF Relock, Locks, BaseInv, WaitOK, In
    <2>. QED
      BY <2>3, <2>4, <2>5, <2>6, <2>7 DEF BaseInv
  <1>13. ASSUME NEW t \in CondThreads, WakeupFlag(t)
        PROVE  BaseInv'
    <2>1. at[t] = "using" /\ Moves(t, "wakeup") /\ c_waiting' = c_waiting
      BY <1>13 DEF WakeupFlag, Moves
    <2>2. /\ at' \in [CondThreads -> Places] /\ at'[t] = "wakeup"
          /\ \A u \in CondThreads : u # t => at'[u] = at[u]
      BY <1>T, <2>1, MoveStep DEF Places, Wakers
    <2>3. CountOK' /\ c_waiting' \in Nat
      BY <1>T, <2>1, CountStep DEF Waiting, Places, Wakers
    <2>4. TypeOK'
      BY <1>13, <1>T, <2>2, <2>3 DEF WakeupFlag, TypeOK
    <2>5. MutexOK'
      BY <1>13, <1>T, <2>1, <2>2 DEF WakeupFlag, BaseInv, MutexOK
    <2>6. UserOK'
      BY <1>13, <1>T, <2>1, <2>2 DEF WakeupFlag, BaseInv, MutexOK, UserOK, In
    <2>7. WaitOK'
      BY <1>13, <1>T, <2>1, <2>2 DEF WakeupFlag, BaseInv, WaitOK, In
    <2>. QED
      BY <2>3, <2>4, <2>5, <2>6, <2>7 DEF BaseInv
  <1>14. ASSUME NEW t \in CondThreads, WakeupRead(t)
        PROVE  BaseInv'
    <2>1. at[t] = "wakeup" /\ Moves(t, "store") /\ c_waiting' = c_waiting
      BY <1>14 DEF WakeupRead, Moves
    <2>2. /\ at' \in [CondThreads -> Places] /\ at'[t] = "store"
          /\ \A u \in CondThreads : u # t => at'[u] = at[u]
      BY <1>T, <2>1, MoveStep DEF Places, Wakers
    <2>3. CountOK' /\ c_waiting' \in Nat
      BY <1>T, <2>1, CountStep DEF Waiting, Places, Wakers
    <2>4. TypeOK'
      BY <1>14, <1>T, <2>2, <2>3 DEF WakeupRead, TypeOK
    <2>5. MutexOK'
      BY <1>14, <1>T, <2>1, <2>2 DEF WakeupRead, BaseInv, MutexOK
    <2>6. UserOK'
      BY <1>14, <1>T, <2>1, <2>2 DEF WakeupRead, BaseInv, MutexOK, UserOK, In
    <2>7. WaitOK'
      BY <1>14, <1>T, <2>1, <2>2 DEF WakeupRead, BaseInv, WaitOK, In
    <2>. QED
      BY <2>3, <2>4, <2>5, <2>6, <2>7 DEF BaseInv
  <1>18. ASSUME NEW t \in CondThreads, WakeupStore(t)
        PROVE  BaseInv'
    <2>1. at[t] = "store" /\ Moves(t, "look") /\ c_waiting' = c_waiting
      BY <1>18 DEF WakeupStore, Moves
    <2>2. /\ at' \in [CondThreads -> Places] /\ at'[t] = "look"
          /\ \A u \in CondThreads : u # t => at'[u] = at[u]
      BY <1>T, <2>1, MoveStep DEF Places, Wakers
    <2>3. CountOK' /\ c_waiting' \in Nat
      BY <1>T, <2>1, CountStep DEF Waiting, Places, Wakers
    <2>4. TypeOK'
      BY <1>18, <1>T, <2>2, <2>3 DEF WakeupStore, TypeOK
    <2>5. MutexOK'
      BY <1>18, <1>T, <2>1, <2>2 DEF WakeupStore, BaseInv, MutexOK
    <2>6. UserOK'
      BY <1>18, <1>T, <2>1, <2>2 DEF WakeupStore, BaseInv, MutexOK, UserOK, In
    <2>7. WaitOK'
      BY <1>18, <1>T, <2>1, <2>2 DEF WakeupStore, BaseInv, WaitOK, In
    <2>. QED
      BY <2>3, <2>4, <2>5, <2>6, <2>7 DEF BaseInv
  <1>19. ASSUME NEW t \in CondThreads, WakeupLook(t)
        PROVE  BaseInv'
    <2>1. at[t] = "look" /\ Moves(t, "notify") /\ c_waiting' = c_waiting
      BY <1>19 DEF WakeupLook, Moves
    <2>2. /\ at' \in [CondThreads -> Places] /\ at'[t] = "notify"
          /\ \A u \in CondThreads : u # t => at'[u] = at[u]
      BY <1>T, <2>1, MoveStep DEF Places, Wakers
    <2>3. CountOK' /\ c_waiting' \in Nat
      BY <1>T, <2>1, CountStep DEF Waiting, Places, Wakers
    <2>4. TypeOK'
      BY <1>19, <1>T, <2>2, <2>3 DEF WakeupLook, TypeOK
    <2>5. MutexOK'
      BY <1>19, <1>T, <2>1, <2>2 DEF WakeupLook, BaseInv, MutexOK
    <2>6. UserOK'
      BY <1>19, <1>T, <2>1, <2>2 DEF WakeupLook, BaseInv, MutexOK, UserOK, In
    <2>7. WaitOK'
      BY <1>19, <1>T, <2>1, <2>2 DEF WakeupLook, BaseInv, WaitOK, In
    <2>. QED
      BY <2>3, <2>4, <2>5, <2>6, <2>7 DEF BaseInv
  <1>15. ASSUME NEW t \in CondThreads, WakeupNotify(t)
        PROVE  BaseInv'
    <2>1. at[t] = "notify" /\ Moves(t, "idle") /\ c_waiting' = c_waiting
      BY <1>15 DEF WakeupNotify, Moves
    <2>2. /\ at' \in [CondThreads -> Places] /\ at'[t] = "idle"
          /\ \A u \in CondThreads : u # t => at'[u] = at[u]
      BY <1>T, <2>1, MoveStep DEF Places, Wakers
    <2>3. CountOK' /\ c_waiting' \in Nat
      BY <1>T, <2>1, CountStep DEF Waiting, Places, Wakers
    <2>8. asleep' \subseteq asleep
      BY <1>15 DEF WakeupNotify, Notify
    <2>4. TypeOK'
      BY <1>15, <1>T, <2>2, <2>3, <2>8 DEF WakeupNotify, TypeOK
    <2>5. MutexOK'
      BY <1>15, <1>T, <2>1, <2>2 DEF WakeupNotify, BaseInv, MutexOK
    <2>6. UserOK'
      BY <1>15, <1>T, <2>1, <2>2 DEF WakeupNotify, BaseInv, MutexOK, UserOK, In
    <2>7. WaitOK'
      BY <1>15, <1>T, <2>1, <2>2, <2>8 DEF WakeupNotify, BaseInv, WaitOK, In
    <2>. QED
      BY <2>3, <2>4, <2>5, <2>6, <2>7 DEF BaseInv
  <1>16. CASE UNCHANGED condVars
    BY <1>16 DEF condVars, BaseInv, TypeOK, MutexOK, UserOK, CountOK,
                 WaitersAreCounted, Waiting, WaitOK, In
  <1>. QED
    BY <1>1, <1>2, <1>3, <1>4, <1>5, <1>6, <1>7, <1>8, <1>9, <1>10, <1>11, <1>12,
       <1>13, <1>14, <1>15, <1>16, <1>17, <1>18, <1>19 DEF CondNext

-----------------------------------------------------------------------------
\* A set inside the wait is finite, and without one of its members it is one
\* smaller.
LEMMA OwedSize ==
    ASSUME BaseInv, NEW S, S \subseteq Waiting
    PROVE  /\ IsFiniteSet(S) /\ Cardinality(S) \in Nat
           /\ Cardinality(S) <= c_waiting
           /\ S = Waiting => Cardinality(S) = c_waiting
           /\ \A t \in S : Cardinality(S \ {t}) = Cardinality(S) - 1
           /\ \A t : t \notin S => S \ {t} = S
  <1>1. IsFiniteSet(Waiting) /\ c_waiting = Cardinality(Waiting)
    BY DEF BaseInv, CountOK, WaitersAreCounted
  <1>2. IsFiniteSet(S) /\ Cardinality(S) \in Nat /\ Cardinality(S) <= c_waiting
    BY <1>1, FS_Subset, FS_CardinalityType
  <1>3. \A t \in S : Cardinality(S \ {t}) = Cardinality(S) - 1
    BY <1>2, FS_RemoveElement
  <1>. QED
    BY <1>1, <1>2, <1>3

\* Nobody else is inside the wait with the mutex.
LEMMA MutexExcludes ==
    ASSUME BaseInv, NEW t \in CondThreads,
           mutex = t \/ mutex = "nobody"
    PROVE  \A u \in CondThreads :
              u # t => at[u] \notin {"check", "held", "enter", "counted", "leave"}
  BY ConditionAssumption DEF BaseInv, MutexOK

\* The signals of a broadcast last as long as those it is for.
LEMMA NextPoll ==
    ASSUME BaseInv, PollOK, ~build.sleeps,
           [CondNext]_condVars
    PROVE  PollOK'
  <1>T. /\ TypeOK /\ at \in [CondThreads -> Places] /\ c_waiting \in Nat
        /\ c_signaled \in Int /\ "nobody" \notin CondThreads
        /\ owed \subseteq In({"wait", "leave"})
    BY ConditionAssumption DEF BaseInv, TypeOK, WaitOK
  <1>P. /\ ~build.timed /\ ~build.wakeup /\ timed = {}
        /\ In(Wakers) = {}
        /\ owed = {} \/ owed = In({"wait", "leave"})
        /\ Cardinality(owed) <= c_signaled
        /\ In({"leave"}) # {} => c_signaled >= 1
    BY DEF PollOK
  <1>O. /\ IsFiniteSet(owed) /\ Cardinality(owed) \in Nat
        /\ \A t \in owed : Cardinality(owed \ {t}) = Cardinality(owed) - 1
        /\ \A t : t \notin owed => owed \ {t} = owed
    <2>1. owed \subseteq Waiting
      BY <1>T DEF In, Waiting
    <2>. QED
      BY <2>1, OwedSize
  <1>1. ASSUME NEW t \in CondThreads, NEW from, NEW place \in Places,
               at[t] = from, Moves(t, place),
               \/ {from, place} \cap ({"wait", "leave"} \cup Wakers) = {}
               \/ from = "wait" /\ place = "leave" /\ c_signaled # 0
               \/ from = "counted" /\ place = "wait" /\ c_signaled = 0,
               UNCHANGED <<build, c_signaled, timed, owed>>
        PROVE  PollOK'
    <2>1. /\ at' \in [CondThreads -> Places] /\ at'[t] = place
          /\ \A u \in CondThreads : u # t => at'[u] = at[u]
      BY <1>T, <1>1, MoveStep
    <2>2. CASE {from, place} \cap ({"wait", "leave"} \cup Wakers) = {}
      <3>1. /\ In({"wait", "leave"})' = In({"wait", "leave"})
            /\ In({"leave"})' = In({"leave"})
            /\ In(Wakers)' = In(Wakers)
        BY <1>1, <2>1, <2>2 DEF In
      <3>. QED
        BY <1>1, <1>P, <3>1 DEF PollOK
    <2>3. CASE from = "wait" /\ place = "leave" /\ c_signaled # 0
      <3>1. /\ In({"wait", "leave"})' = In({"wait", "leave"})
            /\ In(Wakers)' = In(Wakers)
        BY <1>1, <2>1, <2>3 DEF In, Wakers
      <3>2. c_signaled >= 1
        BY <1>T, <1>P, <1>O, <2>3
      <3>. QED
        BY <1>1, <1>P, <3>1, <3>2 DEF PollOK
    <2>4. CASE from = "counted" /\ place = "wait" /\ c_signaled = 0
      <3>1. Cardinality(owed) = 0
        BY <1>P, <1>O, <2>4
      <3>2. owed = {}
        BY <1>O, <3>1, FS_EmptySet
      <3>3. /\ In({"leave"})' = In({"leave"})
            /\ In(Wakers)' = In(Wakers)
        BY <1>1, <2>1, <2>4 DEF In, Wakers
      <3>. QED
        BY <1>1, <1>P, <3>2, <3>3 DEF PollOK
    <2>. QED
      BY <1>1, <2>2, <2>3, <2>4
  <1>2. ASSUME NEW t \in CondThreads,
               \/ Acquire(t) \/ AcquireTimed(t) \/ Take(t)
               \/ MustWait(t) \/ EnterWait(t) \/ Sleep(t) \/ Poll(t) \/ PollAgain(t) \/ Wake(t)
               \/ LetGo(t) \/ Relock(t)
        PROVE  PollOK'
    <2>1. ASSUME Acquire(t) \/ AcquireTimed(t)
          PROVE  PollOK'
      BY <1>1, <1>P, <2>1 DEF Acquire, AcquireTimed, Locks, Moves, Places, Wakers
    <2>2. ASSUME Take(t)
          PROVE  PollOK'
      <3>1. /\ at[t] = "check" /\ Moves(t, "held")
            /\ UNCHANGED <<build, c_signaled, timed, owed>>
        BY <1>P, <2>2 DEF Take, Moves
      <3>2. "held" \in Places /\ {"check", "held"} \cap ({"wait", "leave"} \cup Wakers) = {}
        BY DEF Places, Wakers
      <3>. QED
        BY <1>1, <3>1, <3>2
    <2>3. ASSUME MustWait(t) \/ EnterWait(t) \/ LetGo(t)
          PROVE  PollOK'
      BY <1>1, <2>3 DEF MustWait, EnterWait, LetGo, Moves, Places, Wakers
    <2>4. ASSUME PollAgain(t) \/ Relock(t)
          PROVE  PollOK'
      BY <1>1, <2>4 DEF PollAgain, Relock, Locks, Moves, Places, Wakers
    <2>5. ASSUME Wake(t)
          PROVE  PollOK'
      BY <1>1, <1>P, <2>5 DEF Wake, Locks, Moves, Places, Wakers
    <2>6. ASSUME Poll(t)
          PROVE  PollOK'
      BY <1>1, <1>P, <2>6 DEF Poll, Moves, Places, Wakers
    <2>. QED
      BY <1>2, <2>1, <2>2, <2>3, <2>4, <2>5, <2>6 DEF Sleep
  <1>3. ASSUME NEW t \in CondThreads, Leave(t)
        PROVE  PollOK'
    <2>1. /\ at[t] = "leave" /\ Moves(t, "check") /\ c_signaled' = c_signaled - 1
          /\ owed' = owed \ {t} /\ timed' = {} /\ UNCHANGED build
      BY <1>3, <1>P DEF Leave, Moves
    <2>2. /\ at' \in [CondThreads -> Places] /\ at'[t] = "check"
          /\ \A u \in CondThreads : u # t => at'[u] = at[u]
      BY <1>T, <2>1, MoveStep DEF Places, Wakers
    <2>3. /\ In({"wait", "leave"})' = In({"wait", "leave"}) \ {t}
          /\ In(Wakers)' = {}
          /\ t \in In({"wait", "leave"}) /\ t \in In({"leave"})
      BY <1>P, <2>1, <2>2 DEF In, Wakers
    <2>4. mutex = t
      BY <2>1 DEF BaseInv, MutexOK
    <2>5. In({"leave"})' = {}
      BY <2>2, <2>4, MutexExcludes DEF In
    <2>6. c_signaled >= 1
      BY <1>P, <2>3
    <2>7. Cardinality(owed') <= c_signaled'
      <3>1. CASE t \in owed
        BY <1>T, <1>P, <1>O, <2>1, <3>1
      <3>2. CASE t \notin owed
        <4>1. owed = {}
          BY <1>P, <2>3, <3>2
        <4>. QED
          BY <1>T, <2>1, <2>6, <4>1, FS_EmptySet
      <3>. QED
        BY <3>1, <3>2
    <2>. QED
      BY <1>P, <2>1, <2>3, <2>5, <2>7 DEF PollOK
  <1>4. ASSUME NEW t \in CondThreads, Signal(t)
        PROVE  PollOK'
    <2>1. c_signaled' = c_signaled + 1 /\ UNCHANGED <<build, at, timed, owed>>
      BY <1>4 DEF Signal
    <2>. QED
      BY <1>T, <1>P, <1>O, <2>1 DEF PollOK, In
  <1>5. ASSUME NEW t \in CondThreads, ReleaseThread(t)
        PROVE  PollOK'
    <2>1. /\ at[t] = "held" /\ Moves(t, "idle") /\ c_signaled' = c_waiting
          /\ owed' = owed \cup In({"wait"})
          /\ UNCHANGED <<build, timed, c_waiting>>
      BY <1>5 DEF ReleaseThread, Moves, In
    <2>2. /\ at' \in [CondThreads -> Places] /\ at'[t] = "idle"
          /\ \A u \in CondThreads : u # t => at'[u] = at[u]
      BY <1>T, <2>1, MoveStep DEF Places, Wakers
    <2>3. mutex = t
      BY <2>1 DEF BaseInv, MutexOK
    <2>4. /\ In({"leave"}) = {} /\ In({"counted"}) = {}
      BY <2>1, <2>3, MutexExcludes DEF In
    <2>5. In({"wait", "leave"}) = In({"wait"}) /\ Waiting = In({"wait"})
      BY <2>4 DEF In, Waiting
    <2>6. owed' = In({"wait"})
      BY <1>T, <2>1, <2>5
    <2>7. Cardinality(owed') <= c_signaled'
      BY <2>1, <2>5, <2>6, <1>T, OwedSize
    <2>8. /\ In({"wait", "leave"})' = In({"wait", "leave"})
          /\ In({"leave"})' = {}
          /\ In(Wakers)' = {}
      BY <1>P, <2>1, <2>2, <2>4 DEF In, Wakers
    <2>. QED
      BY <1>P, <2>1, <2>5, <2>6, <2>7, <2>8 DEF PollOK
  <1>6. ASSUME NEW t \in CondThreads, SpuriousOrTimeout(t)
        PROVE  PollOK'
    BY <1>6, <1>P DEF SpuriousOrTimeout, PollOK, In
  <1>7. ASSUME NEW t \in CondThreads,
               \/ WakeupFlag(t) \/ WakeupRead(t) \/ WakeupStore(t)
               \/ WakeupLook(t) \/ WakeupNotify(t)
        PROVE  FALSE
    BY <1>7, <1>P DEF WakeupFlag, WakeupRead, WakeupStore, WakeupLook, WakeupNotify,
                      Wakers, In
  <1>8. CASE UNCHANGED condVars
    BY <1>8, <1>P DEF condVars, PollOK, In
  <1>. QED
    BY <1>2, <1>3, <1>4, <1>5, <1>6, <1>7, <1>8 DEF CondNext

-----------------------------------------------------------------------------
\* The resource does not become free beside a thread that is about to wait for it.
LEMMA NextFree ==
    ASSUME BaseInv, PollOK, FreeOK, ~build.wakeup, [CondNext]_condVars
    PROVE  FreeOK'
  <1>T. /\ TypeOK /\ at \in [CondThreads -> Places] /\ c_waiting \in Nat
        /\ c_signaled \in Int /\ "nobody" \notin CondThreads
    BY ConditionAssumption DEF BaseInv, TypeOK
  <1>F. /\ In(Wakers) = {}
        /\ In({"enter", "counted"}) # {} => active
        /\ ~active => IF build.sleeps THEN asleep = {} ELSE c_waiting <= c_signaled
        /\ ~build.sleeps => timed = {}
    BY DEF FreeOK, NobodyIsStranded, PollOK
  <1>1. ASSUME NEW t \in CondThreads, NEW place \in Places \ Wakers, Moves(t, place),
               place \in {"enter", "counted"} => active, active' = active,
               ~active => UNCHANGED <<asleep, c_waiting, c_signaled>>,
               build' = build
        PROVE  FreeOK'
    <2>1. /\ at' \in [CondThreads -> Places] /\ at'[t] = place
          /\ \A u \in CondThreads : u # t => at'[u] = at[u]
      BY <1>T, <1>1, MoveStep
    <2>2. In(Wakers)' = {}
      BY <1>F, <1>1, <2>1 DEF In
    <2>3. In({"enter", "counted"})' # {} => active'
      BY <1>F, <1>1, <2>1 DEF In
    <2>4. NobodyIsStranded'
      BY <1>F, <1>1 DEF NobodyIsStranded
    <2>. QED
      BY <2>2, <2>3, <2>4 DEF FreeOK
  <1>2. ASSUME NEW t \in CondThreads,
               \/ Acquire(t) \/ AcquireTimed(t) \/ PollAgain(t) \/ Wake(t)
               \/ LetGo(t) \/ Relock(t)
        PROVE  FreeOK'
    BY <1>1, <1>2 DEF Acquire, AcquireTimed, PollAgain, Wake, LetGo, Relock, Locks,
                      Moves, Places, Wakers
  <1>3. ASSUME NEW t \in CondThreads,
               MustWait(t) \/ EnterWait(t) \/ Sleep(t) \/ Poll(t)
        PROVE  FreeOK'
    <2>1. active
      BY <1>F, <1>3 DEF MustWait, EnterWait, Sleep, Poll, In
    <2>2. PICK place \in {"enter", "counted", "wait", "leave", "again"} :
            Moves(t, place)
      BY <1>3 DEF MustWait, EnterWait, Sleep, Poll, Moves
    <2>3. active' = active /\ build' = build
      BY <1>3 DEF MustWait, EnterWait, Sleep, Poll
    <2>4. place \in Places \ Wakers
      BY DEF Places, Wakers
    <2>. QED
      BY <1>1, <2>1, <2>2, <2>3, <2>4
  <1>4. ASSUME NEW t \in CondThreads, Take(t)
        PROVE  FreeOK'
    <2>1. Moves(t, "held") /\ active'
      BY <1>4 DEF Take, Moves
    <2>2. /\ at' \in [CondThreads -> Places] /\ at'[t] = "held"
          /\ \A u \in CondThreads : u # t => at'[u] = at[u]
      BY <1>T, <2>1, MoveStep DEF Places, Wakers
    <2>3. In(Wakers)' = {}
      BY <1>F, <2>2 DEF In, Wakers
    <2>. QED
      BY <2>1, <2>3 DEF FreeOK, NobodyIsStranded
  <1>5. ASSUME NEW t \in CondThreads, Leave(t)
        PROVE  FreeOK'
    <2>1. PICK place \in {"idle", "check"} : Moves(t, place)
      BY <1>5 DEF Leave, Moves
    <2>2. /\ at' \in [CondThreads -> Places] /\ at'[t] = place
          /\ \A u \in CondThreads : u # t => at'[u] = at[u]
      BY <1>T, <2>1, MoveStep DEF Places, Wakers
    <2>3. In(Wakers)' = {} /\ (In({"enter", "counted"})' # {} => active')
      BY <1>F, <1>5, <2>2 DEF Leave, In, Wakers
    <2>4. CASE build.sleeps
      BY <1>F, <1>5, <2>3, <2>4 DEF Leave, FreeOK, NobodyIsStranded
    <2>5. CASE ~build.sleeps
      <3>1. c_signaled' = c_signaled - 1 /\ c_waiting' = c_waiting - 1
        BY <1>F, <1>5, <2>5 DEF Leave
      <3>2. active' = active /\ build' = build
        BY <1>5 DEF Leave
      <3>3. ~active' => c_waiting' <= c_signaled'
        BY <1>T, <1>F, <2>5, <3>1, <3>2
      <3>. QED
        BY <2>3, <2>5, <3>2, <3>3 DEF FreeOK, NobodyIsStranded
    <2>. QED
      BY <2>4, <2>5
  <1>6. ASSUME NEW t \in CondThreads, SpuriousOrTimeout(t) \/ Signal(t)
        PROVE  FreeOK'
    <2>1. /\ UNCHANGED <<build, active, c_waiting, at>> /\ asleep' \subseteq asleep
          /\ c_signaled' = c_signaled \/ c_signaled' = c_signaled + 1
      BY <1>6 DEF SpuriousOrTimeout, Signal
    <2>2. In(Wakers)' = {} /\ (In({"enter", "counted"})' # {} => active')
      BY <1>F, <2>1 DEF In
    <2>3. ~active => IF build.sleeps THEN asleep' = {} ELSE c_waiting <= c_signaled'
      BY <1>T, <1>F, <2>1
    <2>. QED
      BY <2>1, <2>2, <2>3 DEF FreeOK, NobodyIsStranded
  <1>7. ASSUME NEW t \in CondThreads, ReleaseThread(t)
        PROVE  FreeOK'
    <2>1. at[t] = "held" /\ Moves(t, "idle")
      BY <1>7 DEF ReleaseThread, Moves
    <2>2. /\ at' \in [CondThreads -> Places] /\ at'[t] = "idle"
          /\ \A u \in CondThreads : u # t => at'[u] = at[u]
      BY <1>T, <2>1, MoveStep DEF Places, Wakers
    <2>3. mutex = t
      BY <2>1 DEF BaseInv, MutexOK
    <2>4. In({"enter", "counted"})' = {} /\ In(Wakers)' = {}
      BY <1>F, <2>2, <2>3, MutexExcludes DEF In, Wakers
    <2>5. asleep' = {}
      BY <1>7, NotifyWakesAll DEF ReleaseThread
    <2>6. c_waiting' <= c_signaled'
      <3>1. c_waiting' = c_waiting /\ c_signaled' = c_waiting
        BY <1>7 DEF ReleaseThread
      <3>. QED
        BY <1>T, <3>1
    <2>. QED
      BY <2>4, <2>5, <2>6 DEF FreeOK, NobodyIsStranded
  <1>8. ASSUME NEW t \in CondThreads,
               \/ WakeupFlag(t) \/ WakeupRead(t) \/ WakeupStore(t)
               \/ WakeupLook(t) \/ WakeupNotify(t)
        PROVE  FALSE
    BY <1>8, <1>F DEF WakeupFlag, WakeupRead, WakeupStore, WakeupLook, WakeupNotify,
                      Wakers, In
  <1>9. CASE UNCHANGED condVars
    BY <1>9 DEF condVars, FreeOK, NobodyIsStranded, In
  <1>. QED
    BY <1>2, <1>3, <1>4, <1>5, <1>6, <1>7, <1>8, <1>9 DEF CondNext

-----------------------------------------------------------------------------
\* Nobody waits and nobody has anything at first.
LEMMA InitBase ==
    ASSUME CondInit
    PROVE  BaseInv
  <1>1. Waiting = {} /\ \A p : "idle" \notin p => In(p) = {}
    BY DEF CondInit, Waiting, In
  <1>2. CountOK
    BY <1>1, FS_EmptySet DEF CountOK, WaitersAreCounted, CondInit
  <1>3. at \in [CondThreads -> Places] /\ \A t \in CondThreads : at[t] = "idle"
    BY DEF CondInit, Places, Wakers
  <1>7. active \in BOOLEAN
    BY DEF CondInit
  <1>5. TypeOK
    <2>1. /\ build \in Builds /\ mutex \in CondThreads \cup {"nobody"}
          /\ c_waiting \in Nat /\ c_signaled \in Int
          /\ asleep = {} /\ timed = {} /\ owed = {}
      BY DEF CondInit
    <2>2. count_seen \in [CondThreads -> Nat]
      BY DEF CondInit
    <2>. QED
      BY <1>3, <1>7, <2>1, <2>2 DEF TypeOK
  <1>6. MutexOK
    BY <1>3, ConditionAssumption DEF CondInit, MutexOK
  <1>4. UserOK /\ WaitOK
    BY <1>1 DEF CondInit, UserOK, WaitOK
  <1>. QED
    BY <1>2, <1>4, <1>5, <1>6 DEF BaseInv

LEMMA Invariance ==
    CondSpec => []BaseInv
  BY InitBase, NextBase, PTL DEF CondSpec

\* c_waiting is the number of threads inside the wait, in every build: a thread
\* that goes to sleep, polls again, times out or wakes for no reason is counted
\* as long as it is inside, and no longer.
THEOREM WaitersCounted ==
    CondSpec => []WaitersAreCounted
  <1>1. BaseInv => WaitersAreCounted
    BY DEF BaseInv, CountOK
  <1>. QED
    BY <1>1, Invariance, PTL

\* OCOMS_ACQUIRE_THREAD lets one thread have the resource, in every build, even
\* though OCOMS_WAKEUP_THREAD clears the flag without the mutex.
THEOREM ResourceExclusive ==
    CondSpec => []ResourceIsExclusive
  <1>1. BaseInv => ResourceIsExclusive
    <2> SUFFICES ASSUME BaseInv
                 PROVE  ResourceIsExclusive
      OBVIOUS
    <2> DEFINE users == {t \in CondThreads : at[t] \in {"held", "using"}}
    <2>1. \A t, u \in users : t = u
      BY DEF BaseInv, UserOK, In
    <2>2. active <=> users # {}
      BY DEF BaseInv, UserOK, In
    <2>3. CASE users = {}
      BY <2>2, <2>3, FS_EmptySet DEF ResourceIsExclusive
    <2>4. CASE users # {}
      <3>1. PICK t : users = {t}
        BY <2>1, <2>4
      <3>. QED
        BY <2>2, <3>1, FS_Singleton DEF ResourceIsExclusive
    <2>. QED
      BY <2>3, <2>4
  <1>. QED
    BY <1>1, Invariance, PTL

\* No broadcast under the mutex misses a waiter, for any number of threads: who
\* waits when OCOMS_RELEASE_THREAD is called leaves the wait, in a build that sleeps
\* even if other threads call OCOMS_WAKEUP_THREAD, and unless some do, nobody is left
\* waiting for a free resource.  A program that polls must not wait for a time or call
\* OCOMS_WAKEUP_THREAD.
THEOREM BroadcastCorrect ==
    ASSUME KeepsSignals
    PROVE  CondSpec => []BroadcastReachesAll
  <1>1. CondInit => PollOK /\ FreeOK
    <2> SUFFICES ASSUME CondInit
                 PROVE  PollOK /\ FreeOK
      OBVIOUS
    <2>1. \A p : "idle" \notin p => In(p) = {}
      BY DEF CondInit, In
    <2>2. PollOK
      BY <2>1, FS_EmptySet, ConditionAssumption
         DEF CondInit, PollOK, KeepsSignals, Wakers
    <2>3. FreeOK
      BY <2>1 DEF CondInit, FreeOK, NobodyIsStranded, Wakers
    <2>. QED
      BY <2>2, <2>3
  <1>2. BaseInv /\ PollOK /\ FreeOK /\ [CondNext]_condVars => PollOK' /\ FreeOK'
    <2> SUFFICES ASSUME BaseInv, PollOK, FreeOK, [CondNext]_condVars
                 PROVE  PollOK' /\ FreeOK'
      OBVIOUS
    <2>1. build' = build
      BY DEF CondNext, condVars, Acquire, AcquireTimed, Take, MustWait, EnterWait,
         Sleep, Poll, PollAgain, SpuriousOrTimeout, Wake, Leave, Signal,
         ReleaseThread, LetGo, Relock, WakeupFlag, WakeupRead, WakeupStore,
         WakeupLook, WakeupNotify
    <2>2. PollOK'
      <3>1. CASE ~build.sleeps
        BY <3>1, NextPoll
      <3>2. CASE build.sleeps
        BY <2>1, <3>2 DEF PollOK
      <3>. QED
        BY <3>1, <3>2
    <2>3. FreeOK'
      <3>1. CASE ~build.wakeup
        BY <3>1, NextFree
      <3>2. CASE build.wakeup
        BY <2>1, <3>2 DEF FreeOK
      <3>. QED
        BY <3>1, <3>2
    <2>. QED
      BY <2>2, <2>3
  <1>3. BaseInv /\ PollOK => ReleaseReachesAll
    BY DEF BaseInv, WaitOK, PollOK, ReleaseReachesAll
  <1>4. FreeOK => NobodyIsStranded
    BY DEF FreeOK, NobodyIsStranded
  <1>5. CondSpec => [](ReleaseReachesAll /\ NobodyIsStranded)
    BY <1>1, <1>2, <1>3, <1>4, Invariance, PTL DEF CondSpec
  <1>6. /\ WaitersAreCounted /\ ResourceIsExclusive
        /\ ReleaseReachesAll /\ NobodyIsStranded
        => BroadcastReachesAll
    BY DEF BroadcastReachesAll
  <1>. QED
    BY <1>5, <1>6, WaitersCounted, ResourceExclusive, PTL

(***************************************************************************)
(* The object and class system                                             *)
(***************************************************************************)
Inits == {"init_check", "init_lock", "init_recheck", "init_store", "init_unlock",
          "construct"}
Locked == {"init_recheck", "init_store", "init_unlock"}
ObjectLabels == Inits \cup {"idle", "destruct"}

Shape ==
    /\ cls_initialized \in [Classes -> {0, 1}]
    /\ DOMAIN cls_construct_array = Classes
    /\ object_pc \in [ObjectThreads -> ObjectLabels]
    /\ cls \in [ObjectThreads -> Classes \cup {NoClass}]
    /\ object \in [ObjectThreads -> Objects \cup {0}]
    /\ DOMAIN todo = ObjectThreads
    /\ class_lock \in ObjectThreads \cup {Nobody}
    /\ classes \in Seq(Classes) /\ max_classes \in Nat

Filled(c) == cls_construct_array[c] = Constructors(c)

\* c is initialized, but not saved yet.
Saving(c) == \E t \in ObjectThreads : object_pc[t] = "init_store" /\ cls[t] = c

Calls ==
    \A t \in ObjectThreads :
       /\ object_pc[t] \in Inits => cls[t] \in Classes /\ ~finalized
       /\ object_pc[t] \in Locked <=> class_lock = t
       /\ object_pc[t] \in {"construct", "init_unlock"} => cls_initialized[cls[t]] = 1
       /\ object_pc[t] = "init_store" =>
             /\ "publish" \in todo[t] <=> cls_initialized[cls[t]] = 0
             /\ "fill" \in todo[t] => "publish" \in todo[t]
             /\ "fill" \notin todo[t] => Filled(cls[t])
             /\ todo[t] \subseteq {"fill", "publish"}

Descriptors ==
    ~finalized =>
       \A c \in Classes : cls_initialized[c] = 1 => Filled(c)

Saved ==
    /\ \A j, k \in 1..Len(classes) : classes[j] = classes[k] => j = k
    /\ Len(classes) <= max_classes
    /\ ~finalized =>
          \A c \in Classes :
             c \in ToSet(classes) <=> cls_initialized[c] = 1 /\ ~Saving(c)

InitInv == Shape /\ Calls /\ Descriptors /\ Saved

-----------------------------------------------------------------------------
\* What save_class adds to the array of classes.
LEMMA ToSetAppend ==
    ASSUME NEW S, NEW s \in Seq(S), NEW x \in S
    PROVE  /\ ToSet(Append(s, x)) = ToSet(s) \cup {x}
           /\ x \notin ToSet(s) /\ (\A j, k \in 1..Len(s) : s[j] = s[k] => j = k)
              => \A j, k \in 1..Len(Append(s, x)) :
                    Append(s, x)[j] = Append(s, x)[k] => j = k
  <1>1. /\ Len(Append(s, x)) = Len(s) + 1 /\ Len(s) \in Nat
        /\ DOMAIN Append(s, x) = 1..(Len(s) + 1) /\ DOMAIN s = 1..Len(s)
        /\ \A j \in 1..Len(s) : Append(s, x)[j] = s[j] /\ Append(s, x)[Len(s) + 1] = x
        /\ Append(s, x)[Len(s) + 1] = x
    OBVIOUS
  <1>2. \A j \in 1..(Len(s) + 1) : j \in 1..Len(s) \/ j = Len(s) + 1
    BY <1>1
  <1>3. ToSet(Append(s, x)) = ToSet(s) \cup {x}
    BY <1>1, <1>2 DEF ToSet
  <1>4. ASSUME x \notin ToSet(s), \A j, k \in 1..Len(s) : s[j] = s[k] => j = k,
               NEW j \in 1..(Len(s) + 1), NEW k \in 1..(Len(s) + 1),
               Append(s, x)[j] = Append(s, x)[k]
        PROVE  j = k
    BY <1>1, <1>2, <1>4 DEF ToSet
  <1>. QED
    BY <1>1, <1>3, <1>4

\* A thread that goes on to another label.
LEMMA GotoStep ==
    ASSUME object_pc \in [ObjectThreads -> ObjectLabels],
           NEW t \in ObjectThreads, NEW l, NEW m \in ObjectLabels,
           ObjectGoto(t, l, m)
    PROVE  /\ object_pc' \in [ObjectThreads -> ObjectLabels]
           /\ object_pc[t] = l /\ object_pc'[t] = m
           /\ \A s \in ObjectThreads : s # t => object_pc'[s] = object_pc[s]
  BY DEF ObjectGoto

\* A step of a thread that is not in ocoms_class_initialize with the lock, and
\* does not get it, keeps that part of the invariant.
LEMMA UnlockedStep ==
    ASSUME InitInv, NEW t \in ObjectThreads, NEW m \in ObjectLabels \ Locked,
           object_pc[t] \notin Locked, ObjectGoto(t, object_pc[t], m),
           m \in Inits => cls'[t] \in Classes /\ ~finalized,
           m = "construct" => cls_initialized[cls'[t]] = 1,
           cls' \in [ObjectThreads -> Classes \cup {NoClass}],
           object' \in [ObjectThreads -> Objects \cup {0}],
           \A s \in ObjectThreads : s # t => cls'[s] = cls[s],
           UNCHANGED <<desc, class_lock, table, todo>>
    PROVE  InitInv'
  <1>1. /\ object_pc' \in [ObjectThreads -> ObjectLabels] /\ object_pc'[t] = m
        /\ \A s \in ObjectThreads : s # t => object_pc'[s] = object_pc[s]
    BY GotoStep DEF InitInv, Shape
  <1>2. Shape'
    BY <1>1 DEF InitInv, Shape, desc, table
  <1>3. Calls'
    BY <1>1 DEF InitInv, Calls, Filled, Locked, Inits, desc, table
  <1>4. \A c \in Classes : Saving(c)' <=> Saving(c)
    BY <1>1 DEF Saving, Locked
  <1>5. Saved' /\ Descriptors'
    BY <1>4 DEF InitInv, Saved, Descriptors, Filled, desc, table
  <1>. QED
    BY <1>2, <1>3, <1>5 DEF InitInv

\* The initialization of the classes, whoever makes an object first.
LEMMA NextInitInv ==
    ASSUME StoreOrder, InitInv, [ObjectNext]_objectVars
    PROVE  InitInv'
  <1>S. /\ object_pc \in [ObjectThreads -> ObjectLabels]
        /\ object \in [ObjectThreads -> Objects \cup {0}]
        /\ cls \in [ObjectThreads -> Classes \cup {NoClass}] /\ DOMAIN todo = ObjectThreads
        /\ cls_initialized \in [Classes -> {0, 1}]
        /\ DOMAIN cls_construct_array = Classes
    BY DEF InitInv, Shape
  <1>N. Nobody \notin ObjectThreads
    BY ObjectAssumption
  <1>1. ASSUME NEW t \in ObjectThreads, NEW o \in Objects, NEW c \in Classes, New(t, o, c)
        PROVE  InitInv'
    <2>1. \E m \in {"init_check", "construct"} :
             /\ ObjectGoto(t, "idle", m) /\ object_pc[t] = "idle"
             /\ m = "construct" => cls_initialized[c] = 1
      BY <1>1, <1>S DEF New, ObjectGoto
    <2>2. /\ cls' \in [ObjectThreads -> Classes \cup {NoClass}] /\ cls'[t] = c
          /\ object' \in [ObjectThreads -> Objects \cup {0}]
          /\ \A s \in ObjectThreads : s # t => cls'[s] = cls[s]
          /\ ~finalized /\ UNCHANGED <<desc, class_lock, table, todo>>
      BY <1>1, <1>S DEF New
    <2>. QED
      BY <2>1, <2>2, UnlockedStep DEF ObjectLabels, Inits, Locked
  <1>2. ASSUME NEW t \in ObjectThreads, InitCheck(t)
        PROVE  InitInv'
    <2>1. \E m \in {"init_lock", "construct"} :
             /\ ObjectGoto(t, "init_check", m) /\ object_pc[t] = "init_check"
             /\ m = "construct" => cls_initialized[cls[t]] = 1
      BY <1>2 DEF InitCheck, ObjectGoto
    <2>2. /\ UNCHANGED <<desc, class_lock, table, todo, cls, object>>
          /\ cls[t] \in Classes /\ ~finalized
      BY <1>2, <2>1 DEF InitCheck, InitInv, Calls, Inits
    <2>. QED
      BY <1>S, <2>1, <2>2, UnlockedStep DEF ObjectLabels, Inits, Locked
  <1>3. ASSUME NEW t \in ObjectThreads,
               \/ Construct(t) \/ Destruct(t)
               \/ \E o \in Objects, s \in ObjectThreads : Retain(t, s, o)
               \/ \E o \in Objects : Release(t, o)
        PROVE  InitInv'
    <2>1. \E l \in {"construct", "destruct", "idle"}, m \in {"idle", "destruct"} :
             ObjectGoto(t, l, m) /\ object_pc[t] = l
      BY <1>3, <1>S DEF Construct, Destruct, Retain, Release, ObjectGoto
    <2>2. /\ UNCHANGED <<desc, class_lock, table, todo, cls>>
          /\ object' \in [ObjectThreads -> Objects \cup {0}]
      BY <1>3, <1>S DEF Construct, Destruct, Retain, Release
    <2>. QED
      BY <1>S, <2>1, <2>2, UnlockedStep DEF ObjectLabels, Inits, Locked
  <1>4. ASSUME NEW t \in ObjectThreads, InitLock(t)
        PROVE  InitInv'
    <2>1. /\ object_pc' \in [ObjectThreads -> ObjectLabels] /\ object_pc[t] = "init_lock"
          /\ object_pc'[t] = "init_recheck"
          /\ \A s \in ObjectThreads : s # t => object_pc'[s] = object_pc[s]
      BY <1>4, <1>S, GotoStep DEF InitLock, ObjectLabels, Inits
    <2>2. class_lock = Nobody /\ class_lock' = t
          /\ UNCHANGED <<desc, table, cls, object, todo>>
      BY <1>4 DEF InitLock
    <2>3. Shape'
      BY <2>1, <2>2 DEF InitInv, Shape, desc, table
    <2>4. Calls'
      BY <1>N, <2>1, <2>2 DEF InitInv, Calls, Filled, Locked, Inits, desc, table
    <2>5. \A c \in Classes : Saving(c)' <=> Saving(c)
      BY <2>1, <2>2 DEF Saving
    <2>6. Saved' /\ Descriptors'
      BY <2>2, <2>5 DEF InitInv, Saved, Descriptors, Filled, desc, table
    <2>. QED
      BY <2>3, <2>4, <2>6 DEF InitInv
  <1>L. ASSUME NEW t \in ObjectThreads, object_pc[t] \in Locked
        PROVE  /\ class_lock = t /\ cls[t] \in Classes /\ ~finalized
               /\ \A s \in ObjectThreads : s # t => object_pc[s] \notin Locked
               /\ \A c \in Classes : Saving(c) <=> object_pc[t] = "init_store" /\ cls[t] = c
    BY <1>L DEF InitInv, Calls, Saving, Locked, Inits
  <1>5. ASSUME NEW t \in ObjectThreads, InitRecheck(t)
        PROVE  InitInv'
    <2>1. PICK m \in {"init_unlock", "init_store"} :
            /\ ObjectGoto(t, "init_recheck", m)
            /\ m = "init_unlock" <=> cls_initialized[cls[t]] = 1
      BY <1>5 DEF InitRecheck
    <2>2. /\ object_pc' \in [ObjectThreads -> ObjectLabels]
          /\ object_pc[t] = "init_recheck" /\ object_pc'[t] = m
          /\ \A s \in ObjectThreads : s # t => object_pc'[s] = object_pc[s]
      BY <2>1, <1>S, GotoStep DEF ObjectLabels, Inits
    <2>3. /\ UNCHANGED <<desc, class_lock, table, cls, object>>
          /\ DOMAIN todo' = ObjectThreads
          /\ m = "init_store" => todo'[t] = {"fill", "publish"}
          /\ \A s \in ObjectThreads : s # t => todo'[s] = todo[s]
      BY <1>5, <1>S, <2>1 DEF InitRecheck
    <2>4. /\ class_lock = t /\ cls[t] \in Classes /\ ~finalized
          /\ \A s \in ObjectThreads : s # t => object_pc[s] \notin Locked
      BY <1>L, <2>2 DEF Locked
    <2>5. Shape'
      BY <2>2, <2>3 DEF InitInv, Shape, desc, table
    <2>6. Calls'
      BY <1>S, <2>1, <2>2, <2>3, <2>4
         DEF InitInv, Calls, Filled, Locked, Inits, desc, table
    <2>7. \A c \in Classes : cls_initialized[c] = 1 => (Saving(c)' <=> Saving(c))
      BY <2>1, <2>2, <2>3, <2>4 DEF Saving, Locked
    <2>8. Saved' /\ Descriptors'
      BY <2>3, <2>7 DEF InitInv, Saved, Descriptors, Filled, desc, table
    <2>. QED
      BY <2>5, <2>6, <2>8 DEF InitInv
  <1>6. ASSUME NEW t \in ObjectThreads, InitFill(t)
        PROVE  InitInv'
    <2>1. /\ object_pc[t] = "init_store" /\ "fill" \in todo[t]
          /\ DOMAIN cls_construct_array' = Classes
          /\ cls_construct_array'[cls[t]] = Constructors(cls[t])
          /\ \A c \in Classes : c # cls[t] =>
                cls_construct_array'[c] = cls_construct_array[c]
          /\ DOMAIN todo' = ObjectThreads /\ todo'[t] = todo[t] \ {"fill"}
          /\ \A s \in ObjectThreads : s # t => todo'[s] = todo[s]
          /\ UNCHANGED <<cls_initialized, class_lock, table, object_pc, cls, object>>
      BY <1>6, <1>S, <1>L DEF InitFill, Locked
    <2>2. /\ cls[t] \in Classes
          /\ \A s \in ObjectThreads : s # t => object_pc[s] \notin Locked
      BY <1>L, <2>1 DEF Locked
    <2>3. \A c \in Classes : Filled(c) => Filled(c)'
      BY <2>1 DEF Filled
    <2>4. Filled(cls[t])'
      BY <2>1 DEF Filled
    <2>5. Shape'
      BY <2>1 DEF InitInv, Shape, table
    <2>6. Calls'
      BY <1>S, <2>1, <2>2, <2>3, <2>4 DEF InitInv, Calls, Locked, Inits, table
    <2>7. Saved' /\ Descriptors'
      BY <2>1, <2>3 DEF InitInv, Saved, Saving, Descriptors, table
    <2>. QED
      BY <2>5, <2>6, <2>7 DEF InitInv
  <1>7. ASSUME NEW t \in ObjectThreads, InitPublish(t)
        PROVE  InitInv'
    <2>1. /\ object_pc[t] = "init_store" /\ "publish" \in todo[t] /\ "fill" \notin todo[t]
          /\ cls_initialized' = [cls_initialized EXCEPT ![cls[t]] = 1]
          /\ DOMAIN todo' = ObjectThreads /\ todo'[t] = todo[t] \ {"publish"}
          /\ \A s \in ObjectThreads : s # t => todo'[s] = todo[s]
          /\ UNCHANGED <<cls_construct_array, class_lock, table, object_pc, cls, object>>
      BY <1>7, <1>S DEF InitPublish
    <2>2. /\ cls[t] \in Classes /\ ~finalized
          /\ \A s \in ObjectThreads : s # t => object_pc[s] \notin Locked
          /\ \A c \in Classes : Saving(c) <=> cls[t] = c
      BY <1>L, <2>1 DEF Locked
    <2>3. /\ cls_initialized' \in [Classes -> {0, 1}]
          /\ cls_initialized'[cls[t]] = 1
          /\ \A c \in Classes : c # cls[t] => cls_initialized'[c] = cls_initialized[c]
      BY <1>S, <2>1, <2>2
    <2>4. Filled(cls[t]) /\ \A c \in Classes : Filled(c) => Filled(c)'
      BY <2>1 DEF InitInv, Calls, Filled
    <2>5. Shape'
      BY <2>1, <2>3 DEF InitInv, Shape, table
    <2>6. Calls'
      BY <1>S, <2>1, <2>2, <2>3, <2>4 DEF InitInv, Calls, Locked, Inits, table
    <2>7. Descriptors'
      BY <2>1, <2>3, <2>4 DEF InitInv, Descriptors, table
    <2>8. Saved'
      BY <2>1, <2>2, <2>3 DEF InitInv, Saved, Saving, table
    <2>. QED
      BY <2>5, <2>6, <2>7, <2>8 DEF InitInv
  <1>8. ASSUME NEW t \in ObjectThreads, SaveClass(t)
        PROVE  InitInv'
    <2>1. /\ object_pc' \in [ObjectThreads -> ObjectLabels] /\ object_pc[t] = "init_store"
          /\ object_pc'[t] = "init_unlock"
          /\ \A s \in ObjectThreads : s # t => object_pc'[s] = object_pc[s]
      BY <1>8, <1>S, GotoStep DEF SaveClass, ObjectLabels, Inits
    <2>2. /\ todo[t] = {} /\ classes' = Append(classes, cls[t])
          /\ max_classes' = IF Len(classes) >= max_classes
                            THEN max_classes + increment ELSE max_classes
          /\ UNCHANGED <<desc, class_lock, finalized, cls, object, todo>>
      BY <1>8 DEF SaveClass
    <2>3. /\ cls[t] \in Classes /\ ~finalized
          /\ \A s \in ObjectThreads : s # t => object_pc[s] \notin Locked
          /\ \A c \in Classes : Saving(c) <=> cls[t] = c
      BY <1>L, <2>1 DEF Locked
    <2>4. \A c \in Classes : ~Saving(c)'
      BY <2>1, <2>2, <2>3 DEF Saving, Locked
    <2>5. cls_initialized[cls[t]] = 1
      BY <1>S, <2>1, <2>2, <2>3 DEF InitInv, Calls
    <2>6. /\ classes \in Seq(Classes) /\ max_classes \in Nat
          /\ Len(classes) <= max_classes /\ Len(classes) \in Nat
          /\ increment \in Nat \ {0}
          /\ Len(classes') = Len(classes) + 1
      BY <2>2, <2>3, ObjectAssumption DEF InitInv, Shape, Saved
    <2>7. Shape'
      BY <2>1, <2>2, <2>3, <2>6 DEF InitInv, Shape, desc
    <2>8. Calls'
      BY <1>S, <2>1, <2>2, <2>3, <2>5 DEF InitInv, Calls, Filled, Locked, Inits, desc
    <2>9. /\ ToSet(classes') = ToSet(classes) \cup {cls[t]}
          /\ \A j, k \in 1..Len(classes') : classes'[j] = classes'[k] => j = k
      BY <2>2, <2>3, <2>5, <2>6, ToSetAppend DEF InitInv, Saved
    <2>10. Len(classes') <= max_classes'
      BY <2>2, <2>6
    <2>11. Saved'
      BY <2>2, <2>3, <2>4, <2>5, <2>9, <2>10 DEF InitInv, Saved, desc
    <2>12. Descriptors'
      BY <2>2 DEF InitInv, Descriptors, Filled, desc
    <2>. QED
      BY <2>7, <2>8, <2>11, <2>12 DEF InitInv
  <1>9. ASSUME NEW t \in ObjectThreads, InitUnlock(t)
        PROVE  InitInv'
    <2>1. /\ object_pc' \in [ObjectThreads -> ObjectLabels] /\ object_pc[t] = "init_unlock"
          /\ object_pc'[t] = "construct"
          /\ \A s \in ObjectThreads : s # t => object_pc'[s] = object_pc[s]
      BY <1>9, <1>S, GotoStep DEF InitUnlock, ObjectLabels, Inits
    <2>2. class_lock' = Nobody /\ UNCHANGED <<desc, table, cls, object, todo>>
      BY <1>9 DEF InitUnlock
    <2>3. /\ \A s \in ObjectThreads : s # t => object_pc[s] \notin Locked
      BY <1>L, <2>1 DEF Locked
    <2>4. Shape'
      BY <2>1, <2>2 DEF InitInv, Shape, desc, table
    <2>5. Calls'
      BY <1>N, <2>1, <2>2, <2>3 DEF InitInv, Calls, Filled, Locked, Inits, desc, table
    <2>6. \A c \in Classes : Saving(c)' <=> Saving(c)
      BY <2>1, <2>2 DEF Saving
    <2>7. Saved' /\ Descriptors'
      BY <2>2, <2>6 DEF InitInv, Saved, Descriptors, Filled, desc, table
    <2>. QED
      BY <2>4, <2>5, <2>7 DEF InitInv
  <1>10. CASE ClassFinalize
    <2>1. /\ finalized' = TRUE /\ classes' = <<>> /\ max_classes' = 0
          /\ DOMAIN cls_construct_array' = Classes
          /\ \A t \in ObjectThreads : object_pc[t] = "idle"
          /\ UNCHANGED <<cls_initialized, class_lock, object_pc, cls, object, todo>>
      BY <1>10 DEF ClassFinalize
    <2>2. Shape'
      BY <2>1 DEF InitInv, Shape
    <2>3. Calls'
      BY <2>1 DEF InitInv, Calls, Locked, Inits
    <2>4. Saved' /\ Descriptors'
      BY <2>1 DEF Saved, Descriptors
    <2>. QED
      BY <2>2, <2>3, <2>4 DEF InitInv
  <1>11. CASE UNCHANGED objectVars
    BY <1>11 DEF objectVars, desc, table, InitInv, Shape, Calls, Saved, Descriptors,
                 Saving, Filled
  <1>. QED
    BY <1>1, <1>2, <1>3, <1>4, <1>5, <1>6, <1>7, <1>8, <1>9, <1>10, <1>11
       DEF ObjectNext, ObjectStep, ObjectCall

-----------------------------------------------------------------------------
HeapShape ==
    /\ obj_class \in [Objects -> Classes \cup {NoClass}]
    /\ obj_reference_count \in [Objects -> Nat]
    /\ refs \in [ObjectThreads -> [Objects -> {0, 1}]]
    /\ DOMAIN constructed = Objects /\ DOMAIN destructed = Objects

\* A thread that works on an object is alone with it.
Working ==
    /\ \A t \in ObjectThreads :
          /\ object_pc[t] = "idle" <=> object[t] \notin Objects
          /\ \A o \in Objects : object[t] = o =>
                /\ object_pc[t] \in Inits => obj_class[o] = NoClass
                /\ object_pc[t] = "destruct" => obj_class[o] # NoClass /\ Holders(o) = {}
    /\ \A s, t \in ObjectThreads : object[s] \in Objects /\ object[s] = object[t] => s = t

Lives(o) ==
    /\ IsFiniteSet(Holders(o))
    /\ obj_reference_count[o] = Cardinality(Holders(o))
    /\ Holders(o) # {} => obj_class[o] # NoClass /\ destructed[o] = <<>>
    /\ obj_class[o] # NoClass /\ Holders(o) = {} =>
          \E t \in ObjectThreads : object_pc[t] = "destruct" /\ object[t] = o
    /\ obj_class[o] # NoClass => constructed[o] = Constructors(obj_class[o])

HeapInv == HeapShape /\ Working /\ \A o \in Objects : Lives(o)

\* A step of ocoms_class_initialize, or the end of all, touches no object.
LEMMA InitStepKeepsHeap ==
    ASSUME HeapInv,
           \A t \in ObjectThreads : \/ object_pc'[t] = object_pc[t]
                                    \/ object_pc[t] \in Inits /\ object_pc'[t] \in Inits,
           UNCHANGED <<object, heap>>
    PROVE  HeapInv'
  <1>1. HeapShape' /\ \A o : Holders(o)' = Holders(o)
    BY DEF HeapInv, HeapShape, heap, Holders
  <1>2. Working'
    BY <1>1 DEF HeapInv, Working, heap, Inits
  <1>3. \A o \in Objects : Lives(o)'
    BY <1>1 DEF HeapInv, Lives, heap, Inits
  <1>. QED
    BY <1>1, <1>2, <1>3 DEF HeapInv

\* An object that no step of a thread concerns.
LEMMA OthersLive ==
    ASSUME NEW x, Lives(x), Holders(x)' = Holders(x),
           obj_class'[x] = obj_class[x],
           obj_reference_count'[x] = obj_reference_count[x],
           constructed'[x] = constructed[x], destructed'[x] = destructed[x],
           \A s \in ObjectThreads : object_pc[s] = "destruct" /\ object[s] = x =>
                              object_pc'[s] = "destruct" /\ object'[s] = x
    PROVE  Lives(x)'
  BY DEF Lives

\* A thread that starts or stops working on an object.
LEMMA OneWorks ==
    ASSUME Working, NEW t \in ObjectThreads, NEW o \in Objects,
           object_pc[t] = "idle" \/ object_pc'[t] = "idle",
           \A s \in ObjectThreads : s # t =>
              object_pc'[s] = object_pc[s] /\ object'[s] = object[s],
           \A s \in ObjectThreads : s # t => object[s] # o,
           object_pc'[t] = "idle" => object'[t] \notin Objects,
           object_pc'[t] # "idle" => object'[t] = o,
           object_pc'[t] \in Inits => (obj_class[o] = NoClass)',
           object_pc'[t] = "destruct" => (obj_class[o] # NoClass /\ Holders(o) = {})',
           \A x \in Objects : x # o => /\ obj_class'[x] = obj_class[x]
                                      /\ Holders(x)' = Holders(x)
    PROVE  Working'
  <1>1. \A s \in ObjectThreads : object_pc'[s] = "idle" <=> object'[s] \notin Objects
    BY DEF Working
  <1>2. \A r, s \in ObjectThreads :
           object'[r] \in Objects /\ object'[r] = object'[s] => r = s
    BY DEF Working
  <1>3. ASSUME NEW s \in ObjectThreads, NEW x \in Objects, object'[s] = x
        PROVE  /\ object_pc'[s] \in Inits => (obj_class[x] = NoClass)'
               /\ object_pc'[s] = "destruct" => (obj_class[x] # NoClass /\ Holders(x) = {})'
    <2>1. CASE s = t
      BY <1>3, <2>1, <1>1
    <2>2. CASE s # t
      BY <1>3, <2>2 DEF Working
    <2>. QED
      BY <2>1, <2>2
  <1>. QED
    BY <1>1, <1>2, <1>3 DEF Working

\* The life of the objects.
LEMMA NextHeapInv ==
    ASSUME InitInv, HeapInv, [ObjectNext]_objectVars
    PROVE  HeapInv'
  <1>S. /\ object_pc \in [ObjectThreads -> ObjectLabels]
        /\ object \in [ObjectThreads -> Objects \cup {0}]
        /\ NoClass \notin Classes /\ 0 \notin Objects /\ HeapShape /\ Working
        /\ obj_class \in [Objects -> Classes \cup {NoClass}]
        /\ refs \in [ObjectThreads -> [Objects -> {0, 1}]]
        /\ \A o \in Objects : Lives(o)
    BY ObjectAssumption DEF InitInv, Shape, HeapInv, HeapShape
  <1>1. ASSUME NEW t \in ObjectThreads, NEW o \in Objects, NEW c \in Classes, New(t, o, c)
        PROVE  HeapInv'
    <2>1. \E m \in {"init_check", "construct"} : ObjectGoto(t, "idle", m)
      BY <1>1 DEF New
    <2>2. /\ object_pc' \in [ObjectThreads -> ObjectLabels]
          /\ object_pc[t] = "idle" /\ object_pc'[t] \in Inits
          /\ \A s \in ObjectThreads : s # t => object_pc'[s] = object_pc[s]
      BY <1>S, <2>1, GotoStep DEF Inits, ObjectLabels
    <2>3. /\ obj_class[o] = NoClass /\ \A s \in ObjectThreads : object[s] # o
          /\ object'[t] = o /\ \A s \in ObjectThreads : s # t => object'[s] = object[s]
          /\ UNCHANGED heap
      BY <1>1, <1>S DEF New
    <2>4. HeapShape' /\ \A x : Holders(x)' = Holders(x)
      BY <1>S, <2>3 DEF HeapShape, heap, Holders
    <2>5. Working'
      BY <1>S, <2>2, <2>3, <2>4 DEF Working, heap, Inits
    <2>6. \A x \in Objects : Lives(x)'
      BY <1>S, <2>2, <2>3, <2>4 DEF Lives, heap, Inits
    <2>. QED
      BY <2>4, <2>5, <2>6 DEF HeapInv
  <1>2. ASSUME NEW t \in ObjectThreads, Construct(t)
        PROVE  HeapInv'
    <2>0. object_pc[t] = "construct"
      BY <1>2 DEF Construct, ObjectGoto
    <2> PICK o \in Objects : o = object[t]
      BY <1>S, <2>0 DEF Working
    <2>1. /\ object_pc' \in [ObjectThreads -> ObjectLabels]
          /\ object_pc[t] = "construct" /\ object_pc'[t] = "idle"
          /\ \A s \in ObjectThreads : s # t => object_pc'[s] = object_pc[s]
      BY <1>2, <1>S, GotoStep DEF Construct, ObjectLabels
    <2>2. o = object[t] /\ obj_class[o] = NoClass
      BY <1>S, <2>1 DEF Working, Inits
    <2>3. cls[t] \in Classes /\ Filled(cls[t])
      BY <2>1 DEF InitInv, Calls, Descriptors, Inits
    <2>4. /\ obj_class' = [obj_class EXCEPT ![o] = cls[t]]
          /\ obj_reference_count' = [obj_reference_count EXCEPT ![o] = 1]
          /\ refs' = [refs EXCEPT ![t][o] = 1]
          /\ constructed' = [constructed EXCEPT ![o] = Constructors(cls[t])]
          /\ destructed' = [destructed EXCEPT ![o] = <<>>]
          /\ object' = [object EXCEPT ![t] = 0]
      BY <1>2, <2>2, <2>3 DEF Construct, Filled
    <2>5. HeapShape'
      BY <1>S, <2>2, <2>3, <2>4 DEF HeapShape
    <2>6. /\ Holders(o) = {}
          /\ \A s \in ObjectThreads : s # t => object[s] # o
      BY <1>S, <2>2 DEF Working, Lives
    <2>7. /\ Holders(o)' = {t}
          /\ \A x \in Objects : x # o => Holders(x)' = Holders(x)
      BY <1>S, <2>2, <2>4, <2>6 DEF Holders
    <2>8. /\ obj_class'[o] = cls[t] /\ obj_reference_count'[o] = 1
          /\ constructed'[o] = Constructors(cls[t]) /\ destructed'[o] = <<>>
          /\ \A x \in Objects : x # o =>
                /\ obj_class'[x] = obj_class[x]
                /\ obj_reference_count'[x] = obj_reference_count[x]
                /\ constructed'[x] = constructed[x] /\ destructed'[x] = destructed[x]
          /\ object'[t] = 0 /\ \A s \in ObjectThreads : s # t => object'[s] = object[s]
      BY <1>S, <2>2, <2>4 DEF HeapShape
    <2>9. Working'
      BY <1>S, <2>1, <2>6, <2>7, <2>8, OneWorks DEF Inits
    <2>10. Lives(o)'
      <3>1. IsFiniteSet({t}) /\ Cardinality({t}) = 1
        BY FS_Singleton
      <3>2. IsFiniteSet(Holders(o)') /\ obj_reference_count'[o] = Cardinality(Holders(o)')
        BY <2>7, <2>8, <3>1
      <3>3. obj_class'[o] \in Classes /\ obj_class'[o] # NoClass
        BY <1>S, <2>3, <2>8
      <3>4. t \in Holders(o)'
        BY <2>7
      <3>. QED
        BY <2>7, <2>8, <3>2, <3>3, <3>4 DEF Lives
    <2>11. ASSUME NEW x \in Objects, x # o
           PROVE  Lives(x)'
      <3>1. /\ obj_class'[x] = obj_class[x]
            /\ obj_reference_count'[x] = obj_reference_count[x]
            /\ constructed'[x] = constructed[x] /\ destructed'[x] = destructed[x]
            /\ Holders(x)' = Holders(x) /\ Lives(x)
        BY <1>S, <2>7, <2>8, <2>11
      <3>2. \A s \in ObjectThreads : object_pc[s] = "destruct" /\ object[s] = x =>
                               object_pc'[s] = "destruct" /\ object'[s] = x
        BY <2>1, <2>8
      <3>. QED
        BY <3>1, <3>2, OthersLive
    <2>. QED
      BY <2>5, <2>9, <2>10, <2>11 DEF HeapInv
  <1>3. ASSUME NEW t \in ObjectThreads, NEW s \in ObjectThreads, NEW o \in Objects, Retain(t, s, o)
        PROVE  HeapInv'
    <2>1. /\ refs[t][o] > 0 /\ refs[s][o] = 0
          /\ obj_reference_count' = [obj_reference_count EXCEPT ![o] = @ + 1]
          /\ refs' = [refs EXCEPT ![s][o] = @ + 1]
          /\ UNCHANGED <<object_pc, object, obj_class, constructed, destructed>>
      BY <1>3 DEF Retain
    <2>2. HeapShape'
      BY <1>S, <2>1 DEF HeapShape
    <2>3. /\ Holders(o)' = Holders(o) \cup {s} /\ s \notin Holders(o) /\ t \in Holders(o)
          /\ \A x \in Objects : x # o => Holders(x)' = Holders(x)
      BY <1>S, <2>1 DEF Holders
    <2>4. /\ obj_reference_count'[o] = obj_reference_count[o] + 1
          /\ \A x \in Objects : x # o =>
                obj_reference_count'[x] = obj_reference_count[x]
      BY <1>S, <2>1 DEF HeapShape
    <2>5. Working'
      BY <1>S, <2>1, <2>3 DEF Working
    <2>6. Lives(o)'
      BY <1>S, <2>1, <2>3, <2>4, FS_AddElement DEF Lives
    <2>7. \A x \in Objects : x # o => Lives(x)'
      BY <1>S, <2>1, <2>3, <2>4 DEF Lives
    <2>. QED
      BY <2>2, <2>5, <2>6, <2>7 DEF HeapInv
  <1>4. ASSUME NEW t \in ObjectThreads, NEW o \in Objects, Release(t, o)
        PROVE  HeapInv'
    <2>1. /\ refs[t][o] > 0
          /\ obj_reference_count' = [obj_reference_count EXCEPT ![o] = @ - 1]
          /\ refs' = [refs EXCEPT ![t][o] = @ - 1]
          /\ UNCHANGED <<obj_class, constructed, destructed>>
      BY <1>4 DEF Release
    <2>3. /\ Holders(o)' = Holders(o) \ {t} /\ t \in Holders(o)
          /\ \A x \in Objects : x # o => Holders(x)' = Holders(x)
      BY <1>S, <2>1 DEF Holders
    <2>4. /\ obj_reference_count'[o] = obj_reference_count[o] - 1
          /\ \A x \in Objects : x # o =>
                obj_reference_count'[x] = obj_reference_count[x]
      BY <1>S, <2>1 DEF HeapShape
    <2>5. /\ IsFiniteSet(Holders(o)') /\ obj_reference_count'[o] = Cardinality(Holders(o)')
          /\ Holders(o)' = {} <=> obj_reference_count[o] = 1
      <3>1. /\ IsFiniteSet(Holders(o)) /\ obj_reference_count[o] = Cardinality(Holders(o))
            /\ Cardinality(Holders(o)) \in Nat
        BY <1>S, FS_CardinalityType DEF Lives
      <3>2. /\ IsFiniteSet(Holders(o) \ {t})
            /\ Cardinality(Holders(o) \ {t}) = Cardinality(Holders(o)) - 1
        BY <2>3, <3>1, FS_RemoveElement
      <3>3. Holders(o) \ {t} = {} <=> Cardinality(Holders(o) \ {t}) = 0
        BY <3>2, FS_EmptySet
      <3>. QED
        BY <2>3, <2>4, <3>1, <3>2, <3>3
    <2>2. HeapShape'
      <3>1. obj_reference_count[o] - 1 \in Nat
        BY <1>S, <2>4, <2>5, FS_CardinalityType DEF HeapShape
      <3>. QED
        BY <1>S, <2>1, <3>1 DEF HeapShape
    <2>6. obj_class[o] # NoClass /\ destructed[o] = <<>>
      BY <1>S, <2>3 DEF Lives
    <2>7. \A s \in ObjectThreads : object[s] # o
      BY <1>S, <2>3, <2>6 DEF Working, ObjectLabels
    <2>9. CASE obj_reference_count[o] = 1
      <3>1. ObjectGoto(t, "idle", "destruct") /\ object' = [object EXCEPT ![t] = o]
        BY <1>4, <2>9 DEF Release
      <3>2. /\ object_pc' \in [ObjectThreads -> ObjectLabels]
            /\ object_pc[t] = "idle" /\ object_pc'[t] = "destruct"
            /\ \A s \in ObjectThreads : s # t => object_pc'[s] = object_pc[s]
            /\ object'[t] = o /\ \A s \in ObjectThreads : s # t => object'[s] = object[s]
        BY <1>S, <3>1, GotoStep DEF ObjectLabels
      <3>3. Working'
        BY <1>S, <2>1, <2>3, <2>5, <2>6, <2>7, <2>9, <3>2, OneWorks DEF Inits
      <3>4. Lives(o)'
        BY <1>S, <2>1, <2>5, <2>6, <2>9, <3>2 DEF Lives
      <3>5. ASSUME NEW x \in Objects, x # o
            PROVE  Lives(x)'
        <4>1. \A s \in ObjectThreads : object_pc[s] = "destruct" /\ object[s] = x =>
                                 object_pc'[s] = "destruct" /\ object'[s] = x
          BY <3>2
        <4>. QED
          BY <1>S, <2>1, <2>3, <2>4, <3>5, <4>1, OthersLive
      <3>. QED
        BY <2>2, <3>3, <3>4, <3>5 DEF HeapInv
    <2>10. CASE obj_reference_count[o] # 1
      <3>1. ObjectGoto(t, "idle", "idle") /\ object' = object
        BY <1>4, <2>10 DEF Release
      <3>2. \A s \in ObjectThreads : object_pc'[s] = object_pc[s]
        BY <1>S, <3>1, GotoStep DEF ObjectLabels
      <3>3. Working'
        BY <1>S, <2>1, <2>3, <2>7, <3>1, <3>2 DEF Working
      <3>4. Lives(o)'
        BY <1>S, <2>1, <2>5, <2>6, <2>10 DEF Lives
      <3>5. ASSUME NEW x \in Objects, x # o
            PROVE  Lives(x)'
        <4>1. \A q \in ObjectThreads : object_pc[q] = "destruct" /\ object[q] = x =>
                                      object_pc'[q] = "destruct" /\ object'[q] = x
          BY <3>1, <3>2
        <4>. QED
          BY <1>S, <2>1, <2>3, <2>4, <3>5, <4>1, OthersLive
      <3>. QED
        BY <2>2, <3>3, <3>4, <3>5 DEF HeapInv
    <2>. QED
      BY <2>9, <2>10
  <1>5. ASSUME NEW t \in ObjectThreads, Destruct(t)
        PROVE  HeapInv'
    <2>0. object_pc[t] = "destruct"
      BY <1>5 DEF Destruct, ObjectGoto
    <2> PICK o \in Objects : o = object[t]
      BY <1>S, <2>0 DEF Working
    <2>1. /\ object_pc' \in [ObjectThreads -> ObjectLabels]
          /\ object_pc[t] = "destruct" /\ object_pc'[t] = "idle"
          /\ \A s \in ObjectThreads : s # t => object_pc'[s] = object_pc[s]
      BY <1>5, <1>S, GotoStep DEF Destruct, ObjectLabels
    <2>2. o = object[t] /\ Holders(o) = {} /\ obj_class[o] # NoClass
      BY <1>S, <2>1 DEF Working
    <2>3. /\ obj_class' = [obj_class EXCEPT ![o] = NoClass]
          /\ \E d : destructed' = [destructed EXCEPT ![o] = d]
          /\ object' = [object EXCEPT ![t] = 0]
          /\ UNCHANGED <<obj_reference_count, refs, constructed>>
      BY <1>5, <2>2 DEF Destruct
    <2>4. HeapShape' /\ \A x : Holders(x)' = Holders(x)
      BY <1>S, <2>2, <2>3 DEF HeapShape, Holders
    <2>5. \A s \in ObjectThreads : s # t => object[s] # o
      BY <1>S, <2>2 DEF Working
    <2>6. /\ obj_class'[o] = NoClass
          /\ \A x \in Objects : x # o => /\ obj_class'[x] = obj_class[x]
                                         /\ destructed'[x] = destructed[x]
          /\ object'[t] = 0 /\ \A s \in ObjectThreads : s # t => object'[s] = object[s]
      BY <1>S, <2>2, <2>3 DEF HeapShape
    <2>7. Working'
      BY <1>S, <2>1, <2>2, <2>4, <2>5, <2>6, OneWorks DEF Inits
    <2>8. Lives(o)'
      BY <1>S, <2>2, <2>3, <2>4, <2>6 DEF Lives
    <2>9. ASSUME NEW x \in Objects, x # o
          PROVE  Lives(x)'
      <3>1. \A s \in ObjectThreads : object_pc[s] = "destruct" /\ object[s] = x =>
                               object_pc'[s] = "destruct" /\ object'[s] = x
        BY <2>1, <2>2, <2>6, <2>9
      <3>. QED
        BY <1>S, <2>3, <2>4, <2>6, <2>9, <3>1, OthersLive
    <2>. QED
      BY <2>4, <2>7, <2>8, <2>9 DEF HeapInv
  <1>6. ASSUME NEW t \in ObjectThreads,
               \/ InitCheck(t) \/ InitLock(t) \/ InitRecheck(t) \/ SaveClass(t)
               \/ InitUnlock(t)
        PROVE  HeapInv'
    <2>1. \E l \in Inits, m \in Inits : ObjectGoto(t, l, m)
      BY <1>6 DEF InitCheck, InitLock, InitRecheck, SaveClass, InitUnlock, Inits
    <2>2. UNCHANGED <<object, heap>>
      BY <1>6 DEF InitCheck, InitLock, InitRecheck, SaveClass, InitUnlock
    <2>3. \A s \in ObjectThreads : \/ object_pc'[s] = object_pc[s]
                                   \/ object_pc[s] \in Inits /\ object_pc'[s] \in Inits
      BY <1>S, <2>1, GotoStep DEF ObjectLabels
    <2>. QED
      BY <2>2, <2>3, InitStepKeepsHeap
  <1>7. ASSUME NEW t \in ObjectThreads, InitFill(t) \/ InitPublish(t)
        PROVE  HeapInv'
    BY <1>7, InitStepKeepsHeap DEF InitFill, InitPublish
  <1>8. CASE ClassFinalize
    BY <1>8, InitStepKeepsHeap DEF ClassFinalize
  <1>9. CASE UNCHANGED objectVars
    BY <1>9, InitStepKeepsHeap DEF objectVars
  <1>. QED
    BY <1>1, <1>2, <1>3, <1>4, <1>5, <1>6, <1>7, <1>8, <1>9
    DEF ObjectNext, ObjectStep, ObjectCall

-----------------------------------------------------------------------------
\* Nothing is initialized and no object exists at first.
LEMMA InitHolds ==
    ASSUME ObjectInit
    PROVE  InitInv /\ HeapInv
  <1>1. \A t \in ObjectThreads : /\ object_pc[t] = "idle" /\ cls[t] = NoClass /\ object[t] = 0
                                 /\ \A o \in Objects : refs[t][o] = 0
    BY DEF ObjectInit
  <1>2. Shape
    BY DEF ObjectInit, Shape, ObjectLabels
  <1>3. Calls /\ Descriptors
    BY <1>1, ObjectAssumption DEF ObjectInit, Calls, Descriptors, Locked, Inits
  <1>4. Saved
    BY DEF ObjectInit, Saved, ToSet
  <1>5. HeapShape
    BY DEF ObjectInit, HeapShape
  <1>6. Working
    BY <1>1, ObjectAssumption DEF Working, Inits
  <1>7. ASSUME NEW o \in Objects
        PROVE  Lives(o)
    <2>1. Holders(o) = {}
      BY <1>1 DEF Holders
    <2>. QED
      BY <2>1, FS_EmptySet DEF ObjectInit, Lives
  <1>. QED
    BY <1>2, <1>3, <1>4, <1>5, <1>6, <1>7 DEF InitInv, HeapInv

\* What the two parts of the invariant say of the objects and classes.
LEMMA InvSound ==
    ASSUME InitInv, HeapInv
    PROVE  ObjectsAreSound
  <1>1. refs \in [ObjectThreads -> [Objects -> Nat]]
    BY DEF HeapInv, HeapShape
  <1>2. ObjectTypeOK
    <2>1. object_pc \in [ObjectThreads ->
             {"idle", "init_check", "init_lock", "init_recheck", "init_store",
              "init_unlock", "construct", "destruct"}]
      BY DEF InitInv, Shape, ObjectLabels, Inits
    <2>. QED
      BY <1>1, <2>1 DEF InitInv, Shape, HeapInv, HeapShape, ObjectTypeOK
  <1>3. ConstructedFully
    BY DEF HeapInv, Lives, ConstructedFully
  <1>4. ClassesSavedOnce
    <2>1. class_lock = Nobody => \A c \in Classes : ~Saving(c)
      BY ObjectAssumption DEF InitInv, Calls, Saving, Locked
    <2>. QED
      BY <2>1 DEF InitInv, Saved, ClassesSavedOnce
  <1>5. CountsReferences
    <2>1. ASSUME NEW o \in Objects, obj_class[o] # NoClass, Holders(o) = {}
          PROVE  Cardinality({t \in ObjectThreads :
                                object_pc[t] = "destruct" /\ object[t] = o}) = 1
      <3>1. PICK t \in ObjectThreads : object_pc[t] = "destruct" /\ object[t] = o
        BY <2>1 DEF HeapInv, Lives
      <3>2. {s \in ObjectThreads : object_pc[s] = "destruct" /\ object[s] = o} = {t}
        BY <3>1 DEF HeapInv, Working
      <3>. QED
        BY <3>2, FS_Singleton
    <2>. QED
      BY <2>1 DEF HeapInv, Lives, CountsReferences
  <1>. QED
    BY <1>2, <1>3, <1>4, <1>5 DEF ObjectsAreSound

\* The first objects of a class may be made by any number of threads at once: each
\* is run through all the constructors of its class, the class is saved once, and
\* the last of its references, whoever drops it, destructs the object once.
THEOREM ObjectsSound ==
    ASSUME StoreOrder
    PROVE  ObjectSpec => []ObjectsAreSound
  <1>1. ObjectInit => InitInv /\ HeapInv
    BY InitHolds
  <1>2. InitInv /\ HeapInv /\ [ObjectNext]_objectVars => InitInv' /\ HeapInv'
    BY NextInitInv, NextHeapInv
  <1>3. InitInv /\ HeapInv => ObjectsAreSound
    BY InvSound
  <1>. QED
    BY <1>1, <1>2, <1>3, PTL DEF ObjectSpec

=============================================================================
