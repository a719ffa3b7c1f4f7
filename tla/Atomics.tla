---- MODULE Atomics ----
(***************************************************************************)
(* The atomic operations of ocoms/sys: compare-and-set, swap, add and      *)
(* subtract on one word, the raw load-linked / store-conditional pair, and *)
(* the spin lock.  A port gives each operation in one of four forms: an    *)
(* LL/SC loop in assembly (arm64, arm, powerpc, mips, alpha), one locked   *)
(* instruction (amd64, ia32, ia64, sparcv9), a C loop over the port's      *)
(* compare-and-set (atomic_impl.h), or a plain update under a lock of the  *)
(* lock table (asm.c, for 32 bit sparc).                                   *)
(*                                                                         *)
(* One step is one access to the word, to the lock or to the data that the *)
(* lock protects.  A store takes away every reservation of its address,    *)
(* and a store-conditional may also fail for no reason.  Barriers are left *)
(* out: the memory of the model is sequentially consistent.                *)
(***************************************************************************)
EXTENDS Integers, FiniteSets, SequencesExt

CONSTANTS AtomicThreads,
          Ports,        \* [ops, cmpset, swap, math, truncates]: the operations
                        \* a port offers and the form of each
          Requests,     \* the calls a thread may make: [op, expect, arg]
          WordBits,     \* the width of the word
          IntBits,      \* the width of an int32_t, at most WordBits
          FirstWords,   \* what the word may hold at first
          MaxCalls      \* bound: the calls made by all the threads

(* A compare-and-set needs no other one; only additions and subtractions   *)
(* are ever made under a lock.                                             *)
Operations == {"cmpset", "swap", "add", "sub", "sc", "lock", "trylock"}
ASSUME AtomicsAssumption ==
  /\ \A p \in Ports :
       /\ p.cmpset \in {"llsc", "instruction"}
       /\ "swap" \in p.ops => p.swap \in {"llsc", "instruction", "loop"}
       /\ {"add", "sub"} \cap p.ops # {} =>
             p.math \in {"llsc", "instruction", "loop", "locked"}
  /\ \A c \in Requests : c.op \in Operations

VARIABLES port,         \* the port that is compiled
          word, lock,   \* the two addresses
          first,        \* what the word held at first
          reserved,     \* the address each thread has load-linked, or "none"
          atomic_pc, call,     \* where each thread is, in which call
          seen,         \* the value that it has read
          made,         \* how many calls were made
          returned,     \* the calls on the word that returned
          shared,       \* plain data, updated under the lock
          sections,     \* how often that was done
          tries         \* what trylock answered: <<acquired, result>>

memory == <<word, lock, reserved>>
running == <<atomic_pc, call, seen>>
atomicVars == <<port, memory, first, running, made, returned, shared, sections,
                tries>>

OCOMS_ATOMIC_UNLOCKED == 0
OCOMS_ATOMIC_LOCKED == 1

Modulus == 2 ^ WordBits

(* A word cast to int32_t and compared with a word again, as ia64 does it. *)
AsInt32(v) == LET low == v % (2 ^ IntBits)
              IN  IF low < 2 ^ (IntBits - 1) THEN low
                                             ELSE (low - 2 ^ IntBits) % Modulus

NoCall == [op |-> "none"]

AtomicInit ==
  /\ port \in Ports
  /\ word \in FirstWords
  /\ first = word
  /\ lock = OCOMS_ATOMIC_UNLOCKED
  /\ reserved = [t \in AtomicThreads |-> "none"]
  /\ atomic_pc = [t \in AtomicThreads |-> "idle"]
  /\ call = [t \in AtomicThreads |-> NoCall]
  /\ seen = [t \in AtomicThreads |-> 0]
  /\ made = 0
  /\ returned = {}
  /\ shared = 0
  /\ sections = 0
  /\ tries = {}

(* The form in which the port gives an operation; the spin lock is a       *)
(* cmpset (or, on sparc, an ldstub) of the lock.                           *)
Form(op) == CASE op \in {"cmpset", "lock", "trylock"} -> port.cmpset
              [] op = "swap" -> port.swap
              [] op \in {"add", "sub"} -> port.math
              [] op = "sc" -> "llsc"

(* A loop in C reads the word before it calls the port's cmpset.           *)
Entry(form) == CASE form = "llsc" -> "link"
                 [] form = "instruction" -> "instruction"
                 [] form = "loop" -> "read"

OnLock(t) == call[t].op \in {"lock", "trylock"}
Address(t) == IF OnLock(t) THEN "lock" ELSE "word"
Contents(t) == IF OnLock(t) THEN lock ELSE word
Loops(t) == ~OnLock(t) /\ call[t].op # "cmpset" /\ Form(call[t].op) = "loop"

(* The value that an operation stores over the old one.                    *)
NewValue(op, arg, old) ==
  CASE op \in {"lock", "trylock"} -> OCOMS_ATOMIC_LOCKED
    [] op \in {"cmpset", "swap"} -> arg
    [] op \in {"add", "sc"} -> (old + arg) % Modulus
    [] op = "sub" -> (old - arg) % Modulus

(* What it answers once it has stored: the old value, the new one, or 1.   *)
Answer(op, arg, old) ==
  CASE op = "swap" -> old
    [] op \in {"add", "sub"} -> NewValue(op, arg, old)
    [] OTHER -> 1

AtomicGoto(t, label) == atomic_pc' = [atomic_pc EXCEPT ![t] = label]
Sees(t, v) == seen' = [seen EXCEPT ![t] = v]

(* A call.  On a port that does its arithmetic under a lock, add and sub   *)
(* take the lock first.  `after' are the calls that returned before.       *)
AtomicCall(t, c) ==
  LET locked == c.op \in {"add", "sub"} /\ port.math = "locked"
      op == IF locked THEN "lock" ELSE c.op
  IN
  /\ atomic_pc[t] = "idle"
  /\ made < MaxCalls
  /\ c.op \in port.ops
  /\ made' = made + 1
  /\ call' = [call EXCEPT ![t] =
       [op |-> op, task |-> c.op, arg |-> c.arg, expect |-> c.expect,
        id |-> made, after |-> {d.id : d \in returned}]]
  /\ AtomicGoto(t, Entry(Form(op)))
  /\ UNCHANGED <<port, memory, first, seen, returned, shared, sections, tries>>

(* The plain read of the C loops: `oldval = *addr'.                        *)
LoopRead(t) ==
  /\ atomic_pc[t] = "read"
  /\ Sees(t, word)
  /\ AtomicGoto(t, Entry(port.cmpset))
  /\ UNCHANGED <<port, memory, first, call, made, returned, shared, sections,
                 tries>>

(* The call is over.                                                       *)
Finish(t) ==
  /\ AtomicGoto(t, "idle")
  /\ call' = [call EXCEPT ![t] = NoCall]
  /\ Sees(t, 0)

Return(t, result) ==
  LET r == call[t] IN
  /\ returned' = returned \cup
       {[op |-> r.task, arg |-> r.arg, expect |-> r.expect, result |-> result,
         id |-> r.id, after |-> r.after]}
  /\ Finish(t)
  /\ UNCHANGED tries

(* The operation has stored over the old value.                            *)
Done(t, old) ==
  IF OnLock(t)
    THEN /\ AtomicGoto(t, "section")
         /\ tries' = tries \cup (IF call[t].op = "lock" THEN {} ELSE {<<TRUE, 1>>})
         /\ UNCHANGED <<call, seen, returned>>
    ELSE Return(t, Answer(call[t].op, call[t].arg, old))

\* Mutant: the C loops give up after one compare-and-set.
RefusedOnce(t) ==
  LET r == call[t] IN
  IF r.op = "trylock"
    THEN /\ tries' = tries \cup {<<FALSE, 0>>}
         /\ Finish(t)
         /\ UNCHANGED returned
    ELSE IF r.op = "lock"
    THEN /\ AtomicGoto(t, "spin")
         /\ UNCHANGED <<call, seen, returned, tries>>
    ELSE Return(t, IF r.op = "cmpset" THEN 0
                                      ELSE Answer(r.op, r.arg, seen[t]))

(* The compare-and-set answers 0: the C loops read again, the lock spins,  *)
(* cmpset and trylock give the answer to their caller.                     *)
Refused(t) ==
  LET op == call[t].op IN
  \/ op = "cmpset" /\ Return(t, 0)
  \/ /\ op = "trylock"
     /\ tries' = tries \cup {<<FALSE, 0>>}
     /\ Finish(t)
     /\ UNCHANGED returned
  \/ /\ op \notin {"cmpset", "trylock"}
     /\ AtomicGoto(t, IF op = "lock" THEN "spin" ELSE "read")
     /\ UNCHANGED <<call, seen, returned, tries>>

(* The lock is taken if it is free; cmpset compares with the caller's      *)
(* value, the loops with what they read.                                   *)
Expected(t) == IF OnLock(t) THEN OCOMS_ATOMIC_UNLOCKED
               ELSE IF Loops(t) THEN seen[t] ELSE call[t].expect
Mismatch(t) == /\ OnLock(t) \/ call[t].op = "cmpset" \/ Loops(t)
               /\ Contents(t) # Expected(t)

StoreTo(address, v) ==
  /\ word' = IF address = "word" THEN v ELSE word
  /\ lock' = IF address = "lock" THEN v ELSE lock
  /\ reserved' = [u \in AtomicThreads |->
                    IF reserved[u] = address THEN "none" ELSE reserved[u]]

(* Load-linked, and the branch to the end when the compare fails.          *)
LoadLinked(t) ==
  /\ atomic_pc[t] = "link"
  /\ reserved' = [reserved EXCEPT ![t] = Address(t)]
  /\ IF Mismatch(t)
       THEN Refused(t)
       ELSE /\ AtomicGoto(t, "store")
            /\ Sees(t, Contents(t))
            /\ UNCHANGED <<call, returned, tries>>
  /\ UNCHANGED <<port, word, lock, first, made, shared, sections>>

StoreConditional(t) ==
  /\ atomic_pc[t] = "store"
  /\ reserved[t] = Address(t)
  /\ StoreTo(Address(t), NewValue(call[t].op, call[t].arg, seen[t]))
  /\ Done(t, seen[t])
  /\ UNCHANGED <<port, first, made, shared, sections>>

(* The reservation is lost, or the processor gives up: the assembly's loop *)
(* starts over, and the raw sc answers 0.                                  *)
StoreConditionalFails(t) ==
  /\ atomic_pc[t] = "store"
  /\ reserved' = [reserved EXCEPT ![t] = "none"]
  /\ IF call[t].op = "sc"
       THEN Return(t, 0)
       ELSE /\ AtomicGoto(t, "link")
            /\ UNCHANGED <<call, seen, returned, tries>>
  /\ UNCHANGED <<port, word, lock, first, made, shared, sections>>

(* Whether the cmpset instruction reports that it stored.  ia64 compares   *)
(* the value it saw as an int32_t, for 64 bit words too.                   *)
SaysStored(t) == IF port.truncates /\ ~OnLock(t)
                   THEN AsInt32(word) = Expected(t)
                   ELSE ~Mismatch(t)

(* One locked instruction: cmpxchg, xchg, xadd, casa or ldstub.            *)
Instruction(t) ==
  LET stored == NewValue(call[t].op, call[t].arg,
                         IF Loops(t) THEN seen[t] ELSE Contents(t))
  IN
  /\ atomic_pc[t] = "instruction"
  /\ IF Mismatch(t) THEN UNCHANGED memory ELSE StoreTo(Address(t), stored)
  /\ IF SaysStored(t) THEN Done(t, IF Loops(t) THEN seen[t] ELSE Contents(t))
                      ELSE Refused(t)
  /\ UNCHANGED <<port, first, made, shared, sections>>

\* Mutant: the lock is taken without another compare-and-set after spinning.
SpinTaken(t) ==
  /\ atomic_pc[t] = "spin"
  /\ lock # OCOMS_ATOMIC_LOCKED
  /\ AtomicGoto(t, "section")
  /\ UNCHANGED <<port, memory, first, call, seen, made, returned, shared,
                 sections, tries>>

(* ocoms_atomic_lock reads the lock until it is free, and tries again.     *)
Spin(t) ==
  /\ atomic_pc[t] = "spin"
  /\ lock # OCOMS_ATOMIC_LOCKED
  /\ AtomicGoto(t, Entry(port.cmpset))
  /\ UNCHANGED <<port, memory, first, call, seen, made, returned, shared,
                 sections, tries>>

(* Under the lock: a plain read and a plain write, of the caller's data or *)
(* of the word that asm.c's add and sub update.                            *)
Math(t) == call[t].task \in {"add", "sub"}

SectionRead(t) ==
  /\ atomic_pc[t] = "section"
  /\ AtomicGoto(t, "update")
  /\ Sees(t, IF Math(t) THEN word ELSE shared)
  /\ UNCHANGED <<port, memory, first, call, made, returned, shared, sections,
                 tries>>

SectionWrite(t) ==
  /\ atomic_pc[t] = "update"
  /\ IF Math(t) THEN StoreTo("word", NewValue(call[t].task, call[t].arg, seen[t]))
                ELSE UNCHANGED memory
  /\ shared' = IF Math(t) THEN shared ELSE seen[t] + 1
  /\ sections' = IF Math(t) THEN sections ELSE sections + 1
  /\ AtomicGoto(t, "unlock")
  /\ UNCHANGED <<port, first, call, seen, made, returned, tries>>

(* ocoms_atomic_unlock, and the return of an add or sub under the lock.    *)
Unlock(t) ==
  /\ atomic_pc[t] = "unlock"
  /\ StoreTo("lock", OCOMS_ATOMIC_UNLOCKED)
  /\ IF Math(t)
       THEN Return(t, Answer(call[t].task, call[t].arg, seen[t]))
       ELSE /\ Finish(t)
            /\ UNCHANGED <<returned, tries>>
  /\ UNCHANGED <<port, first, made, shared, sections>>

AtomicStep(t) ==
  \/ LoopRead(t) \/ LoadLinked(t) \/ Instruction(t) \/ Spin(t)
  \/ SectionRead(t) \/ SectionWrite(t) \/ Unlock(t)

AtomicNext ==
  \E t \in AtomicThreads :
    \/ \E c \in Requests : AtomicCall(t, c)
    \/ AtomicStep(t)
    \/ StoreConditional(t)
    \/ StoreConditionalFails(t)

AtomicSpec == AtomicInit /\ [][AtomicNext]_atomicVars

-----------------------------------------------------------------------------
Quiet == \A t \in AtomicThreads : atomic_pc[t] = "idle"

(* What a call does to the word in one step, and what it answers then.     *)
After(d, v) == IF d.op \in {"cmpset", "sc"} /\ d.result = 0
                 THEN v ELSE NewValue(d.op, d.arg, v)
Agrees(d, v) == CASE d.op = "cmpset" -> d.result = 1 <=> v = d.expect
                  [] d.op = "sc" -> TRUE
                  [] OTHER -> d.result = Answer(d.op, d.arg, v)

(* The calls of `order', made one after the other, give these results.     *)
Explains(order) ==
  LET value[k \in 0 .. Len(order)] ==
        IF k = 0 THEN first ELSE After(order[k], value[k - 1])
  IN  /\ \A k \in DOMAIN order : Agrees(order[k], value[k - 1])
      /\ word = value[Len(order)]

(* "The appearance of atomic operation will be upheld" (sys/atomic.h):     *)
(* when every call has returned, some order of the calls, in which a call  *)
(* that returned before another began stays before it, gives the same      *)
(* results and the same word with each call made in one step.              *)
OperationsAppearAtomic ==
  Quiet => \E order \in SetToSeqs(returned) :
             /\ \A i, j \in DOMAIN order :
                  order[i].id \in order[j].after => i < j
             /\ Explains(order)

(* The spin lock protects what it should: one thread at a time is between  *)
(* ocoms_atomic_lock and ocoms_atomic_unlock, the lock is taken as long as *)
(* one is, and no update made in there is lost.                            *)
LockExcludes ==
  LET inside == {t \in AtomicThreads :
                   atomic_pc[t] \in {"section", "update", "unlock"}}
  IN  /\ Cardinality(inside) = (IF lock = OCOMS_ATOMIC_LOCKED THEN 1 ELSE 0)
      /\ inside = {} => shared = sections

(* What sys/atomic.h says of ocoms_atomic_trylock: "0 if the lock was      *)
(* acquired, 1 otherwise".                                                 *)
TrylockAsPromised == \A r \in tries : r[1] <=> r[2] = 0
====
