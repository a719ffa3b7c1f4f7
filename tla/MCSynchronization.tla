---- MODULE MCSynchronization ----
(***************************************************************************)
(* The lock-free and lock-based parts of the library for model checking:   *)
(* the atomic operations and the spin lock, the LIFO built on compare-and- *)
(* set, the condition variable, the object system with its class lock, and *)
(* the memory release hooks.  They share no state, so one run checks them  *)
(* side by side: `which' is the part that moves, chosen at first.  There   *)
(* is no symmetry set: some properties are liveness properties.            *)
(***************************************************************************)
EXTENDS AtomicLifo, Atomics, Condition, MemoryHooks, ObjectClass

VARIABLES which
allVars == <<which, vars, objectVars, atomicVars, condVars, hookVars>>

-----------------------------------------------------------------------------
(* An inheritance chain with a class without a constructor in the middle.  *)
MCClasses == {"list_item", "free_list_item", "fragment"}
MCParent == [c \in MCClasses |->
               CASE c = "list_item" -> "object"
                 [] c = "free_list_item" -> "list_item"
                 [] c = "fragment" -> "free_list_item"]
MCHasConstruct == {"list_item", "fragment"}
MCHasDestruct == {"list_item", "free_list_item"}

(* The ports: arm64; mips, alpha, powerpc; amd64; sparcv9; 32 bit sparc.   *)
MCPort(ops, cmpset, swap, math) ==
  [ops |-> ops, cmpset |-> cmpset, swap |-> swap, math |-> math,
   truncates |-> FALSE]
MCAll == {"cmpset", "swap", "add", "sub", "lock", "trylock"}
MCPorts ==
  {MCPort(MCAll \cup {"sc"}, "llsc", "llsc", "llsc"),
   MCPort(MCAll, "llsc", "loop", "loop"),
   MCPort(MCAll, "instruction", "instruction", "instruction"),
   MCPort(MCAll, "instruction", "loop", "loop"),
   MCPort({"add", "sub", "lock", "trylock"}, "instruction", "none", "locked")}
MCIa64 == {[MCPort(MCAll, "instruction", "loop", "loop")
              EXCEPT !.truncates = TRUE]}
MCRequest(op, expect, arg) == [op |-> op, expect |-> expect, arg |-> arg]
MCRequests ==
  {MCRequest("cmpset", 0, 1), MCRequest("swap", 0, 0), MCRequest("add", 0, 1),
   MCRequest("sub", 0, 2), MCRequest("sc", 0, 1), MCRequest("lock", 0, 0),
   MCRequest("trylock", 0, 0)}

(* A polling build whose program calls timedwait or OCOMS_WAKEUP_THREAD is *)
(* left out: it does lose wakeups.                                         *)
MCBuilds == {[sleeps |-> TRUE, timed |-> TRUE, wakeup |-> TRUE],
             [sleeps |-> TRUE, timed |-> TRUE, wakeup |-> FALSE],
             [sleeps |-> FALSE, timed |-> FALSE, wakeup |-> FALSE]}

-----------------------------------------------------------------------------
(* The part that moves starts in any of its initial states, the others in  *)
(* one of theirs.                                                          *)
MCInit ==
  /\ which \in {"lifo", "object", "atomic", "condition", "hooks"}
  /\ Init /\ ObjectInit /\ AtomicInit /\ CondInit /\ HookInit
  /\ which # "lifo" => owner = [i \in Items |-> CHOOSE t \in Threads : TRUE]
  /\ which # "atomic" => /\ port = CHOOSE p \in Ports : TRUE
                        /\ word = CHOOSE w \in FirstWords : TRUE
  /\ which # "condition" => build = CHOOSE b \in Builds : TRUE

LifoMoves == which = "lifo" /\ Next
               /\ UNCHANGED <<which, objectVars, atomicVars, condVars, hookVars>>
ObjectMoves == which = "object" /\ ObjectNext
               /\ UNCHANGED <<which, vars, atomicVars, condVars, hookVars>>
AtomicMoves == which = "atomic" /\ AtomicNext
               /\ UNCHANGED <<which, vars, objectVars, condVars, hookVars>>
CondMoves == which = "condition" /\ CondNext
               /\ UNCHANGED <<which, vars, objectVars, atomicVars, hookVars>>
(* After a mishap the memory is not what the program believes it is.       *)
HookMoves == which = "hooks" /\ mishaps = {} /\ HookNext
               /\ UNCHANGED <<which, vars, objectVars, atomicVars, condVars>>

MCNext == LifoMoves \/ ObjectMoves \/ AtomicMoves \/ CondMoves \/ HookMoves

MCSpec ==
  /\ MCInit /\ [][MCNext]_allVars
  /\ \A t \in Threads : WF_vars(which = "lifo" /\ (PushStep(t) \/ PopStep(t)))
  /\ \A t \in ObjectThreads :
       WF_objectVars(which = "object" /\ ObjectStep(t))
====
