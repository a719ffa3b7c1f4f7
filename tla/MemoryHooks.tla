---- MODULE MemoryHooks ----
(***************************************************************************)
(* The memory release hooks of memoryhooks/memory.c: a list of callbacks,  *)
(* walked by whoever gives memory back.  A spin lock guards the list, but  *)
(* the walk lets go of it around every callback, since a callback may give *)
(* memory back itself: the walk goes on from a pointer that it read before *)
(* the callback.  The comment there calls this "not really thread safe";   *)
(* the module says how far it is.                                          *)
(*                                                                         *)
(* A step is to take the lock, what is done under it together with letting *)
(* go of it, or one access outside of it.  A callback that calls the hooks *)
(* again is another thread of the model.                                   *)
(***************************************************************************)
EXTENDS Naturals, FiniteSets, Sequences, SequencesExt

CONSTANTS HookThreads,
          Functions,    \* the callback functions
          Cells         \* memory for the items of the list

(* The end of the list, and the pointer of a thread that has none.         *)
End == "end"
ASSUME HooksAssumption == End \notin Cells

VARIABLES hooks_support,
          release_cb_list,       \* the items in order
          cbfunc,                \* the function of each allocated item
          release_run_callbacks,
          release_lock,          \* the threads that believe to hold the lock
          walker,                \* what each thread is doing
          mishaps                \* what must not happen

hookVars == <<hooks_support, release_cb_list, cbfunc, release_run_callbacks,
              release_lock, walker, mishaps>>

(* Where a thread is, the items it has a pointer to and the function it    *)
(* looks for; of a walk, the functions that were registered when it began, *)
(* those it called, and whether an item left the list in the meantime.     *)
NoFunction == "none"
Idle == [at |-> "idle", item |-> End, cbitem |-> End, func |-> NoFunction,
         start |-> {}, called |-> <<>>, disturbed |-> FALSE]
Allocated == DOMAIN cbfunc

(* A thread between two calls; what its last walk did is kept till then.   *)
Calls(t) == walker[t].at \in {"idle", "ended"}

HookInit ==
  /\ hooks_support = FALSE
  /\ release_cb_list = <<>>
  /\ cbfunc = <<>>
  /\ release_run_callbacks = FALSE
  /\ release_lock = {}
  /\ walker = [t \in HookThreads |-> Idle]
  /\ mishaps = {}

(* ocoms_mem_hooks_set_support, called by the memory manager.              *)
SetSupport ==
  /\ ~hooks_support
  /\ hooks_support' = TRUE
  /\ UNCHANGED <<release_cb_list, cbfunc, release_run_callbacks, release_lock,
                 walker, mishaps>>

Lock(t, from, to) ==
  /\ walker[t].at = from
  /\ release_lock = {}
  /\ release_lock' = {t}
  /\ walker' = [walker EXCEPT ![t].at = to]

Registered == {cbfunc[i] : i \in ToSet(release_cb_list)}

(* ocoms_mem_hooks_release_hook: the check without the lock.               *)
ReleaseHook(t) ==
  /\ Calls(t)
  /\ release_run_callbacks
  /\ walker' = [walker EXCEPT ![t] = [Idle EXCEPT !.at = "first"]]
  /\ UNCHANGED <<hooks_support, release_cb_list, cbfunc, release_run_callbacks,
                 release_lock, mishaps>>

WalkLock(t) ==
  /\ \/ Lock(t, "first", "firstlocked")
     \/ Lock(t, "relock", "locked")
  /\ UNCHANGED <<hooks_support, release_cb_list, cbfunc, release_run_callbacks, mishaps>>

Following(i) == IF i \notin ToSet(release_cb_list) THEN End
                ELSE LET n == CHOOSE k \in DOMAIN release_cb_list :
                                release_cb_list[k] = i
                     IN  IF n = Len(release_cb_list) THEN End
                                                     ELSE release_cb_list[n + 1]

(* One turn of the walk: the item to call and the one after it, or the end.*)
(* An item that was taken off the list and freed is read all the same.     *)
Turn(t, item, start) ==
  LET w == walker[t] IN
  /\ release_lock' = release_lock \ {t}
  /\ IF item = End
       THEN /\ walker' = [walker EXCEPT ![t].at = "ended", ![t].start = start]
            /\ UNCHANGED mishaps
       ELSE /\ walker' = [walker EXCEPT ![t] =
                 [w EXCEPT !.at = "call", !.cbitem = item,
                           !.item = Following(item), !.start = start]]
            /\ mishaps' = IF item \in Allocated THEN mishaps
                          ELSE mishaps \cup {<<"stale next", w.disturbed>>}
  /\ UNCHANGED <<hooks_support, release_cb_list, cbfunc, release_run_callbacks>>

WalkFirst(t) ==
  /\ walker[t].at = "firstlocked"
  /\ Turn(t, IF release_cb_list = <<>> THEN End ELSE Head(release_cb_list),
          Registered)

WalkNext(t) ==
  /\ walker[t].at = "locked"
  /\ Turn(t, walker[t].item, walker[t].start)

(* The callback, found in the item and called without the lock.            *)
WalkCall(t) ==
  LET i == walker[t].cbitem IN
  /\ walker[t].at = "call"
  /\ IF i \in Allocated
       THEN /\ walker' = [walker EXCEPT ![t].at = "relock",
                                        ![t].called =
                            IF walker[t].disturbed THEN @ ELSE Append(@, cbfunc[i])]
            /\ UNCHANGED mishaps
       ELSE /\ walker' = [walker EXCEPT ![t].at = "relock"]
            /\ mishaps' = mishaps \cup {<<"stale item", walker[t].disturbed>>}
  /\ UNCHANGED <<hooks_support, release_cb_list, cbfunc, release_run_callbacks,
                 release_lock>>

(* ocoms_mem_hooks_register_release: the item is allocated before the lock *)
(* is taken.                                                               *)
RegisterRelease(t, f) ==
  /\ Calls(t)
  /\ hooks_support
  /\ \E i \in Cells \ Allocated :
       /\ cbfunc' = [j \in Allocated \cup {i} |-> IF j = i THEN f ELSE cbfunc[j]]
       /\ walker' = [walker EXCEPT ![t] = [Idle EXCEPT !.at = "register", !.item = i]]
  /\ UNCHANGED <<hooks_support, release_cb_list, release_run_callbacks,
                 release_lock, mishaps>>

(* No memory for the item: the error path lets go of a lock that was never *)
(* taken, which another thread may hold.                                   *)
RegisterFails(t) ==
  /\ Calls(t)
  /\ hooks_support
  /\ Cells \subseteq Allocated
  /\ release_lock' = {}
  /\ mishaps' = IF release_lock = {} THEN mishaps
                ELSE mishaps \cup {<<"unlocked", FALSE>>}
  /\ UNCHANGED <<hooks_support, release_cb_list, cbfunc, release_run_callbacks,
                 walker>>

RegisterLock(t) ==
  /\ Lock(t, "register", "registerlocked")
  /\ UNCHANGED <<hooks_support, release_cb_list, cbfunc, release_run_callbacks, mishaps>>

Freed(i) == [j \in Allocated \ {i} |-> cbfunc[j]]

\* Mutant: the list is not searched for the function.
RegisterTwice(t) ==
  LET i == walker[t].item IN
  /\ walker[t].at = "registerlocked"
  /\ release_run_callbacks' = TRUE
  /\ release_cb_list' = Append(release_cb_list, i)
  /\ release_lock' = release_lock \ {t}
  /\ walker' = [walker EXCEPT ![t] = Idle]
  /\ UNCHANGED <<hooks_support, cbfunc, mishaps>>

(* Under the lock: callbacks run from now on; the item is appended, or     *)
(* given back when the function is on the list already.                    *)
RegisterAppend(t) ==
  LET i == walker[t].item
      known == cbfunc[i] \in Registered
  IN
  /\ walker[t].at = "registerlocked"
  /\ release_run_callbacks' = TRUE
  /\ release_cb_list' = IF known THEN release_cb_list
                                 ELSE Append(release_cb_list, i)
  /\ cbfunc' = IF known THEN Freed(i) ELSE cbfunc
  /\ release_lock' = release_lock \ {t}
  /\ walker' = [walker EXCEPT ![t] = Idle]
  /\ UNCHANGED <<hooks_support, mishaps>>

(* An item leaves the list: the walks under way may hold it, and nothing is *)
(* said of what they call any more.                                        *)
Disturbed(then) ==
  [t \in HookThreads |->
     IF walker[t].at \in {"call", "relock", "locked"}
     THEN [walker[t] EXCEPT !.disturbed = TRUE, !.start = {}, !.called = <<>>]
     ELSE then[t]]

(* ocoms_mem_hooks_unregister_release: off the list under the lock, and    *)
(* freed after it.                                                         *)
UnregisterLock(t, f) ==
  /\ Calls(t)
  /\ release_lock = {}
  /\ release_lock' = {t}
  /\ walker' = [walker EXCEPT ![t] = [Idle EXCEPT !.at = "remove", !.func = f]]
  /\ UNCHANGED <<hooks_support, release_cb_list, cbfunc, release_run_callbacks, mishaps>>

UnregisterRemove(t) ==
  LET found == {k \in DOMAIN release_cb_list :
                  cbfunc[release_cb_list[k]] = walker[t].func} IN
  /\ walker[t].at = "remove"
  /\ release_lock' = release_lock \ {t}
  /\ IF found = {}
       THEN walker' = [walker EXCEPT ![t] = Idle] /\ UNCHANGED release_cb_list
       ELSE LET k == CHOOSE k \in found : TRUE IN
            /\ release_cb_list' = RemoveAt(release_cb_list, k)
            /\ walker' = Disturbed([walker EXCEPT ![t] =
                            [Idle EXCEPT !.at = "free", !.item = release_cb_list[k]]])
  /\ UNCHANGED <<hooks_support, cbfunc, release_run_callbacks, mishaps>>

UnregisterFree(t) ==
  /\ walker[t].at = "free"
  /\ cbfunc' = Freed(walker[t].item)
  /\ walker' = [walker EXCEPT ![t] = Idle]
  /\ UNCHANGED <<hooks_support, release_cb_list, release_run_callbacks,
                 release_lock, mishaps>>

(* ocoms_mem_hooks_finalize: no more walks begin, then the list is emptied *)
(* under the lock.                                                         *)
FinalizeStop(t) ==
  /\ Calls(t)
  /\ release_run_callbacks
  /\ release_run_callbacks' = FALSE
  /\ walker' = [walker EXCEPT ![t] = [Idle EXCEPT !.at = "finalize"]]
  /\ UNCHANGED <<hooks_support, release_cb_list, cbfunc, release_lock, mishaps>>

FinalizeLock(t) ==
  /\ Lock(t, "finalize", "empty")
  /\ UNCHANGED <<hooks_support, release_cb_list, cbfunc, release_run_callbacks, mishaps>>

FinalizeEmpty(t) ==
  /\ walker[t].at = "empty"
  /\ cbfunc' = [i \in Allocated \ ToSet(release_cb_list) |-> cbfunc[i]]
  /\ release_cb_list' = <<>>
  /\ release_lock' = release_lock \ {t}
  /\ walker' = Disturbed([walker EXCEPT ![t] = Idle])
  /\ UNCHANGED <<hooks_support, release_run_callbacks, mishaps>>

HookStep(t) ==
  \/ ReleaseHook(t) \/ WalkLock(t) \/ WalkFirst(t) \/ WalkNext(t) \/ WalkCall(t)
  \/ \E f \in Functions : RegisterRelease(t, f) \/ UnregisterLock(t, f)
  \/ RegisterFails(t) \/ RegisterLock(t) \/ RegisterAppend(t)
  \/ UnregisterRemove(t) \/ UnregisterFree(t)
  \/ FinalizeStop(t) \/ FinalizeLock(t) \/ FinalizeEmpty(t)

(* Once the lock was taken away from its holder two threads may be under   *)
(* it, and what is one step here is not: the module does not go on.        *)
HookNext ==
  /\ <<"unlocked", FALSE>> \notin mishaps
  /\ SetSupport \/ \E t \in HookThreads : HookStep(t)

HookSpec == HookInit /\ [][HookNext]_hookVars

-----------------------------------------------------------------------------
(* A walk during which no callback is taken off the list reads no freed    *)
(* item and calls every callback that was registered when it began, and no *)
(* callback twice, although others are registered and other walks run in   *)
(* the meantime and the walk goes on from a pointer it read before.        *)
WalksReachCallbacks ==
  /\ \A t \in HookThreads :
       walker[t].at = "ended" /\ ~walker[t].disturbed =>
         /\ walker[t].start \subseteq ToSet(walker[t].called)
         /\ Len(walker[t].called) = Cardinality(ToSet(walker[t].called))
  /\ \A m \in mishaps : m[1] \in {"stale next", "stale item"} => m[2]
====
