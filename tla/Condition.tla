---- MODULE Condition ----
(***************************************************************************)
(* The condition variable of threads/condition.h and the macros of         *)
(* threads/threads.h that hand a resource from thread to thread with it.   *)
(* In a build with POSIX or Solaris threads a waiter sleeps in the         *)
(* system's condition variable; in a build without them it polls: it lets  *)
(* go of the mutex, runs the progress function, takes the mutex again and  *)
(* looks at c_signaled.                                                    *)
(*                                                                         *)
(* A step is what a thread does between two points where another one can   *)
(* run: to lock, to go to sleep or let go of the mutex, to wake up.  The   *)
(* macro OCOMS_WAKEUP_THREAD does not take the mutex: each of its accesses *)
(* is a step, and it may run between the look at the flag of a thread that *)
(* holds the mutex and that thread's entry into the wait.  What it sends   *)
(* may then come too early for that thread, or, sent as a signal because   *)
(* there was one waiter, reach that thread instead of the waiter.          *)
(***************************************************************************)
EXTENDS Integers, FiniteSets

CONSTANTS CondThreads,
          Builds,       \* [sleeps, timed, wakeup]: whether waiters sleep or
                        \* poll, whether the program calls timedwait, and
                        \* whether it calls OCOMS_WAKEUP_THREAD
          MaxSignaled   \* bound on c_signaled, both ways

(* A thread is never taken for nobody.                                     *)
ASSUME ConditionAssumption ==
  /\ "nobody" \notin CondThreads
  /\ Builds \subseteq [sleeps : BOOLEAN, timed : BOOLEAN, wakeup : BOOLEAN]
  /\ MaxSignaled \in Nat

VARIABLES build,
          mutex,        \* the thread that holds the mutex, or "nobody"
          active,       \* the flag that the macros guard
          c_waiting, c_signaled,
          asleep,       \* the threads in the system's condition wait
          at,           \* where each thread is
          timed,        \* the threads whose wait is a timedwait
          count_seen,         \* c_waiting as a thread without the mutex read it
          owed          \* the waiters that OCOMS_RELEASE_THREAD called and
                        \* that have not yet left the wait

condVars == <<build, mutex, active, c_waiting, c_signaled, asleep, at, timed,
              count_seen, owed>>

CondInit ==
  /\ build \in Builds
  /\ mutex = "nobody"
  /\ active = FALSE
  /\ c_waiting = 0
  /\ c_signaled = 0
  /\ asleep = {}
  /\ at = [t \in CondThreads |-> "idle"]
  /\ timed = {}
  /\ count_seen = [t \in CondThreads |-> 0]
  /\ owed = {}

(* OCOMS_THREAD_LOCK, from a label to the next one.                        *)
Locks(t, from, to) ==
  /\ at[t] = from
  /\ mutex = "nobody"
  /\ mutex' = t
  /\ at' = [at EXCEPT ![t] = to]

(* OCOMS_ACQUIRE_THREAD, and a caller that waits at most for a while.      *)
Acquire(t) ==
  /\ Locks(t, "idle", "check")
  /\ UNCHANGED <<build, active, c_waiting, c_signaled, asleep, timed, count_seen,
                 owed>>

AcquireTimed(t) ==
  /\ build.timed
  /\ Locks(t, "idle", "check")
  /\ timed' = timed \cup {t}
  /\ UNCHANGED <<build, active, c_waiting, c_signaled, asleep, count_seen, owed>>

(* The loop of the macro: take the resource, or call ocoms_condition_wait. *)
Take(t) ==
  /\ at[t] = "check"
  /\ ~active
  /\ active' = TRUE
  /\ at' = [at EXCEPT ![t] = "held"]
  /\ timed' = timed \ {t}
  /\ UNCHANGED <<build, mutex, c_waiting, c_signaled, asleep, count_seen, owed>>

MustWait(t) ==
  /\ at[t] = "check"
  /\ active
  /\ at' = [at EXCEPT ![t] = "enter"]
  /\ UNCHANGED <<build, mutex, active, c_waiting, c_signaled, asleep, timed,
                 count_seen, owed>>

EnterWait(t) ==
  /\ at[t] = "enter"
  /\ c_waiting' = c_waiting + 1
  /\ at' = [at EXCEPT ![t] = "counted"]
  /\ UNCHANGED <<build, mutex, active, c_signaled, asleep, timed, count_seen, owed>>

(* cond_wait: to let go of the mutex and to sleep is one step.             *)
Sleep(t) ==
  /\ at[t] = "counted"
  /\ build.sleeps
  /\ asleep' = asleep \cup {t}
  /\ mutex' = "nobody"
  /\ at' = [at EXCEPT ![t] = "wait"]
  /\ UNCHANGED <<build, active, c_waiting, c_signaled, timed, count_seen, owed>>

\* Mutant: a waiter that comes while signals are left consumes one.
PollOnce(t) ==
  /\ at[t] = "counted"
  /\ ~build.sleeps
  /\ IF c_signaled # 0
       THEN /\ at' = [at EXCEPT ![t] = "leave"]
            /\ UNCHANGED mutex
       ELSE /\ mutex' = "nobody"
            /\ at' = [at EXCEPT ![t] = "wait"]
  /\ UNCHANGED <<build, active, c_waiting, c_signaled, asleep, timed, count_seen,
                 owed>>

(* The polling wait.  A waiter that finds signals of earlier waiters       *)
(* leaves at once and lets them have those; timedwait has no such branch.  *)
Poll(t) ==
  /\ at[t] = "counted"
  /\ ~build.sleeps
  /\ IF c_signaled # 0
       THEN IF t \in timed
              THEN /\ at' = [at EXCEPT ![t] = "leave"]
                   /\ UNCHANGED <<mutex, c_waiting>>
              ELSE /\ c_waiting' = c_waiting - 1
                   /\ mutex' = "nobody"
                   /\ at' = [at EXCEPT ![t] = "again"]
       ELSE /\ mutex' = "nobody"
            /\ at' = [at EXCEPT ![t] = "wait"]
            /\ UNCHANGED c_waiting
  /\ UNCHANGED <<build, active, c_signaled, asleep, timed, count_seen, owed>>

PollAgain(t) ==
  /\ Locks(t, "again", "check")
  /\ UNCHANGED <<build, active, c_waiting, c_signaled, asleep, timed, count_seen,
                 owed>>

(* A sleeper wakes for no reason, or its time is over.                     *)
SpuriousOrTimeout(t) ==
  /\ t \in asleep
  /\ c_signaled > -MaxSignaled
  /\ asleep' = asleep \ {t}
  /\ UNCHANGED <<build, mutex, active, c_waiting, c_signaled, at, timed, count_seen,
                 owed>>

(* Awake, or signaled, or timed out while polling, with the mutex again.   *)
Wake(t) ==
  /\ IF build.sleeps THEN t \notin asleep ELSE c_signaled # 0 \/ t \in timed
  /\ Locks(t, "wait", "leave")
  /\ UNCHANGED <<build, active, c_waiting, c_signaled, asleep, timed, count_seen,
                 owed>>

(* The end of wait and timedwait.  The latter's caller gives up.           *)
Leave(t) ==
  /\ at[t] = "leave"
  /\ c_signaled' = IF t \in timed /\ c_signaled = 0 THEN 0 ELSE c_signaled - 1
  /\ c_waiting' = c_waiting - 1
  /\ owed' = owed \ {t}
  /\ timed' = timed \ {t}
  /\ IF t \in timed
       THEN /\ mutex' = "nobody"
            /\ at' = [at EXCEPT ![t] = "idle"]
       ELSE /\ at' = [at EXCEPT ![t] = "check"]
            /\ UNCHANGED mutex
  /\ UNCHANGED <<build, active, asleep, count_seen>>

(* ocoms_condition_signal, called with the mutex held.                     *)
Signal(t) ==
  /\ at[t] = "idle"
  /\ mutex = "nobody"
  /\ c_waiting # 0
  /\ c_signaled < MaxSignaled
  /\ c_signaled' = c_signaled + 1
  /\ \/ asleep = {} /\ UNCHANGED asleep
     \/ \E u \in asleep : asleep' = asleep \ {u}
  /\ UNCHANGED <<build, mutex, active, c_waiting, at, timed, count_seen, owed>>

\* Mutant: the signal that is enough for one waiter is sent for two.
NotifyOne(count) ==
  IF count \in {1, 2} /\ asleep # {}
    THEN \E u \in asleep : asleep' = asleep \ {u}
    ELSE asleep' = {}

(* The second half of ocoms_condition_broadcast: with one waiter, signal.  *)
Notify(count) ==
  IF count = 1 /\ asleep # {}
    THEN \E u \in asleep : asleep' = asleep \ {u}
    ELSE asleep' = {}

(* OCOMS_RELEASE_THREAD: the flag, the broadcast and the unlock.  It owes  *)
(* a wake-up to every thread inside the wait.                              *)
ReleaseThread(t) ==
  /\ at[t] = "held"
  /\ active' = FALSE
  /\ c_signaled' = c_waiting
  /\ Notify(c_waiting)
  /\ owed' = owed \cup (IF build.sleeps THEN asleep
                         ELSE {u \in CondThreads : at[u] = "wait"})
  /\ mutex' = "nobody"
  /\ at' = [at EXCEPT ![t] = "idle"]
  /\ UNCHANGED <<build, c_waiting, timed, count_seen>>

(* The holder of the resource lets go of the mutex, and takes it again.    *)
LetGo(t) ==
  /\ at[t] = "held"
  /\ mutex' = "nobody"
  /\ at' = [at EXCEPT ![t] = "using"]
  /\ UNCHANGED <<build, active, c_waiting, c_signaled, asleep, timed, count_seen,
                 owed>>

Relock(t) ==
  /\ Locks(t, "using", "held")
  /\ UNCHANGED <<build, active, c_waiting, c_signaled, asleep, timed, count_seen,
                 owed>>

(* OCOMS_WAKEUP_THREAD, called by the thread that uses the resource.       *)
WakeupFlag(t) ==
  /\ build.wakeup
  /\ at[t] = "using"
  /\ active' = FALSE
  /\ at' = [at EXCEPT ![t] = "wakeup"]
  /\ UNCHANGED <<build, mutex, c_waiting, c_signaled, asleep, timed, count_seen,
                 owed>>

(* c_signaled = c_waiting, a read and a store.                             *)
WakeupRead(t) ==
  /\ at[t] = "wakeup"
  /\ count_seen' = [count_seen EXCEPT ![t] = c_waiting]
  /\ at' = [at EXCEPT ![t] = "store"]
  /\ UNCHANGED <<build, mutex, active, c_waiting, c_signaled, asleep, timed,
                 owed>>

WakeupStore(t) ==
  /\ at[t] = "store"
  /\ c_signaled' = count_seen[t]
  /\ at' = [at EXCEPT ![t] = "look"]
  /\ UNCHANGED <<build, mutex, active, c_waiting, asleep, timed, count_seen, owed>>

(* The comparison with 1 reads c_waiting again, and what is then sent      *)
(* depends on what it was.                                                 *)
WakeupLook(t) ==
  /\ at[t] = "look"
  /\ count_seen' = [count_seen EXCEPT ![t] = c_waiting]
  /\ at' = [at EXCEPT ![t] = "notify"]
  /\ UNCHANGED <<build, mutex, active, c_waiting, c_signaled, asleep, timed,
                 owed>>

WakeupNotify(t) ==
  /\ at[t] = "notify"
  /\ Notify(count_seen[t])
  /\ count_seen' = [count_seen EXCEPT ![t] = 0]
  /\ at' = [at EXCEPT ![t] = "idle"]
  /\ UNCHANGED <<build, mutex, active, c_waiting, c_signaled, timed, owed>>

CondNext ==
  \E t \in CondThreads :
    \/ Acquire(t) \/ AcquireTimed(t) \/ Take(t) \/ MustWait(t) \/ EnterWait(t)
    \/ Sleep(t) \/ Poll(t) \/ PollAgain(t) \/ SpuriousOrTimeout(t)
    \/ Wake(t) \/ Leave(t) \/ Signal(t) \/ ReleaseThread(t)
    \/ LetGo(t) \/ Relock(t)
    \/ WakeupFlag(t) \/ WakeupRead(t) \/ WakeupStore(t) \/ WakeupLook(t)
    \/ WakeupNotify(t)

CondSpec == CondInit /\ [][CondNext]_condVars

-----------------------------------------------------------------------------
(* The resource that the macros hand around, by a flag set under the mutex *)
(* and cleared with or without it, has one user at a time, and the flag    *)
(* is set exactly as long as it has one.                                   *)
ResourceIsExclusive ==
  LET users == {t \in CondThreads : at[t] \in {"held", "using"}}
  IN  Cardinality(users) = (IF active THEN 1 ELSE 0)

(* c_waiting, which decides how many a broadcast wakes, counts the threads *)
(* inside the wait.                                                        *)
Waiting == {t \in CondThreads : at[t] \in {"counted", "wait", "leave"}}
WaitersAreCounted == c_waiting = Cardinality(Waiting)

(* OCOMS_RELEASE_THREAD lets every waiter go: none that slept when it was  *)
(* called is still in that sleep, though with one waiter counted only one  *)
(* is signalled, and each poller finds a signal left, though waiters that  *)
(* came later and waiters of single signals take theirs from the same      *)
(* counter.                                                                *)
ReleaseReachesAll ==
  IF build.sleeps THEN owed \cap asleep = {}
                  ELSE Cardinality(owed) <= c_signaled

(* While the resource is free no thread is left waiting for it: none is    *)
(* asleep, and there is a signal for each that polls.  A program that      *)
(* frees it without the mutex, by OCOMS_WAKEUP_THREAD, is promised nothing *)
(* of the kind, and does leave threads asleep.                             *)
NobodyIsStranded ==
  ~active /\ ~build.wakeup =>
    IF build.sleeps THEN asleep = {} ELSE c_waiting <= c_signaled

(* No broadcast under the mutex misses a waiter, in any of these ways.     *)
BroadcastReachesAll ==
  /\ WaitersAreCounted
  /\ ResourceIsExclusive
  /\ ReleaseReachesAll
  /\ NobodyIsStranded
====
