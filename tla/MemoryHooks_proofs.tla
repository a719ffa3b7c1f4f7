------------------------- MODULE MemoryHooks_proofs -------------------------
(***************************************************************************)
(* A walk of the release hooks reaches what was registered before it, for  *)
(* any number of threads, functions and items, until an item leaves the    *)
(* list during the walk.                                                   *)
(*                                                                         *)
(* The invariant is where a walk is in the list (WalkOK): it has called    *)
(* the functions of the first items in order, and the pointer it goes on   *)
(* from is the item after them, or the end of a list that had all that was *)
(* there at the start.  The list only grows at its end while that pointer  *)
(* is kept, and what others allocate and free is not on it (OwnersOK).     *)
(***************************************************************************)
EXTENDS MemoryHooks, FiniteSetTheorems, SequenceTheorems, TLAPS

Walkers ==
  [at : {"idle", "first", "firstlocked", "call", "relock", "locked", "ended",
         "register", "registerlocked", "remove", "free", "finalize", "empty"},
   item : Cells \cup {End}, cbitem : Cells \cup {End},
   func : Functions \cup {NoFunction}, start : SUBSET Functions,
   called : Seq(Functions), disturbed : BOOLEAN]

\* A thread with an item of its own, not on the list yet or not any more.
Owns(w) == w.at \in {"register", "registerlocked", "free"}
Count == Len(release_cb_list)
FunctionAt(k) == cbfunc[release_cb_list[k]]

TypeOK ==
  /\ walker \in [HookThreads -> Walkers]
  /\ DOMAIN cbfunc \subseteq Cells
  /\ \A i \in Allocated : cbfunc[i] \in Functions
  /\ release_cb_list \in Seq(Cells)

ListOK ==
  /\ \A j \in 1..Count : release_cb_list[j] \in Allocated
  /\ \A j, k \in 1..Count : FunctionAt(j) = FunctionAt(k) => j = k

OwnersOK ==
  \A t \in HookThreads : Owns(walker[t]) =>
     /\ walker[t].item \in Allocated
     /\ \A k \in 1..Count : release_cb_list[k] # walker[t].item
     /\ \A u \in HookThreads :
          Owns(walker[u]) /\ walker[u].item = walker[t].item => u = t

\* The walk w has called the first k functions.
CalledUpTo(w, k) ==
  /\ Len(w.called) = k
  /\ \A j \in 1..k : w.called[j] = FunctionAt(j)

\* Its pointer is that of item k + 1, or was the end when it was read.
GoesOnAfter(w, k) ==
  \/ /\ w.item = End
     /\ \A f \in w.start : \E j \in 1..k : f = FunctionAt(j)
  \/ /\ k < Count /\ w.item = release_cb_list[k + 1]
     /\ \A f \in w.start : \E j \in 1..Count : f = FunctionAt(j)

Calling(w) ==
  \E k \in 1..Count : /\ w.cbitem = release_cb_list[k]
                      /\ CalledUpTo(w, k - 1) /\ GoesOnAfter(w, k)
Between(w) ==
  \E k \in 1..Count : CalledUpTo(w, k) /\ GoesOnAfter(w, k)

\* A walk that is over no longer depends on the list.
Ended(w) ==
  /\ \A f \in w.start : \E j \in 1..Len(w.called) : f = w.called[j]
  /\ \A j, k \in 1..Len(w.called) : w.called[j] = w.called[k] => j = k

WalkOK(w) ==
  /\ w.at \in {"first", "firstlocked"} => ~w.disturbed /\ w.called = <<>>
  /\ w.at = "call" /\ ~w.disturbed => Calling(w)
  /\ w.at \in {"relock", "locked"} /\ ~w.disturbed => Between(w)
  /\ w.at = "ended" /\ ~w.disturbed => Ended(w)

MishapsOK ==
  \A m \in mishaps : m[1] \in {"stale next", "stale item"} => m[2] = TRUE

WalksOK == \A t \in HookThreads, w \in Walkers : w = walker[t] => WalkOK(w)

IInv == TypeOK /\ ListOK /\ OwnersOK /\ WalksOK /\ MishapsOK

-----------------------------------------------------------------------------
\* The list grows at its end at most, and keeps the functions of its items.
Grows ==
  /\ Count <= Count'
  /\ \A k \in 1..Count : /\ release_cb_list'[k] = release_cb_list[k]
                         /\ FunctionAt(k)' = FunctionAt(k)

\* A walk that does not move is where it was in a list that grows.
LEMMA WalkKept ==
  ASSUME Grows, Count \in Nat, Count' \in Nat, NEW w, WalkOK(w)
  PROVE  WalkOK(w)'
  <1>1. ASSUME NEW k \in 0..Count, CalledUpTo(w, k)
        PROVE  CalledUpTo(w, k)'
    BY <1>1 DEF CalledUpTo, Grows
  <1>2. ASSUME NEW k \in 1..Count, GoesOnAfter(w, k)
        PROVE  GoesOnAfter(w, k)'
    <2>1. CASE w.item = End /\ \A f \in w.start : \E j \in 1..k : f = FunctionAt(j)
      BY <2>1 DEF GoesOnAfter, Grows
    <2>2. CASE /\ k < Count /\ w.item = release_cb_list[k + 1]
               /\ \A f \in w.start : \E j \in 1..Count : f = FunctionAt(j)
      <3>1. k < Count' /\ w.item = release_cb_list'[k + 1]
        BY <2>2 DEF Grows
      <3>2. \A f \in w.start : \E j \in 1..Count' : f = FunctionAt(j)'
        BY <2>2 DEF Grows
      <3>. QED
        BY <3>1, <3>2 DEF GoesOnAfter
    <2>. QED
      BY <1>2, <2>1, <2>2 DEF GoesOnAfter
  <1>3. Calling(w) => Calling(w)'
    <2>1. ASSUME NEW k \in 1..Count, w.cbitem = release_cb_list[k],
                 CalledUpTo(w, k - 1), GoesOnAfter(w, k)
          PROVE  /\ k \in 1..Count' /\ w.cbitem = release_cb_list'[k]
                 /\ CalledUpTo(w, k - 1)' /\ GoesOnAfter(w, k)'
      BY <1>1, <1>2, <2>1 DEF Grows
    <2>. QED
      BY <2>1 DEF Calling
  <1>4. Between(w) => Between(w)'
    <2>1. ASSUME NEW k \in 1..Count, CalledUpTo(w, k), GoesOnAfter(w, k)
          PROVE  k \in 1..Count' /\ CalledUpTo(w, k)' /\ GoesOnAfter(w, k)'
      BY <1>1, <1>2, <2>1 DEF Grows
    <2>. QED
      BY <2>1 DEF Between
  <1>. QED
    BY <1>3, <1>4 DEF WalkOK, Ended

\* What the next pointer of an item on the list says.
LEMMA FollowingItem ==
  ASSUME TypeOK, ListOK, NEW k \in 1..Count
  PROVE  Following(release_cb_list[k]) =
           IF k = Count THEN End ELSE release_cb_list[k + 1]
  <1>1. DOMAIN release_cb_list = 1..Count
    BY DEF TypeOK, Count
  <1>2. release_cb_list[k] \in ToSet(release_cb_list)
    BY <1>1 DEF ToSet
  <1>3. \A j \in 1..Count : release_cb_list[j] = release_cb_list[k] => j = k
    BY DEF ListOK, FunctionAt
  <1>. DEFINE n == CHOOSE j \in DOMAIN release_cb_list :
                    release_cb_list[j] = release_cb_list[k]
  <1>4. n = k
    BY <1>1, <1>3
  <1>5. Following(release_cb_list[k]) =
          IF n = Len(release_cb_list) THEN End ELSE release_cb_list[n + 1]
    BY <1>2 DEF Following
  <1>. QED
    BY <1>4, <1>5 DEF Count

LEMMA InitInv == ASSUME HookInit PROVE IInv
  <1>1. Idle \in Walkers
    BY DEF Idle, Walkers
  <1>2. release_cb_list \in Seq(Cells) /\ Count = 0 /\ DOMAIN cbfunc = {}
    BY DEF HookInit, Count
  <1>3. TypeOK
    BY <1>1, <1>2 DEF HookInit, TypeOK, Allocated
  <1>4. ListOK
    BY <1>2 DEF ListOK
  <1>5. \A t \in HookThreads : walker[t].at = "idle"
    BY DEF HookInit, Idle
  <1>. QED
    BY <1>3, <1>4, <1>5 DEF IInv, OwnersOK, Owns, WalksOK, WalkOK, MishapsOK, HookInit

\* The walks that do not move, in a list that grows.
LEMMA WalksStep ==
  ASSUME IInv, TypeOK', Grows,
         \A u \in HookThreads, v \in Walkers :
            v = walker'[u] => v = walker[u] \/ WalkOK(v)'
  PROVE  WalksOK'
  <1>1. Count \in Nat /\ Count' \in Nat
    BY DEF Count, IInv, TypeOK
  <1>2. ASSUME NEW u \in HookThreads, NEW v \in Walkers, v = walker'[u], v = walker[u]
        PROVE  WalkOK(v)'
    BY <1>1, <1>2, WalkKept DEF IInv, WalksOK
  <1>. QED
    BY <1>2 DEF WalksOK

\* A step of thread t that touches neither the list nor the items.
LEMMA ThreadStep ==
  ASSUME IInv, NEW t \in HookThreads, NEW w \in Walkers,
         walker' = [walker EXCEPT ![t] = w], WalkOK(w),
         Owns(w) => Owns(walker[t]) /\ w.item = walker[t].item,
         UNCHANGED <<release_cb_list, cbfunc>>, MishapsOK'
  PROVE  IInv'
  <1>. IInv /\ walker \in [HookThreads -> Walkers]
    BY DEF IInv, TypeOK
  <1>1. /\ walker' \in [HookThreads -> Walkers] /\ walker'[t] = w
        /\ \A u \in HookThreads : u # t => walker'[u] = walker[u]
    OBVIOUS
  <1>2. TypeOK' /\ ListOK'
    BY <1>1 DEF IInv, TypeOK, ListOK, Count, FunctionAt, Allocated
  <1>3. OwnersOK'
    <2>1. \A u \in HookThreads : Owns(walker'[u]) =>
             Owns(walker[u]) /\ walker'[u].item = walker[u].item
      BY <1>1
    <2>. QED
      BY <2>1 DEF IInv, OwnersOK, Count, Allocated, Owns
  <1>4. Grows
    BY DEF Grows, Count, FunctionAt, IInv, TypeOK
  <1>5. WalkOK(w)'
    BY <1>4, WalkKept DEF Count, IInv, TypeOK
  <1>6. WalksOK'
    BY <1>1, <1>2, <1>4, <1>5, WalksStep
  <1>. QED
    BY <1>2, <1>3, <1>6 DEF IInv

\* What happens to a walk that was disturbed is allowed for.
LEMMA MishapAdded ==
  ASSUME MishapsOK, NEW kind, NEW disturbed \in BOOLEAN, disturbed,
         mishaps' = mishaps \/ mishaps' = mishaps \cup {<<kind, disturbed>>}
  PROVE  MishapsOK'
  <1>1. disturbed = TRUE
    OBVIOUS
  <1>2. \/ mishaps' = mishaps
        \/ mishaps' = mishaps \cup {<<kind, TRUE>>}
    BY <1>1, Zenon
  <1>3. <<kind, TRUE>>[2] = TRUE
    OBVIOUS
  <1>4. PICK bad : bad = <<kind, TRUE>>
    OBVIOUS
  <1>5. bad[2] = TRUE
    BY <1>3, <1>4
  <1>6. \A m \in mishaps' : m \in mishaps \/ m = bad
    BY <1>2, <1>4
  <1>. QED
    BY <1>5, <1>6 DEF MishapsOK

-----------------------------------------------------------------------------
(* The walk *)

LEMMA FollowingType ==
  ASSUME TypeOK, NEW i
  PROVE  Following(i) \in Cells \cup {End}
  <1>. DEFINE n == CHOOSE k \in DOMAIN release_cb_list : release_cb_list[k] = i
  <1>1. CASE i \in ToSet(release_cb_list)
    <2>1. n \in 1..Len(release_cb_list)
      BY <1>1 DEF ToSet, TypeOK
    <2>2. Following(i) = IF n = Len(release_cb_list) THEN End
                         ELSE release_cb_list[n + 1]
      BY <1>1 DEF Following
    <2>3. n # Len(release_cb_list) => release_cb_list[n + 1] \in Cells
      <3>. HIDE DEF n
      <3>. QED
        BY <2>1 DEF TypeOK
    <2>. QED
      BY <2>2, <2>3
  <1>. QED
    BY <1>1 DEF Following

\* One turn of the walk of t, which goes on with an item if it has one.
LEMMA TurnStep ==
  ASSUME IInv, NEW t \in HookThreads,
         NEW item \in Cells \cup {End}, NEW start \in SUBSET Functions,
         Turn(t, item, start),
         NEW v, v = walker[t],
         ~v.disturbed /\ item = End =>
            Ended([v EXCEPT !.start = start]),
         ~v.disturbed /\ item # End =>
            \E k \in 1..Count :
               /\ item = release_cb_list[k] /\ CalledUpTo(v, k - 1)
               /\ \A f \in start : \E j \in 1..Count : f = FunctionAt(j)
  PROVE  IInv'
  <1>1. /\ v \in Walkers /\ TypeOK /\ ListOK /\ MishapsOK
        /\ UNCHANGED <<release_cb_list, cbfunc>>
    BY DEF IInv, TypeOK, Turn
  <1>2. CASE item = End
    <2>1. PICK w : w = [v EXCEPT !.at = "ended", !.start = start]
      OBVIOUS
    <2>2. walker' = [walker EXCEPT ![t] = w] /\ UNCHANGED mishaps
      BY <1>1, <1>2, <2>1 DEF Turn, TypeOK
    <2>3. /\ w \in Walkers /\ w.at = "ended" /\ w.disturbed = v.disturbed
          /\ w.start = start /\ w.called = v.called
      BY <1>1, <2>1 DEF Walkers
    <2>4. ~w.disturbed => Ended(w)
      <3>1. /\ [v EXCEPT !.start = start].start = start
            /\ [v EXCEPT !.start = start].called = v.called
        BY <1>1 DEF Walkers
      <3>. QED
        BY <1>2, <2>3, <3>1 DEF Ended
    <2>5. WalkOK(w) /\ ~Owns(w)
      BY <2>3, <2>4 DEF WalkOK, Owns
    <2>. QED
      BY <1>1, <2>2, <2>3, <2>5, ThreadStep DEF MishapsOK
  <1>3. CASE item # End
    <2>1. PICK w : w = [v EXCEPT !.at = "call", !.cbitem = item,
                                 !.item = Following(item), !.start = start]
      OBVIOUS
    <2>2. walker' = [walker EXCEPT ![t] = w]
      BY <1>3, <2>1 DEF Turn
    <2>3. /\ w \in Walkers /\ w.at = "call" /\ w.disturbed = v.disturbed
          /\ w.cbitem = item /\ w.item = Following(item)
          /\ w.start = start /\ w.called = v.called
      BY <1>1, <2>1, FollowingType DEF Walkers
    <2>4. ASSUME ~v.disturbed
          PROVE  Calling(w) /\ item \in Allocated
      <3>1. PICK k \in 1..Count :
                /\ item = release_cb_list[k] /\ CalledUpTo(v, k - 1)
                /\ \A f \in start : \E j \in 1..Count : f = FunctionAt(j)
        BY <1>3, <2>4
      <3>2. Following(item) = IF k = Count THEN End ELSE release_cb_list[k + 1]
        BY <1>1, <3>1, FollowingItem
      <3>3. Count \in Nat
        BY <1>1 DEF Count, TypeOK
      <3>4. GoesOnAfter(w, k)
        BY <2>3, <3>1, <3>2, <3>3 DEF GoesOnAfter
      <3>5. CalledUpTo(w, k - 1)
        BY <2>3, <3>1 DEF CalledUpTo
      <3>. QED
        BY <1>1, <2>3, <3>1, <3>4, <3>5 DEF Calling, ListOK
    <2>5. WalkOK(w) /\ ~Owns(w)
      BY <2>3, <2>4 DEF WalkOK, Owns
    <2>6. MishapsOK'
      <3>1. v.disturbed \/ item \in Allocated
        BY <2>4
      <3>2. \/ mishaps' = mishaps
            \/ v.disturbed /\ mishaps' = mishaps \cup {<<"stale next", v.disturbed>>}
        BY <1>3, <3>1 DEF Turn
      <3>3. CASE v.disturbed
        <4>1. v.disturbed \in BOOLEAN
          BY <1>1 DEF Walkers
        <4>. QED
          BY <1>1, <3>2, <3>3, <4>1, MishapAdded
      <3>. QED
        BY <1>1, <3>2, <3>3 DEF MishapsOK
    <2>. QED
      BY <1>1, <2>2, <2>3, <2>5, <2>6, ThreadStep
  <1>. QED
    BY <1>2, <1>3

\* The first turn starts from the first item and from all that is registered.
LEMMA WalkFirstStep ==
  ASSUME IInv, NEW t \in HookThreads, WalkFirst(t)
  PROVE  IInv'
  <1>. DEFINE item == IF release_cb_list = <<>> THEN End ELSE Head(release_cb_list)
  <1>1. PICK v \in Walkers : v = walker[t]
    BY DEF IInv, TypeOK
  <1>2. /\ TypeOK /\ ListOK /\ WalkOK(v) /\ v.at = "firstlocked"
        /\ ~v.disturbed /\ v.called = <<>>
    BY <1>1 DEF IInv, WalksOK, WalkFirst, WalkOK
  <1>3. Count \in Nat /\ DOMAIN release_cb_list = 1..Count
    BY <1>2 DEF TypeOK, Count
  <1>4. \A f \in Registered : \E j \in 1..Count : f = FunctionAt(j)
    BY <1>3 DEF Registered, ToSet, FunctionAt
  <1>5. Registered \in SUBSET Functions
    BY <1>2, <1>4 DEF ListOK, TypeOK, FunctionAt
  <1>6. CASE Count = 0
    <2>1. item = End /\ Registered = {}
      BY <1>2, <1>4, <1>6 DEF TypeOK, Count
    <2>2. Ended([v EXCEPT !.start = {}])
      BY <1>2 DEF Ended, Walkers
    <2>. QED
      BY <1>1, <1>5, <2>1, <2>2, TurnStep DEF WalkFirst
  <1>7. CASE Count # 0
    <2>1. item = release_cb_list[1] /\ item \in Cells /\ item # End /\ 1 \in 1..Count
      BY <1>2, <1>3, <1>7, HooksAssumption DEF TypeOK, Count
    <2>2. CalledUpTo(v, 1 - 1)
      BY <1>2 DEF CalledUpTo
    <2>. HIDE DEF item
    <2>3. \E k \in 1..Count :
             /\ item = release_cb_list[k] /\ CalledUpTo(v, k - 1)
             /\ \A f \in Registered : \E j \in 1..Count : f = FunctionAt(j)
      BY <1>4, <2>1, <2>2
    <2>4. Turn(t, item, Registered)
      BY DEF WalkFirst, item
    <2>. QED
      BY <1>1, <1>5, <2>1, <2>3, <2>4, TurnStep
  <1>. QED
    BY <1>6, <1>7

\* The others go on from where the walk is in the list.
LEMMA WalkNextStep ==
  ASSUME IInv, NEW t \in HookThreads, WalkNext(t)
  PROVE  IInv'
  <1>1. PICK v \in Walkers : v = walker[t]
    BY DEF IInv, TypeOK
  <1>2. /\ TypeOK /\ ListOK /\ WalkOK(v) /\ v.at = "locked"
        /\ Turn(t, v.item, v.start)
    BY <1>1 DEF IInv, WalksOK, WalkNext
  <1>3. Count \in Nat /\ v.item \in Cells \cup {End} /\ v.start \in SUBSET Functions
    BY <1>2, <1>1 DEF TypeOK, Count, Walkers
  <1>4. ASSUME ~v.disturbed, v.item = End
        PROVE  Ended([v EXCEPT !.start = v.start])
    <2>1. PICK k \in 1..Count : CalledUpTo(v, k) /\ GoesOnAfter(v, k)
      BY <1>2, <1>4 DEF WalkOK, Between
    <2>2. \A f \in v.start : \E j \in 1..k : f = FunctionAt(j)
      <3>1. \A j \in 1..Count : release_cb_list[j] # End
        BY <1>2, HooksAssumption DEF TypeOK, Count
      <3>. QED
        BY <1>3, <1>4, <2>1, <3>1 DEF GoesOnAfter
    <2>3. Ended(v)
      BY <1>2, <1>3, <2>1, <2>2 DEF CalledUpTo, Ended, ListOK
    <2>. QED
      BY <1>1, <2>3 DEF Ended, Walkers
  <1>5. ASSUME ~v.disturbed, v.item # End
        PROVE  \E k \in 1..Count :
                  /\ v.item = release_cb_list[k] /\ CalledUpTo(v, k - 1)
                  /\ \A f \in v.start : \E j \in 1..Count : f = FunctionAt(j)
    <2>1. PICK k \in 1..Count : CalledUpTo(v, k) /\ GoesOnAfter(v, k)
      BY <1>2, <1>5 DEF WalkOK, Between
    <2>2. /\ k < Count /\ v.item = release_cb_list[k + 1]
          /\ \A f \in v.start : \E j \in 1..Count : f = FunctionAt(j)
      BY <1>5, <2>1 DEF GoesOnAfter
    <2>3. k + 1 \in 1..Count /\ (k + 1) - 1 = k
      BY <1>3, <2>2
    <2>4. CalledUpTo(v, (k + 1) - 1)
      BY <2>1, <2>3
    <2>. QED
      BY <2>2, <2>3, <2>4
  <1>. QED
    BY <1>1, <1>2, <1>3, <1>4, <1>5, TurnStep

\* The callback is that of the item, unless an item left the list.
LEMMA WalkCallStep ==
  ASSUME IInv, NEW t \in HookThreads, WalkCall(t)
  PROVE  IInv'
  <1>1. PICK v \in Walkers : v = walker[t]
    BY DEF IInv, TypeOK
  <1>2. /\ TypeOK /\ ListOK /\ MishapsOK /\ WalkOK(v) /\ v.at = "call"
        /\ UNCHANGED <<release_cb_list, cbfunc>>
    BY <1>1 DEF IInv, WalksOK, WalkCall
  <1>3. Count \in Nat
    BY <1>2 DEF TypeOK, Count
  <1>4. CASE v.cbitem \in Allocated
    <2>0. PICK called \in Seq(Functions) :
             called = IF v.disturbed THEN v.called
                      ELSE Append(v.called, cbfunc[v.cbitem])
      <3>1. v.called \in Seq(Functions)
        BY DEF Walkers
      <3>2. Append(v.called, cbfunc[v.cbitem]) \in Seq(Functions)
        BY <1>2, <1>4, <3>1 DEF TypeOK
      <3>. QED
        BY <3>1, <3>2
    <2>1. PICK w : w = [v EXCEPT !.at = "relock", !.called = called]
      OBVIOUS
    <2>2. walker' = [walker EXCEPT ![t] = w] /\ UNCHANGED mishaps
      BY <1>1, <1>2, <1>4, <2>0, <2>1 DEF WalkCall, TypeOK
    <2>3. /\ w \in Walkers /\ w.at = "relock" /\ w.disturbed = v.disturbed
          /\ w.item = v.item /\ w.start = v.start
          /\ ~v.disturbed => w.called = Append(v.called, cbfunc[v.cbitem])
      BY <2>0, <2>1 DEF Walkers
    <2>4. ASSUME ~v.disturbed
          PROVE  Between(w)
      <3>1. PICK k \in 1..Count : /\ v.cbitem = release_cb_list[k]
                                  /\ CalledUpTo(v, k - 1) /\ GoesOnAfter(v, k)
        BY <1>2, <2>4 DEF WalkOK, Calling
      <3>2. GoesOnAfter(w, k)
        BY <2>3, <3>1 DEF GoesOnAfter
      <3>3. v.called \in Seq(Functions) /\ Len(v.called) = k - 1
        BY <3>1 DEF Walkers, CalledUpTo
      <3>4. Len(w.called) = k
        BY <1>3, <2>3, <2>4, <3>3
      <3>5. \A j \in 1..k : w.called[j] = IF j = k THEN cbfunc[v.cbitem] ELSE v.called[j]
        BY <1>3, <2>3, <2>4, <3>3
      <3>6. CalledUpTo(w, k)
        BY <1>3, <3>1, <3>4, <3>5 DEF CalledUpTo, FunctionAt
      <3>. QED
        BY <3>2, <3>6 DEF Between
    <2>5. WalkOK(w) /\ ~Owns(w)
      BY <2>3, <2>4 DEF WalkOK, Owns
    <2>. QED
      BY <1>2, <2>2, <2>3, <2>5, ThreadStep DEF MishapsOK
  <1>5. CASE v.cbitem \notin Allocated
    <2>1. v.disturbed /\ v.disturbed \in BOOLEAN
      BY <1>2, <1>5 DEF WalkOK, Calling, ListOK, Walkers
    <2>2. PICK w : w = [v EXCEPT !.at = "relock"]
      OBVIOUS
    <2>3. /\ walker' = [walker EXCEPT ![t] = w]
          /\ mishaps' = mishaps \cup {<<"stale item", v.disturbed>>}
      BY <1>1, <1>2, <1>5, <2>2 DEF WalkCall, TypeOK
    <2>4. w \in Walkers /\ w.at = "relock" /\ w.disturbed = v.disturbed
      BY <2>2 DEF Walkers
    <2>5. WalkOK(w) /\ ~Owns(w)
      BY <2>1, <2>4 DEF WalkOK, Owns
    <2>6. MishapsOK'
      BY <1>2, <2>1, <2>3, MishapAdded
    <2>. QED
      BY <1>2, <2>3, <2>4, <2>5, <2>6, ThreadStep
  <1>. QED
    BY <1>4, <1>5

-----------------------------------------------------------------------------
(* The list *)

\* A thread that comes into the possession of an item i that is on no list and
\* that nobody else has, or gives its own up; the others walk on.
LEMMA ItemStep ==
  ASSUME IInv, NEW t \in HookThreads, NEW w \in Walkers,
         walker' = [walker EXCEPT ![t] = w],
         w.at \in {"idle", "register"},
         Owns(w) => /\ w.item \in Allocated'
                    /\ \A k \in 1..Count' : release_cb_list'[k] # w.item
                    /\ \A u \in HookThreads :
                          u # t /\ Owns(walker[u]) => walker[u].item # w.item,
         DOMAIN cbfunc' \subseteq Cells,
         \A i \in Allocated' : cbfunc'[i] \in Functions,
         release_cb_list' \in Seq(Cells), Grows, ListOK',
         \A u \in HookThreads :
            u # t /\ Owns(walker[u]) =>
               /\ walker[u].item \in Allocated'
               /\ \A k \in 1..Count' : release_cb_list'[k] # walker[u].item,
         UNCHANGED mishaps
  PROVE  IInv'
  <1>. IInv /\ walker \in [HookThreads -> Walkers]
    BY DEF IInv, TypeOK
  <1>1. /\ walker' \in [HookThreads -> Walkers] /\ walker'[t] = w
        /\ \A u \in HookThreads : u # t => walker'[u] = walker[u]
    OBVIOUS
  <1>2. TypeOK' /\ MishapsOK'
    BY <1>1 DEF IInv, TypeOK, MishapsOK
  <1>3. OwnersOK'
    BY <1>1 DEF IInv, OwnersOK, Owns
  <1>4. WalkOK(w)'
    BY DEF WalkOK
  <1>5. WalksOK'
    BY <1>1, <1>2, <1>4, WalksStep
  <1>. QED
    BY <1>2, <1>3, <1>5 DEF IInv

LEMMA RegisterReleaseStep ==
  ASSUME IInv, NEW t \in HookThreads, NEW f \in Functions, RegisterRelease(t, f)
  PROVE  IInv'
  <1>1. PICK i \in Cells \ Allocated :
          /\ cbfunc' = [j \in Allocated \cup {i} |-> IF j = i THEN f ELSE cbfunc[j]]
          /\ walker' = [walker EXCEPT ![t] = [Idle EXCEPT !.at = "register", !.item = i]]
    BY DEF RegisterRelease
  <1>2. PICK w \in Walkers : w = [Idle EXCEPT !.at = "register", !.item = i]
    <2>1. Idle \in Walkers
      BY DEF Walkers, Idle
    <2>2. [Idle EXCEPT !.at = "register", !.item = i] \in Walkers
      BY <2>1 DEF Walkers
    <2>. QED
      BY <2>2
  <1>3. w.at = "register" /\ w.item = i
    BY <1>2 DEF Idle
  <1>4. /\ UNCHANGED <<release_cb_list, mishaps>>
        /\ TypeOK /\ ListOK /\ OwnersOK
    BY DEF RegisterRelease, IInv
  <1>5. /\ Allocated' = Allocated \cup {i} /\ cbfunc'[i] = f
        /\ \A j \in Allocated : cbfunc'[j] = cbfunc[j]
    BY <1>1 DEF Allocated
  <1>6. /\ Grows /\ ListOK'
        /\ \A k \in 1..Count' : release_cb_list'[k] # i
    BY <1>1, <1>4, <1>5 DEF Grows, ListOK, TypeOK, Count, FunctionAt
  <1>7. /\ DOMAIN cbfunc' \subseteq Cells
        /\ \A j \in Allocated' : cbfunc'[j] \in Functions
        /\ release_cb_list' \in Seq(Cells)
    BY <1>1, <1>4, <1>5 DEF TypeOK, Allocated
  <1>8. \A u \in HookThreads : Owns(walker[u]) =>
           /\ walker[u].item \in Allocated' /\ walker[u].item # i
           /\ \A k \in 1..Count' : release_cb_list'[k] # walker[u].item
    BY <1>1, <1>4, <1>5 DEF OwnersOK, Count
  <1>9. /\ w.item \in Allocated' /\ \A k \in 1..Count' : release_cb_list'[k] # w.item
        /\ \A u \in HookThreads : u # t /\ Owns(walker[u]) => walker[u].item # w.item
    BY <1>3, <1>5, <1>6, <1>8
  <1>10. walker' = [walker EXCEPT ![t] = w] /\ UNCHANGED mishaps
    BY <1>1, <1>2, <1>4
  <1>. QED
    BY <1>3, <1>6, <1>7, <1>8, <1>9, <1>10, ItemStep

\* The function goes on the list, or is there and its second item is freed.
LEMMA RegisterAppendStep ==
  ASSUME IInv, NEW t \in HookThreads, RegisterAppend(t)
  PROVE  IInv'
  <1>1. PICK i \in Cells : i = walker[t].item
    BY DEF RegisterAppend, IInv, TypeOK, OwnersOK, Owns, Allocated
  <1>2. /\ Owns(walker[t]) /\ UNCHANGED mishaps
        /\ TypeOK /\ ListOK /\ OwnersOK
        /\ walker' = [walker EXCEPT ![t] = Idle]
    BY DEF RegisterAppend, IInv, Owns
  <1>3. Idle \in Walkers /\ Idle.at = "idle" /\ ~Owns(Idle)
    BY DEF Idle, Walkers, Owns
  <1>4. /\ i \in Allocated
        /\ \A k \in 1..Count : release_cb_list[k] # i
        /\ \A u \in HookThreads : u # t /\ Owns(walker[u]) => walker[u].item # i
    BY <1>1, <1>2 DEF OwnersOK
  <1>5. CASE cbfunc[i] \in Registered
    <2>1. UNCHANGED release_cb_list /\ cbfunc' = Freed(i)
      BY <1>1, <1>5 DEF RegisterAppend
    <2>2. /\ Allocated' = Allocated \ {i}
          /\ \A j \in Allocated' : cbfunc'[j] = cbfunc[j]
      BY <2>1 DEF Freed, Allocated
    <2>3. Grows /\ ListOK'
      BY <1>2, <1>4, <2>1, <2>2 DEF Grows, ListOK, TypeOK, Count, FunctionAt
    <2>4. /\ DOMAIN cbfunc' \subseteq Cells
          /\ \A j \in Allocated' : cbfunc'[j] \in Functions
          /\ release_cb_list' \in Seq(Cells)
      BY <1>2, <2>1, <2>2 DEF TypeOK, Allocated
    <2>5. \A u \in HookThreads : u # t /\ Owns(walker[u]) =>
             /\ walker[u].item \in Allocated'
             /\ \A k \in 1..Count' : release_cb_list'[k] # walker[u].item
      BY <1>2, <1>4, <2>1, <2>2 DEF OwnersOK, Count
    <2>. QED
      BY <1>2, <1>3, <2>3, <2>4, <2>5, ItemStep
  <1>6. CASE cbfunc[i] \notin Registered
    <2>1. release_cb_list' = Append(release_cb_list, i) /\ UNCHANGED cbfunc
      BY <1>1, <1>6 DEF RegisterAppend
    <2>2. /\ Count \in Nat /\ Count' = Count + 1
          /\ release_cb_list' \in Seq(Cells)
          /\ release_cb_list'[Count + 1] = i
          /\ \A k \in 1..Count : release_cb_list'[k] = release_cb_list[k]
          /\ cbfunc' = cbfunc
      BY <1>2, <2>1 DEF TypeOK, Count
    <2>3. \A k \in 1..Count : FunctionAt(k) # cbfunc[i]
      BY <1>2, <1>6 DEF Registered, ToSet, FunctionAt, TypeOK, Count
    <2>4. Grows
      BY <2>2 DEF Grows, FunctionAt
    <2>5. ListOK'
      <3>1. \A j \in 1..Count' : j \in 1..Count \/ j = Count + 1
        BY <2>2
      <3>2. \A j \in 1..Count' : release_cb_list'[j] \in Allocated'
        BY <1>2, <1>4, <2>1, <2>2, <3>1 DEF ListOK, Allocated
      <3>3. \A j \in 1..Count' :
               FunctionAt(j)' = IF j = Count + 1 THEN cbfunc[i] ELSE FunctionAt(j)
        BY <2>2, <3>1 DEF FunctionAt
      <3>4. \A j, k \in 1..Count' : FunctionAt(j)' = FunctionAt(k)' => j = k
        BY <1>2, <2>3, <3>1, <3>3 DEF ListOK
      <3>. QED
        BY <3>2, <3>4 DEF ListOK
    <2>6. \A u \in HookThreads : u # t /\ Owns(walker[u]) =>
             /\ walker[u].item \in Allocated'
             /\ \A k \in 1..Count' : release_cb_list'[k] # walker[u].item
      <3>1. \A j \in 1..Count' : j \in 1..Count \/ j = Count + 1
        BY <2>2
      <3>. QED
        BY <1>2, <1>4, <2>1, <2>2, <3>1 DEF OwnersOK, Allocated
    <2>7. /\ DOMAIN cbfunc' \subseteq Cells
          /\ \A j \in Allocated' : cbfunc'[j] \in Functions
      BY <1>2, <2>1 DEF TypeOK, Allocated
    <2>. QED
      BY <1>2, <1>3, <2>2, <2>4, <2>5, <2>6, <2>7, ItemStep
  <1>. QED
    BY <1>5, <1>6

LEMMA UnregisterFreeStep ==
  ASSUME IInv, NEW t \in HookThreads, UnregisterFree(t)
  PROVE  IInv'
  <1>1. /\ Owns(walker[t]) /\ UNCHANGED <<release_cb_list, mishaps>>
        /\ TypeOK /\ ListOK /\ OwnersOK
        /\ walker' = [walker EXCEPT ![t] = Idle]
        /\ cbfunc' = Freed(walker[t].item)
    BY DEF UnregisterFree, IInv, Owns
  <1>2. Idle \in Walkers /\ Idle.at = "idle" /\ ~Owns(Idle)
    BY DEF Idle, Walkers, Owns
  <1>3. /\ Allocated' = Allocated \ {walker[t].item}
        /\ \A j \in Allocated' : cbfunc'[j] = cbfunc[j]
    BY <1>1 DEF Freed, Allocated
  <1>4. Grows /\ ListOK'
    BY <1>1, <1>3 DEF Grows, ListOK, TypeOK, Count, FunctionAt, OwnersOK
  <1>5. /\ DOMAIN cbfunc' \subseteq Cells
        /\ \A j \in Allocated' : cbfunc'[j] \in Functions
        /\ release_cb_list' \in Seq(Cells)
    BY <1>1, <1>3 DEF TypeOK, Allocated
  <1>6. \A u \in HookThreads : u # t /\ Owns(walker[u]) =>
           /\ walker[u].item \in Allocated'
           /\ \A k \in 1..Count' : release_cb_list'[k] # walker[u].item
    BY <1>1, <1>3 DEF OwnersOK, Count
  <1>. QED
    BY <1>1, <1>2, <1>4, <1>5, <1>6, ItemStep

\* Items leave the list: every walk in it is disturbed, and what follows does
\* not depend on the list.
LEMMA DisturbedStep ==
  ASSUME IInv, NEW t \in HookThreads, NEW w \in Walkers,
         walker[t].at \notin {"call", "relock", "locked"},
         walker' = Disturbed([walker EXCEPT ![t] = w]),
         w.at \in {"idle", "free"},
         Owns(w) => /\ w.item \in Allocated'
                    /\ \A k \in 1..Count' : release_cb_list'[k] # w.item
                    /\ \A u \in HookThreads :
                          u # t /\ Owns(walker[u]) => walker[u].item # w.item,
         DOMAIN cbfunc' \subseteq Cells,
         \A i \in Allocated' : cbfunc'[i] \in Functions,
         release_cb_list' \in Seq(Cells), ListOK',
         \A u \in HookThreads :
            u # t /\ Owns(walker[u]) =>
               /\ walker[u].item \in Allocated'
               /\ \A k \in 1..Count' : release_cb_list'[k] # walker[u].item,
         UNCHANGED mishaps
  PROVE  IInv'
  <1>. IInv /\ walker \in [HookThreads -> Walkers]
    BY DEF IInv, TypeOK
  <1>1. ASSUME NEW u \in HookThreads, walker[u].at \in {"call", "relock", "locked"}
        PROVE  /\ u # t /\ walker'[u] \in Walkers
               /\ walker'[u].at = walker[u].at /\ walker'[u].disturbed
    <2>1. PICK v \in Walkers : v = walker[u]
      OBVIOUS
    <2>2. PICK w1 : w1 = [v EXCEPT !.disturbed = TRUE, !.start = {}, !.called = <<>>]
      OBVIOUS
    <2>3. walker'[u] = w1
      BY <1>1, <2>1, <2>2 DEF Disturbed
    <2>4. w1 \in Walkers /\ w1.at = v.at
      <3>1. {} \in SUBSET Functions /\ <<>> \in Seq(Functions) /\ TRUE \in BOOLEAN
        OBVIOUS
      <3>2. PICK d, s, c : d = TRUE /\ s = {} /\ c = <<>>
        OBVIOUS
      <3>3. d \in BOOLEAN /\ s \in SUBSET Functions /\ c \in Seq(Functions)
        BY <3>1, <3>2
      <3>4. w1 = [v EXCEPT !.disturbed = d, !.start = s, !.called = c]
        BY <2>2, <3>2, Zenon
      <3>. QED
        BY <3>3, <3>4 DEF Walkers
    <2>5. w1.disturbed
      BY <2>2 DEF Walkers
    <2>. QED
      BY <1>1, <2>1, <2>3, <2>4, <2>5
  <1>2. ASSUME NEW u \in HookThreads, walker[u].at \notin {"call", "relock", "locked"}
        PROVE  walker'[u] = IF u = t THEN w ELSE walker[u]
    BY <1>2 DEF Disturbed
  <1>3. walker' \in [HookThreads -> Walkers]
    <2>1. walker' = [u \in HookThreads |-> walker'[u]]
      BY DEF Disturbed
    <2>2. \A u \in HookThreads : walker'[u] \in Walkers
      BY <1>1, <1>2
    <2>. QED
      BY <2>1, <2>2
  <1>4. TypeOK' /\ MishapsOK'
    BY <1>3 DEF IInv, TypeOK, MishapsOK
  <1>5. \A u \in HookThreads : Owns(walker'[u]) =>
           \/ u = t /\ walker'[u] = w
           \/ u # t /\ Owns(walker[u]) /\ walker'[u].item = walker[u].item
    BY <1>1, <1>2 DEF Owns
  <1>6. OwnersOK'
    <2>1. \A u, v \in HookThreads : Owns(walker[u]) /\ Owns(walker[v])
             /\ walker[u].item = walker[v].item => u = v
      BY DEF IInv, OwnersOK
    <2>2. ASSUME NEW u \in HookThreads, Owns(walker'[u])
          PROVE  /\ walker'[u].item \in Allocated'
                 /\ \A k \in 1..Count' : release_cb_list'[k] # walker'[u].item
      BY <1>5, <2>2
    <2>3. ASSUME NEW u \in HookThreads, NEW v \in HookThreads,
                 Owns(walker'[u]), Owns(walker'[v]), walker'[u].item = walker'[v].item
          PROVE  u = v
      BY <1>5, <2>1, <2>3
    <2>. QED
      BY <2>2, <2>3 DEF OwnersOK, Owns
  <1>7. ASSUME NEW u \in HookThreads, NEW v \in Walkers, v = walker'[u]
        PROVE  WalkOK(v)'
    <2>1. CASE walker[u].at \in {"call", "relock", "locked"}
      <3>1. v.disturbed /\ v.at \in {"call", "relock", "locked"}
        BY <1>1, <1>7, <2>1
      <3>. QED
        BY <3>1 DEF WalkOK
    <2>2. CASE walker[u].at \notin {"call", "relock", "locked"} /\ u = t
      <3>1. v.at \in {"idle", "free"}
        BY <1>2, <1>7, <2>2
      <3>. QED
        BY <3>1 DEF WalkOK
    <2>3. CASE walker[u].at \notin {"call", "relock", "locked"} /\ u # t
      <3>1. v = walker[u] /\ WalkOK(v)
        BY <1>2, <1>7, <2>3 DEF IInv, WalksOK
      <3>. QED
        BY <2>3, <3>1 DEF WalkOK, Ended
    <2>. QED
      BY <2>1, <2>2, <2>3
  <1>. QED
    BY <1>4, <1>6, <1>7 DEF IInv, WalksOK

\* The list without its item k.
LEMMA RemovedItem ==
  ASSUME NEW S, NEW s \in Seq(S), NEW k \in 1..Len(s)
  PROVE  /\ RemoveAt(s, k) \in Seq(S) /\ Len(RemoveAt(s, k)) = Len(s) - 1
         /\ \A j \in 1..(Len(s) - 1) :
              RemoveAt(s, k)[j] = IF j < k THEN s[j] ELSE s[j + 1]
  <1>1. Len(s) \in Nat
    OBVIOUS
  <1>2. PICK before : before = SubSeq(s, 1, k - 1)
    OBVIOUS
  <1>3. PICK after : after = SubSeq(s, k + 1, Len(s))
    OBVIOUS
  <1>4. /\ before \in Seq(S) /\ Len(before) = k - 1
        /\ \A j \in 1..(k - 1) : before[j] = s[j]
    BY <1>1, <1>2, SubSeqProperties
  <1>5. /\ after \in Seq(S) /\ Len(after) = Len(s) - k
        /\ \A j \in 1..(Len(s) - k) : after[j] = s[k + j]
    BY <1>1, <1>3, SubSeqProperties
  <1>6. RemoveAt(s, k) = before \o after
    BY <1>2, <1>3 DEF RemoveAt
  <1>7. /\ before \o after \in Seq(S) /\ Len(before \o after) = Len(s) - 1
        /\ \A j \in 1..(Len(s) - 1) : (before \o after)[j] =
              IF j < k THEN before[j] ELSE after[j - (k - 1)]
    <2>1. Len(before) + Len(after) = Len(s) - 1
      BY <1>1, <1>4, <1>5
    <2>2. /\ before \o after \in Seq(S)
          /\ Len(before \o after) = Len(before) + Len(after)
          /\ \A j \in 1..(Len(before) + Len(after)) : (before \o after)[j] =
                IF j <= Len(before) THEN before[j] ELSE after[j - Len(before)]
      BY <1>4, <1>5, ConcatProperties
    <2>3. \A j \in 1..(Len(s) - 1) : j <= Len(before) <=> j < k
      BY <1>1, <1>4
    <2>. QED
      BY <1>4, <2>1, <2>2, <2>3
  <1>8. ASSUME NEW j \in 1..(Len(s) - 1)
        PROVE  (before \o after)[j] = IF j < k THEN s[j] ELSE s[j + 1]
    <2>1. CASE j < k
      BY <1>4, <1>7, <2>1
    <2>2. CASE ~(j < k)
      <3>1. j - (k - 1) \in 1..(Len(s) - k) /\ k + (j - (k - 1)) = j + 1
        BY <1>1, <2>2
      <3>. QED
        BY <1>5, <1>7, <2>2, <3>1
    <2>. QED
      BY <2>1, <2>2
  <1>. QED
    BY <1>6, <1>7, <1>8

LEMMA UnregisterRemoveStep ==
  ASSUME IInv, NEW t \in HookThreads, UnregisterRemove(t)
  PROVE  IInv'
  <1>. DEFINE found == {k \in DOMAIN release_cb_list :
                          cbfunc[release_cb_list[k]] = walker[t].func}
  <1>1. /\ TypeOK /\ ListOK /\ OwnersOK /\ MishapsOK /\ walker[t].at = "remove"
        /\ UNCHANGED <<cbfunc, mishaps>>
    BY DEF IInv, UnregisterRemove
  <1>2. Idle \in Walkers /\ Idle.at = "idle"
    BY DEF Idle, Walkers
  <1>3. CASE found = {}
    <2>1. walker' = [walker EXCEPT ![t] = Idle] /\ UNCHANGED release_cb_list
      BY <1>3 DEF UnregisterRemove
    <2>. QED
      BY <1>1, <1>2, <2>1, ThreadStep DEF MishapsOK, WalkOK, Owns
  <1>4. CASE found # {}
    <2>1. PICK k \in found : k = CHOOSE j \in found : TRUE
      BY <1>4
    <2>2. PICK w : w = [Idle EXCEPT !.at = "free", !.item = release_cb_list[k]]
      OBVIOUS
    <2>3. /\ release_cb_list' = RemoveAt(release_cb_list, k)
          /\ walker' = Disturbed([walker EXCEPT ![t] = w])
      BY <1>4, <2>1, <2>2 DEF UnregisterRemove
    <2>4. Count \in Nat /\ k \in 1..Count /\ release_cb_list[k] \in Cells
      BY <1>1 DEF TypeOK, Count
    <2>5. w \in Walkers /\ w.at = "free" /\ w.item = release_cb_list[k]
      BY <1>2, <2>2, <2>4 DEF Walkers
    <2>6. /\ release_cb_list' \in Seq(Cells) /\ Count' = Count - 1
          /\ \A j \in 1..Count' : release_cb_list'[j] =
                IF j < k THEN release_cb_list[j] ELSE release_cb_list[j + 1]
      BY <1>1, <2>3, <2>4, RemovedItem DEF TypeOK, Count
    <2>7. PICK old \in [1..Count' -> 1..Count] :
             /\ \A j \in 1..Count' : /\ release_cb_list'[j] = release_cb_list[old[j]]
                                     /\ old[j] # k
             /\ \A i, j \in 1..Count' : old[i] = old[j] => i = j
      <3>1. \E old : old = [j \in 1..Count' |-> IF j < k THEN j ELSE j + 1]
        OBVIOUS
      <3>2. PICK old : old = [j \in 1..Count' |-> IF j < k THEN j ELSE j + 1]
        BY <3>1
      <3>3. old \in [1..Count' -> 1..Count]
        BY <2>4, <2>6, <3>2
      <3>4. ASSUME NEW j \in 1..Count'
            PROVE  release_cb_list'[j] = release_cb_list[old[j]] /\ old[j] # k
        BY <2>4, <2>6, <3>2
      <3>5. ASSUME NEW i \in 1..Count', NEW j \in 1..Count', old[i] = old[j]
            PROVE  i = j
        BY <2>4, <2>6, <3>2, <3>5
      <3>. QED
        BY <3>3, <3>4, <3>5
    <2>8. /\ ListOK'
          /\ \A j \in 1..Count' : release_cb_list'[j] # release_cb_list[k]
      BY <1>1, <2>4, <2>7 DEF ListOK, FunctionAt, Allocated
    <2>9. /\ DOMAIN cbfunc' \subseteq Cells
          /\ \A i \in Allocated' : cbfunc'[i] \in Functions
          /\ release_cb_list[k] \in Allocated'
      BY <1>1, <2>4 DEF TypeOK, Allocated, ListOK
    <2>10. \A u \in HookThreads : Owns(walker[u]) =>
              /\ walker[u].item \in Allocated' /\ walker[u].item # release_cb_list[k]
              /\ \A j \in 1..Count' : release_cb_list'[j] # walker[u].item
      BY <1>1, <2>4, <2>7 DEF OwnersOK, Allocated
    <2>. QED
      BY <1>1, <2>3, <2>5, <2>6, <2>8, <2>9, <2>10, DisturbedStep
  <1>. QED
    BY <1>3, <1>4

LEMMA FinalizeEmptyStep ==
  ASSUME IInv, NEW t \in HookThreads, FinalizeEmpty(t)
  PROVE  IInv'
  <1>1. /\ TypeOK /\ OwnersOK /\ walker[t].at = "empty" /\ UNCHANGED mishaps
        /\ release_cb_list' = <<>>
        /\ cbfunc' = [i \in Allocated \ ToSet(release_cb_list) |-> cbfunc[i]]
        /\ walker' = Disturbed([walker EXCEPT ![t] = Idle])
    BY DEF IInv, FinalizeEmpty
  <1>2. Idle \in Walkers /\ Idle.at = "idle" /\ ~Owns(Idle)
    BY DEF Idle, Walkers, Owns
  <1>3. /\ release_cb_list' \in Seq(Cells) /\ Count' = 0 /\ ListOK'
    BY <1>1 DEF Count, ListOK
  <1>4. /\ Allocated' = Allocated \ ToSet(release_cb_list)
        /\ \A i \in Allocated' : cbfunc'[i] = cbfunc[i]
    BY <1>1 DEF Allocated
  <1>5. /\ DOMAIN cbfunc' \subseteq Cells
        /\ \A i \in Allocated' : cbfunc'[i] \in Functions
    BY <1>1, <1>4 DEF TypeOK, Allocated
  <1>6. \A u \in HookThreads : Owns(walker[u]) =>
           /\ walker[u].item \in Allocated'
           /\ \A k \in 1..Count' : release_cb_list'[k] # walker[u].item
    BY <1>1, <1>3, <1>4 DEF OwnersOK, ToSet, TypeOK, Count
  <1>. QED
    BY <1>1, <1>2, <1>3, <1>5, <1>6, DisturbedStep

\* Every step keeps the invariant; what only takes the lock moves one thread.
LEMMA NextInv ==
  ASSUME IInv, [HookNext]_hookVars
  PROVE  IInv'
  <1>. IInv /\ TypeOK /\ MishapsOK /\ WalksOK
    BY DEF IInv
  <1>1. Idle \in Walkers /\ Idle.called = <<>> /\ Idle.disturbed = FALSE
    BY DEF Idle, Walkers
  <1>2. ASSUME UNCHANGED <<release_cb_list, cbfunc, walker>>, MishapsOK'
        PROVE  IInv'
    BY <1>2 DEF IInv, TypeOK, ListOK, OwnersOK, WalksOK, WalkOK, Count, Allocated,
                FunctionAt, Calling, Between, CalledUpTo, GoesOnAfter, Ended, Owns
  <1>3. ASSUME NEW t \in HookThreads, NEW w \in Walkers, ~Owns(w), WalkOK(w),
               walker' = [walker EXCEPT ![t] = w],
               UNCHANGED <<release_cb_list, cbfunc, mishaps>>
        PROVE  IInv'
    BY <1>3, ThreadStep DEF MishapsOK
  \* What a thread does next depends on the list only in the walk.
  <1>4. ASSUME NEW t \in HookThreads, NEW from, NEW to, Lock(t, from, to),
               \/ from = "first" /\ to = "firstlocked"
               \/ from = "relock" /\ to = "locked"
               \/ from = "register" /\ to = "registerlocked"
               \/ from = "finalize" /\ to = "empty",
               UNCHANGED <<release_cb_list, cbfunc, mishaps>>
        PROVE  IInv'
    <2>1. PICK v \in Walkers : v = walker[t]
      BY DEF TypeOK
    <2>2. PICK w : w = [v EXCEPT !.at = to]
      OBVIOUS
    <2>3. v.at = from /\ walker' = [walker EXCEPT ![t] = w]
      BY <1>4, <2>1, <2>2 DEF Lock, TypeOK
    <2>4. /\ w \in Walkers /\ w.at = to /\ w.item = v.item /\ w.start = v.start
          /\ w.called = v.called /\ w.disturbed = v.disturbed
      BY <1>4, <2>2 DEF Walkers
    <2>5. WalkOK(v)
      BY <2>1 DEF WalksOK
    <2>6. Between(v) => Between(w)
      BY <2>4 DEF Between, CalledUpTo, GoesOnAfter
    <2>7. WalkOK(w)
      BY <1>4, <2>3, <2>4, <2>5, <2>6 DEF WalkOK
    <2>8. Owns(w) => Owns(walker[t]) /\ w.item = walker[t].item
      BY <1>4, <2>1, <2>3, <2>4 DEF Owns
    <2>. QED
      BY <1>4, <2>3, <2>4, <2>7, <2>8, ThreadStep DEF MishapsOK
  <1>5. CASE UNCHANGED hookVars
    BY <1>2, <1>5 DEF hookVars, MishapsOK
  <1>6. CASE SetSupport
    BY <1>2, <1>6 DEF SetSupport, MishapsOK
  <1>7. ASSUME NEW t \in HookThreads, HookStep(t)
        PROVE  IInv'
    <2>1. CASE ReleaseHook(t)
      <3>1. PICK w : w = [Idle EXCEPT !.at = "first"]
        OBVIOUS
      <3>2. /\ w \in Walkers /\ w.at = "first" /\ w.called = <<>>
            /\ ~w.disturbed
        BY <1>1, <3>1 DEF Walkers
      <3>. QED
        BY <1>3, <2>1, <3>1, <3>2 DEF ReleaseHook, WalkOK, Owns
    <2>2. CASE WalkLock(t)
      BY <1>4, <2>2 DEF WalkLock
    <2>3. CASE WalkFirst(t)
      BY <2>3, WalkFirstStep
    <2>4. CASE WalkNext(t)
      BY <2>4, WalkNextStep
    <2>5. CASE WalkCall(t)
      BY <2>5, WalkCallStep
    <2>6. ASSUME NEW f \in Functions, RegisterRelease(t, f)
          PROVE  IInv'
      BY <2>6, RegisterReleaseStep
    <2>7. ASSUME NEW f \in Functions, UnregisterLock(t, f)
          PROVE  IInv'
      <3>1. PICK w : w = [Idle EXCEPT !.at = "remove", !.func = f]
        OBVIOUS
      <3>2. w \in Walkers /\ w.at = "remove"
        BY <1>1, <3>1 DEF Walkers
      <3>. QED
        BY <1>3, <2>7, <3>1, <3>2 DEF UnregisterLock, WalkOK, Owns
    <2>8. CASE RegisterFails(t)
      <3>1. UNCHANGED <<release_cb_list, cbfunc, walker>>
        BY <2>8 DEF RegisterFails
      <3>2. mishaps' = mishaps \/ mishaps' = mishaps \cup {<<"unlocked", FALSE>>}
        BY <2>8 DEF RegisterFails
      <3>3. PICK m : m = <<"unlocked", FALSE>>
        OBVIOUS
      <3>4. m[1] = "unlocked" /\ (mishaps' = mishaps \/ mishaps' = mishaps \cup {m})
        BY <3>2, <3>3
      <3>5. MishapsOK'
        BY <3>4 DEF MishapsOK
      <3>. QED
        BY <1>2, <3>1, <3>5
    <2>9. CASE RegisterLock(t)
      BY <1>4, <2>9 DEF RegisterLock
    <2>10. CASE RegisterAppend(t)
      BY <2>10, RegisterAppendStep
    <2>11. CASE UnregisterRemove(t)
      BY <2>11, UnregisterRemoveStep
    <2>12. CASE UnregisterFree(t)
      BY <2>12, UnregisterFreeStep
    <2>13. CASE FinalizeStop(t)
      <3>1. PICK w : w = [Idle EXCEPT !.at = "finalize"]
        OBVIOUS
      <3>2. w \in Walkers /\ w.at = "finalize"
        BY <1>1, <3>1 DEF Walkers
      <3>. QED
        BY <1>3, <2>13, <3>1, <3>2 DEF FinalizeStop, WalkOK, Owns
    <2>14. CASE FinalizeLock(t)
      BY <1>4, <2>14 DEF FinalizeLock
    <2>15. CASE FinalizeEmpty(t)
      BY <2>15, FinalizeEmptyStep
    <2>. QED
      BY <1>7, <2>1, <2>2, <2>3, <2>4, <2>5, <2>6, <2>7, <2>8, <2>9, <2>10, <2>11,
         <2>12, <2>13, <2>14, <2>15 DEF HookStep
  <1>. QED
    BY <1>5, <1>6, <1>7 DEF HookNext

-----------------------------------------------------------------------------
\* A sequence that repeats nothing is as long as it has elements.
LEMMA NoRepetition ==
  ASSUME NEW S, NEW s \in Seq(S),
         \A j, k \in 1..Len(s) : s[j] = s[k] => j = k
  PROVE  Len(s) = Cardinality(ToSet(s))
  <1>1. Len(s) \in Nat /\ ToSet(s) = {s[k] : k \in 1..Len(s)}
    BY DEF ToSet
  <1>2. PICK f : f = [k \in 1..Len(s) |-> s[k]]
    OBVIOUS
  <1>3. f \in Bijection(1..Len(s), ToSet(s))
    BY <1>1, <1>2 DEF Bijection, Injection, Surjection, IsInjective
  <1>4. Cardinality(1..Len(s)) = Len(s) /\ IsFiniteSet(1..Len(s))
    <2>1. PICK n \in Nat : n = Len(s)
      BY <1>1
    <2>2. IsFiniteSet(1..n) /\ Cardinality(1..n) = IF 1 > n THEN 0 ELSE n - 1 + 1
      BY FS_Interval
    <2>. QED
      BY <2>1, <2>2
  <1>. QED
    BY <1>3, <1>4, FS_Bijection DEF ExistsBijection

\* Walks that are over in the invariant did what they should.
LEMMA InvImplies == IInv => WalksReachCallbacks
  <1>. SUFFICES ASSUME IInv PROVE WalksReachCallbacks
    OBVIOUS
  <1>1. ASSUME NEW t \in HookThreads, walker[t].at = "ended", ~walker[t].disturbed
        PROVE  /\ walker[t].start \subseteq ToSet(walker[t].called)
               /\ Len(walker[t].called) = Cardinality(ToSet(walker[t].called))
    <2>1. PICK v \in Walkers : v = walker[t]
      BY DEF IInv, TypeOK
    <2>2. Ended(v) /\ v.called \in Seq(Functions)
      BY <1>1, <2>1 DEF IInv, WalksOK, WalkOK, Walkers
    <2>3. v.start \subseteq ToSet(v.called)
      BY <2>2 DEF Ended, ToSet
    <2>4. Len(v.called) = Cardinality(ToSet(v.called))
      BY <2>2, NoRepetition DEF Ended
    <2>. QED
      BY <2>1, <2>3, <2>4
  <1>2. ASSUME NEW m \in mishaps, m[1] \in {"stale next", "stale item"}
        PROVE  m[2]
    BY <1>2 DEF IInv, MishapsOK
  <1>. QED
    BY <1>1, <1>2 DEF WalksReachCallbacks

\* For any number of threads, functions and items: a walk during which no item
\* leaves the list reads no freed item, calls all that was registered when it
\* began and calls nothing twice (ocoms_mem_hooks_release_hook, which goes on
\* from a pointer it read before it let go of the lock).
THEOREM WalksReach ==
  HookSpec => []WalksReachCallbacks
  <1>1. HookInit => IInv
    BY InitInv
  <1>2. IInv /\ [HookNext]_hookVars => IInv'
    BY NextInv
  <1>3. IInv => WalksReachCallbacks
    BY InvImplies
  <1>. QED
    BY <1>1, <1>2, <1>3, PTL DEF HookSpec
=============================================================================
