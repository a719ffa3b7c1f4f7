----------------------------- MODULE Mca_proofs -----------------------------
(***************************************************************************)
(* Proofs about Framework, for any number of components and of users,      *)
(* about ComponentRepository, for any names and any bounds, and about      *)
(* ComponentFind, for any files.                                           *)
(*                                                                         *)
(* The framework.  The argument has two halves.  Whatever happened, what   *)
(* is open is on the list, and what is on the list or has variables in the *)
(* group is loaded; a framework that is not registered has nothing open    *)
(* (ListInv).  As long as nothing went wrong that the code does not mend,  *)
(* the count is the number of users, only what is on the list is loaded,   *)
(* and a framework with a user is registered and all of its list is open   *)
(* (CountInv).                                                             *)
(*                                                                         *)
(* The repository (RepositoryInv).  An entry depends on earlier ones only, *)
(* and its count is the number of places in lists of dependencies that     *)
(* name it, and of its users.  So what a release brings to zero is named   *)
(* nowhere and used by nobody, and destructors nest downwards; and the     *)
(* latest entry is never kept by another one, so that an entry is left     *)
(* only if some entry has a user: nothing leaks, and finalize's one pass   *)
(* over the list, which takes one user from each, leaves it empty.         *)
(*                                                                         *)
(* The search (FindInv).  In a directory that lists dependencies first     *)
(* every dependency of the file that is being opened has been visited, so  *)
(* no call leads to another one, and whether a file visited before is      *)
(* loaded does not depend on what comes after it.                          *)
(***************************************************************************)
EXTENDS Framework, ComponentRepository, ComponentFind, FiniteSetTheorems, SequenceTheorems,
        WellFoundedInduction, TLAPS

(***************************************************************************)
(* The framework                                                           *)
(***************************************************************************)
Sound(f) ==
    /\ f \in States
    /\ f.opened \subseteq f.components
    /\ f.components \cup f.grouped \subseteq f.loaded
    /\ ~f.group => f.grouped = {}
    /\ ~IsRegistered(f) => f.opened = {} /\ f.grouped = {}
    /\ f.refcnt = 0 => f.opened = {}

ListInv == Sound(framework)

\* Nothing is loaded but what is on the list.  Unregistered, nothing is loaded
\* at all, nor is it in a framework that registers nothing and is not open.
Tidy(f) ==
    /\ f.loaded = f.components
    /\ ~IsRegistered(f) => f.loaded = {}
    /\ NoRegister(f) /\ f.refcnt = 0 => f.loaded = {}

CountInv ==
    accidents = {} =>
       /\ framework.refcnt = users
       /\ Tidy(framework)
       /\ users > 0 => /\ IsRegistered(framework)
                       /\ framework.opened = framework.components
                       /\ framework.components \subseteq Wanted

IInv == TypeOK /\ ListInv /\ CountInv

\* A framework that is changed and what stays the same in it.
SameFlags(f, g) ==
    /\ g.refcnt = f.refcnt /\ g.opened = f.opened
    /\ NoRegister(g) <=> NoRegister(f)

-----------------------------------------------------------------------------
(* The steps of a call *)

\* Unloading components that are not open, and closing any.
LEMMA UnloadKeeps ==
    ASSUME NEW f, Sound(f), NEW cs \in SUBSET Components, cs \cap f.opened = {}
    PROVE  LET g == Unload(f, cs) IN
           /\ Sound(g) /\ SameFlags(f, g) /\ g.flags = f.flags
           /\ g.components = f.components \ cs /\ g.loaded = f.loaded \ cs
  BY DEF Sound, States, Unload, SameFlags, IsRegistered, NoRegister

LEMMA CloseKeeps ==
    ASSUME NEW f, Sound(f), NEW cs \in SUBSET Components
    PROVE  LET g == Close(f, cs) IN
           /\ Sound(g) /\ g.flags = f.flags /\ g.refcnt = f.refcnt
           /\ g.components = f.components \ cs /\ g.loaded = f.loaded \ cs
           /\ g.opened = f.opened \ cs
  BY DEF Sound, States, Close, Unload, IsRegistered, NoRegister

\* What the framework finds and registers of the components it looks for.
LEMMA ComponentsRegisteredKeeps ==
    ASSUME NEW f, Sound(f), ~IsRegistered(f), NEW wanted \in SUBSET Components,
           NEW g \in ComponentsRegistered(f, wanted),
           NEW h, h = [g EXCEPT !.group = TRUE, !.flags = @ \cup {"REGISTERED"}]
    PROVE  /\ Sound(h) /\ SameFlags(f, h) /\ IsRegistered(h)
           /\ f.loaded = {} => h.loaded = h.components
  <1>1. PICK c \in (SUBSET wanted) \X (SUBSET wanted) :
              /\ c[1] \subseteq c[2]
              /\ g = Unload([f EXCEPT !.components = c[1], !.loaded = @ \cup c[2],
                                      !.params = @ \cup c[2],
                                      !.grouped = @ \cup (c[2] \ f.known),
                                      !.known = @ \cup c[2]], c[2] \ c[1])
    BY DEF ComponentsRegistered
  <1>2. PICK on \in SUBSET Components, read \in SUBSET Components :
              /\ on \subseteq read
              /\ g = Unload([f EXCEPT !.components = on, !.loaded = @ \cup read,
                                      !.params = @ \cup read,
                                      !.grouped = @ \cup (read \ f.known),
                                      !.known = @ \cup read], read \ on)
    BY <1>1
  <1>3. PICK r \in States :
              /\ r.components = on /\ r.loaded = f.loaded \cup read
              /\ r.grouped \subseteq r.loaded
              /\ r.opened = {} /\ f.opened = {}
              /\ r.refcnt = f.refcnt /\ r.flags = f.flags
              /\ g = Unload(r, read \ on)
    <2>1. [f EXCEPT !.components = on, !.loaded = @ \cup read,
                    !.params = @ \cup read, !.grouped = @ \cup (read \ f.known),
                    !.known = @ \cup read] \in States
      BY DEF Sound, States
    <2>. QED
      BY <1>2, <2>1 DEF Sound, States
  <1>4. /\ g \in States
        /\ g.components = on /\ g.loaded = (f.loaded \cup read) \ (read \ on)
        /\ g.grouped \subseteq g.loaded
        /\ g.opened = {} /\ g.refcnt = f.refcnt /\ g.flags = f.flags
    <2>1. /\ g \in States
          /\ g.components = r.components \ (read \ on)
          /\ g.loaded = r.loaded \ (read \ on)
          /\ g.grouped = r.grouped \ (read \ on)
          /\ g.opened = r.opened /\ g.refcnt = r.refcnt /\ g.flags = r.flags
      BY <1>3 DEF States, Unload
    <2>. QED
      BY <1>2, <1>3, <2>1
  <1>5. /\ h \in States
        /\ h.components = on /\ h.loaded = (f.loaded \cup read) \ (read \ on)
        /\ h.grouped \subseteq h.loaded /\ h.group = TRUE
        /\ h.opened = {} /\ h.refcnt = f.refcnt /\ h.flags = f.flags \cup {"REGISTERED"}
    BY <1>4 DEF States
  <1>. QED
    BY <1>2, <1>3, <1>5 DEF Sound, SameFlags, IsRegistered, NoRegister

LEMMA WantedComponents == Wanted \subseteq Components
  BY DEF Wanted

\* A registration that succeeds.
LEMMA RegisteredKeeps ==
    ASSUME NEW f, Sound(f), NEW all \in BOOLEAN, NEW g \in Registered(f, all)
    PROVE  /\ Sound(g) /\ SameFlags(f, g) /\ IsRegistered(g)
           /\ Tidy(f) => Tidy(g)
           /\ IsRegistered(f) => g = f
  <1>1. CASE IsRegistered(f)
    BY <1>1 DEF Registered, SameFlags
  <1>2. CASE ~IsRegistered(f) /\ NoRegister(f)
    <2>1. g = [f EXCEPT !.flags = @ \cup {"REGISTERED"}]
      BY <1>2 DEF Registered
    <2>. QED
      BY <1>2, <2>1 DEF Sound, States, SameFlags, Tidy, IsRegistered, NoRegister
  <1>3. CASE ~IsRegistered(f) /\ ~NoRegister(f)
    <2>1. PICK wanted \in SUBSET Components : \E h \in ComponentsRegistered(f, wanted) :
                 g = [h EXCEPT !.group = TRUE, !.flags = @ \cup {"REGISTERED"}]
      BY <1>3, WantedComponents DEF Registered
    <2>2. /\ Sound(g) /\ SameFlags(f, g) /\ IsRegistered(g)
          /\ f.loaded = {} => g.loaded = g.components
      BY <1>3, <2>1, ComponentsRegisteredKeeps
    <2>. QED
      BY <1>3, <2>2 DEF Tidy, SameFlags
  <1>. QED
    BY <1>1, <1>2, <1>3

\* A registration that fails leaves the variables of the framework at most.
LEMMA RegisterFailedKeeps ==
    ASSUME NEW f, Sound(f), NEW all \in BOOLEAN, NEW g \in RegisterFailed(f, all)
    PROVE  /\ Sound(g) /\ SameFlags(f, g)
           /\ Tidy(f) => Tidy(g)
           /\ IsRegistered(g) <=> IsRegistered(f)
           /\ ~IsRegistered(f)
  BY DEF RegisterFailed, Sound, States, SameFlags, Tidy, IsRegistered, NoRegister

\* What is left to open when a framework that is not open has been filtered.
LEMMA FilteredKeeps ==
    ASSUME NEW f, Sound(f), f.refcnt = 0, NEW g \in Found(f)
    PROVE  LET h == Filtered(g) IN
           /\ Sound(h) /\ SameFlags(f, h) /\ h.flags = f.flags
           /\ h.components \subseteq Wanted
           /\ Tidy(f) => h.loaded = h.components
           /\ Tidy(f) /\ ~NoRegister(f) => Tidy(h)
  <1>1. /\ Sound(g) /\ SameFlags(f, g) /\ g.flags = f.flags
        /\ Tidy(f) => g.loaded = g.components
        /\ ~NoRegister(f) => g = f
    <2>1. CASE ~NoRegister(f)
      BY <2>1 DEF Found, SameFlags, Tidy
    <2>2. CASE NoRegister(f)
      <3>1. PICK cs \in SUBSET Wanted :
                   g = [f EXCEPT !.components = cs, !.loaded = @ \cup cs]
        BY <2>2 DEF Found
      <3>2. cs \subseteq Components
        BY WantedComponents
      <3>. QED
        BY <2>2, <3>1, <3>2 DEF Sound, States, SameFlags, Tidy, IsRegistered, NoRegister
    <2>. QED
      BY <2>1, <2>2
  <1>2. /\ g.components \ Wanted \in SUBSET Components
        /\ g.opened = {}
    BY <1>1 DEF Sound, States, SameFlags
  <1>3. LET h == Filtered(g) IN
        /\ Sound(h) /\ SameFlags(g, h) /\ h.flags = g.flags
        /\ h.components = g.components \ (g.components \ Wanted)
        /\ h.loaded = g.loaded \ (g.components \ Wanted)
    BY <1>1, <1>2, UnloadKeeps DEF Filtered
  <1>. QED
    BY <1>1, <1>3 DEF SameFlags, Tidy, IsRegistered, NoRegister

\* The count moves, and nothing else.
LEMMA CountKeeps ==
    ASSUME NEW f, Sound(f), NEW n \in 0..(MaxUsers + 1), n = 0 => f.opened = {}
    PROVE  LET g == [f EXCEPT !.refcnt = n] IN
           /\ Sound(g) /\ g.refcnt = n /\ g.flags = f.flags
           /\ g.components = f.components /\ g.loaded = f.loaded
           /\ g.opened = f.opened
  BY DEF Sound, States, IsRegistered

LEMMA CountedKeeps ==
    ASSUME NEW f, Sound(f), f.refcnt <= MaxUsers
    PROVE  LET g == Counted(f) IN
           /\ Sound(g) /\ g.refcnt = f.refcnt + 1 /\ g.flags = f.flags
           /\ g.components = f.components /\ g.loaded = f.loaded
           /\ g.opened = f.opened
  <1>1. f.refcnt + 1 \in 0..(MaxUsers + 1) /\ f.refcnt + 1 # 0
    BY ConstantsAssumption DEF Sound, States
  <1>. QED
    BY <1>1, CountKeeps DEF Counted

\* The variables of a framework that has nothing open go.
LEMMA DeregisteredKeeps ==
    ASSUME NEW f, Sound(f), f.opened = {}
    PROVE  LET g == Deregistered(f) IN
           /\ Sound(g) /\ SameFlags(f, g) /\ ~IsRegistered(g)
           /\ g.components = f.components /\ g.loaded = f.loaded
           /\ g.grouped = {}
  BY DEF Sound, States, SameFlags, Deregistered, IsRegistered, NoRegister

-----------------------------------------------------------------------------
(* Type correctness of what a selection returns *)

\* A set of naturals that is not empty has a least element.
LEMMA LeastElement ==
    ASSUME NEW S \in SUBSET Nat, S # {}
    PROVE  \E k \in S : \A j \in S : k <= j
  <1>1. \E R : /\ IsWellFoundedOn(R, Nat)
               /\ \A j, k \in Nat : <<j, k>> \in R <=> j < k
    <2>1. \A j, k \in Nat : <<j, k>> \in OpToRel(<, Nat) <=> j < k
      BY DEF OpToRel
    <2> WITNESS OpToRel(<, Nat)
    <2>. QED
      BY <2>1, NatLessThanWellFounded
  <1>2. PICK R : /\ IsWellFoundedOn(R, Nat)
                 /\ \A j, k \in Nat : <<j, k>> \in R <=> j < k
    BY <1>1
  <1>3. S \subseteq Nat /\ IsWellFoundedOn(R, Nat)
    BY <1>2
  <1>4. \E k \in S : \A j \in S : ~(<<j, k>> \in R)
    BY <1>3, WFMin, Zenon
  <1>5. PICK k \in S : \A j \in S : ~(<<j, k>> \in R)
    BY <1>4
  <1>6. \A j \in S : ~(j < k)
    BY <1>2, <1>3, <1>5, Zenon
  <1>. QED
    BY <1>3, <1>6

\* One that is bounded has a greatest.
LEMMA GreatestElement ==
    ASSUME NEW n \in Nat, NEW S \in SUBSET (0..n), S # {}
    PROVE  \E k \in S : \A j \in S : j <= k
  <1>. DEFINE T == {i \in 0..n : n - i \in S}
  <1>1. T \in SUBSET Nat /\ T # {}
    <2>1. PICK s \in S : TRUE
      OBVIOUS
    <2>2. n - s \in T
      OBVIOUS
    <2>. QED
      BY <2>2
  <1>2. PICK i \in T : \A j \in T : i <= j
    <2>. HIDE DEF T
    <2>. QED
      BY <1>1, LeastElement
  <1>3. n - i \in S /\ i \in 0..n
    BY <1>2
  <1>4. ASSUME NEW j \in S
        PROVE  j <= n - i
    <2>1. n - j \in T /\ i <= n - j
      BY <1>2
    <2>2. i \in Nat /\ j \in Nat
      BY <1>3
    <2>. QED
      BY <2>1, <2>2
  <1>. QED
    BY <1>3, <1>4

\* The module that is returned is one of the components that were asked.
LEMMA ModuleAfterType ==
    ASSUME NEW cs \in SUBSET Components,
           NEW answers \in [cs -> Answers], NEW c \in cs
    PROVE  ModuleAfter(answers, c) \in Components \cup {NoComponent}
  <1>. DEFINE S == {d \in DOMAIN answers :
                      d <= c /\ answers[d].answer \in {"module", "none"}}
  <1>1. S \in SUBSET (0..NumComponents) /\ S \subseteq Components
    <2>1. S \subseteq cs
      OBVIOUS
    <2>2. Components \subseteq 0..NumComponents
      BY ConstantsAssumption DEF Components
    <2>. QED
      BY <2>1, <2>2
  <1>2. ModuleAfter(answers, c) =
          IF S = {} THEN NoComponent
          ELSE IF answers[Max(S)].answer = "module" THEN Max(S) ELSE NoComponent
    BY DEF ModuleAfter
  <1>. HIDE DEF S
  <1>3. S # {} => Max(S) \in S
    BY <1>1, GreatestElement, ConstantsAssumption DEF Max
  <1>. QED
    BY <1>1, <1>2, <1>3

\* So is the component.
LEMMA BestType ==
    ASSUME NEW cs \in SUBSET Components,
           NEW answers \in [cs -> Answers]
    PROVE  Best(answers) \in cs \cup {NoComponent}
  <1>. DEFINE asked == {c \in DOMAIN answers : /\ answers[c].answer # "skipped"
                                               /\ ModuleAfter(answers, c) # NoComponent}
              best == {c \in asked : \A d \in asked :
                          answers[c].priority >= answers[d].priority}
              priorities == {answers[c].priority : c \in asked}
  <1>1. Best(answers) = IF asked = {} THEN NoComponent ELSE Min(best)
    BY DEF Best
  <1>2. asked \subseteq cs /\ best \subseteq asked
    OBVIOUS
  <1>3. ASSUME asked # {}
        PROVE  best # {}
    <2>1. priorities \in SUBSET (0..MaxPriority) /\ priorities # {}
      BY <1>2, <1>3, ConstantsAssumption DEF Answers
    <2>2. PICK p \in priorities : \A q \in priorities : q <= p
      <3>. HIDE DEF priorities
      <3>. QED
        BY <2>1, GreatestElement, ConstantsAssumption
    <2>3. PICK c \in asked : p = answers[c].priority
      BY <2>2
    <2>4. c \in best
      BY <2>1, <2>2, <2>3
    <2>. QED
      BY <2>4
  <1>. HIDE DEF asked, best
  <1>4. asked # {} => Min(best) \in best
    <2>1. best \in SUBSET Nat
      BY <1>2 DEF Components
    <2>. QED
      BY <1>3, <2>1, LeastElement DEF Min
  <1>. QED
    BY <1>1, <1>2, <1>4

-----------------------------------------------------------------------------
(* The invariant *)

LEMMA InitInv == ASSUME Init PROVE IInv
  <1>1. TypeOK
    <2>1. PICK g \in SUBSET {"NOREGISTER", "REGISTERED"} :
                 framework = [flags |-> g, refcnt |-> 0, group |-> FALSE,
                              components |-> {}, loaded |-> {}, params |-> {},
                              known |-> {}, grouped |-> {}, opened |-> {}]
      BY ConstantsAssumption DEF Init
    <2>2. 0 \in 0..(MaxUsers + 1)
      BY ConstantsAssumption
    <2>3. framework \in States
      BY <2>1, <2>2 DEF States
    <2>. QED
      BY <2>2, <2>3, ConstantsAssumption DEF Init, TypeOK
  <1>2. ListInv
    BY <1>1 DEF Init, TypeOK, ListInv, Sound, IsRegistered
  <1>3. CountInv
    BY DEF Init, CountInv, Tidy, IsRegistered, NoRegister
  <1>. QED
    BY <1>1, <1>2, <1>3 DEF IInv

LEMMA NextInv == ASSUME IInv, [Next]_vars PROVE IInv'
  <1>. /\ TypeOK /\ ListInv /\ CountInv
       /\ framework \in States /\ Sound(framework)
       /\ 1 \in 0..(MaxUsers + 1)
    BY ConstantsAssumption DEF IInv, TypeOK, ListInv
  <1>1. CASE UNCHANGED vars
    BY <1>1 DEF vars, TypeOK, ListInv, Sound, CountInv, Tidy, Wanted, IInv,
                IsRegistered, NoRegister
  <1>2. ASSUME NEW all \in BOOLEAN, Register(all)
        PROVE  IInv'
    <2>1. CASE framework' \in Registered(framework, all)
      <3>1. /\ Sound(framework') /\ SameFlags(framework, framework')
            /\ IsRegistered(framework')
            /\ Tidy(framework) => Tidy(framework')
            /\ IsRegistered(framework) => framework' = framework
        BY <2>1, RegisteredKeeps
      <3>. QED
        BY <1>2, <3>1
        DEF Register, IInv, TypeOK, ListInv, Sound, CountInv, Tidy, Wanted,
            SameFlags, IsRegistered, NoRegister
    <2>2. CASE framework' \in RegisterFailed(framework, all)
      <3>1. /\ Sound(framework') /\ SameFlags(framework, framework')
            /\ Tidy(framework) => Tidy(framework')
            /\ ~IsRegistered(framework)
        BY <2>2, RegisterFailedKeeps
      <3>. QED
        BY <1>2, <3>1
        DEF Register, IInv, TypeOK, ListInv, Sound, CountInv, Tidy, Wanted,
            SameFlags, IsRegistered, NoRegister
    <2>. QED
      BY <1>2, <2>1, <2>2 DEF Register
  <1>3. CASE OpenAgain
    <2>1. /\ Sound(framework') /\ framework'.refcnt = framework.refcnt + 1
          /\ framework'.flags = framework.flags
          /\ framework'.components = framework.components
          /\ framework'.loaded = framework.loaded
          /\ framework'.opened = framework.opened
      BY <1>3, CountedKeeps DEF OpenAgain
    <2>2. /\ framework.refcnt > 0 /\ users < MaxUsers /\ users' = users + 1
          /\ UNCHANGED <<selection, selected, accidents>>
          /\ users \in Nat /\ MaxUsers \in Nat /\ framework.refcnt \in Nat
      BY <1>3, ConstantsAssumption DEF OpenAgain, TypeOK, States
    <2>3. TypeOK' /\ ListInv'
      BY <2>1, <2>2 DEF TypeOK, ListInv, Sound
    <2>4. CountInv'
      BY <2>1, <2>2 DEF CountInv, Tidy, Wanted, IsRegistered, NoRegister
    <2>. QED
      BY <2>3, <2>4 DEF IInv
  <1>4. CASE OpenRegisterFails
    <2>1. /\ Sound(Counted(framework))
          /\ framework' \in RegisterFailed(Counted(framework), FALSE)
          /\ accidents' = accidents \cup {"open_failed_counted"}
          /\ UNCHANGED <<selection, users, selected>>
      <3>1. framework.refcnt <= MaxUsers
        BY <1>4, ConstantsAssumption DEF OpenRegisterFails
      <3>. QED
        BY <1>4, <3>1, CountedKeeps DEF OpenRegisterFails
    <2>2. Sound(framework')
      BY <2>1, RegisterFailedKeeps
    <2>. QED
      BY <2>1, <2>2 DEF IInv, TypeOK, ListInv, Sound, CountInv
  <1>5. CASE OpenFails
    <2>0. PICK f \in Registered(framework, FALSE) : \E g \in Found(f) :
             \/ ~selection.valid /\ framework' = f
             \/ selection.valid /\ FilterFails(Filtered(g)) /\ framework' = Filtered(g)
      BY <1>5 DEF OpenFails
    <2>1. PICK g \in Found(f) :
             \/ ~selection.valid /\ framework' = f
             \/ selection.valid /\ FilterFails(Filtered(g)) /\ framework' = Filtered(g)
      BY <2>0
    <2>2. /\ Sound(f) /\ SameFlags(framework, f) /\ IsRegistered(f)
          /\ Tidy(framework) => Tidy(f)
          /\ f.refcnt = 0
      BY <1>5, RegisteredKeeps DEF OpenFails, SameFlags
    <2>3. CASE framework' = f
      BY <1>5, <2>2, <2>3
      DEF OpenFails, IInv, TypeOK, ListInv, Sound, CountInv, Wanted, Tidy, SameFlags,
          IsRegistered, NoRegister
    <2>4. CASE FilterFails(Filtered(g)) /\ framework' = Filtered(g)
      <3>1. /\ Sound(framework') /\ SameFlags(f, framework')
            /\ framework'.flags = f.flags
            /\ Tidy(f) /\ ~NoRegister(f) => Tidy(framework')
        BY <2>2, <2>4, FilteredKeeps
      <3>2. ~NoRegister(f)
        BY <2>4, <3>1 DEF FilterFails, NoRegister
      <3>3. /\ Tidy(framework) => Tidy(framework')
            /\ framework'.refcnt = 0 /\ framework.refcnt = 0
            /\ users' = users /\ UNCHANGED <<selected, accidents>>
        BY <1>5, <2>2, <3>1, <3>2 DEF OpenFails, SameFlags
      <3>. QED
        BY <3>1, <3>3
        DEF IInv, TypeOK, ListInv, Sound, CountInv, Tidy, IsRegistered, NoRegister
    <2>. QED
      BY <2>1, <2>3, <2>4
  <1>6. CASE OpenFirst
    <2>0. PICK f \in Registered(framework, FALSE) :
             \E g \in Found(f) : \E cs \in SUBSET Filtered(g).components :
                framework' = Counted(ComponentsOpened(Filtered(g), cs))
      BY <1>6 DEF OpenFirst
    <2>1. PICK g \in Found(f) : \E cs \in SUBSET Filtered(g).components :
             framework' = Counted(ComponentsOpened(Filtered(g), cs))
      BY <2>0
    <2>2. /\ Sound(f) /\ SameFlags(framework, f) /\ IsRegistered(f)
          /\ Tidy(framework) => Tidy(f)
          /\ f.refcnt = 0
      BY <1>6, RegisteredKeeps DEF OpenFirst, SameFlags
    <2>3. PICK h : h = Filtered(g)
      OBVIOUS
    <2> PICK cs \in SUBSET h.components :
           framework' = Counted(ComponentsOpened(h, cs))
      BY <2>1, <2>3
    <2>4. /\ Sound(h) /\ SameFlags(f, h) /\ h.flags = f.flags
          /\ h.components \subseteq Wanted
          /\ Tidy(f) => h.loaded = h.components
          /\ h.refcnt = 0 /\ h.opened = {}
      BY <2>2, <2>3, FilteredKeeps DEF SameFlags, Sound
    <2>5. PICK r : r = [h EXCEPT !.opened = @ \cup cs]
      OBVIOUS
    <2>6. cs \subseteq h.components /\ h.components \subseteq Components
      BY <2>4 DEF Sound, States
    <2>7. /\ r \in States /\ r.opened = cs /\ r.components = h.components
          /\ r.loaded = h.loaded /\ r.flags = h.flags /\ r.refcnt = 0
          /\ r.group = h.group /\ r.grouped = h.grouped
      BY <2>4, <2>5, <2>6 DEF Sound, States
    <2>8. PICK k : k = Close(r, h.components \ cs)
      OBVIOUS
    <2>9. /\ k \in States /\ k.opened = cs \ (h.components \ cs)
          /\ k.components = h.components \ (h.components \ cs)
          /\ k.loaded = h.loaded \ (h.components \ cs)
          /\ k.flags = h.flags /\ k.refcnt = 0 /\ k.group = h.group
          /\ k.grouped = h.grouped \ (h.components \ cs)
      <3>1. PICK off : off = h.components \ cs
        OBVIOUS
      <3>2. PICK u : u = Unload(r, off)
        OBVIOUS
      <3>3. /\ u \in States /\ u.opened = cs /\ u.components = h.components \ off
            /\ u.loaded = h.loaded \ off /\ u.flags = h.flags /\ u.refcnt = 0
            /\ u.group = h.group /\ u.grouped = h.grouped \ off
        BY <2>7, <3>2 DEF Unload, States
      <3>4. k = [u EXCEPT !.opened = @ \ off]
        BY <2>8, <3>1, <3>2 DEF Close
      <3>. QED
        BY <3>1, <3>3, <3>4 DEF States
    <2>10. /\ framework' = Counted(k)
           /\ users' = users + 1 /\ framework.refcnt = 0 /\ users < MaxUsers
           /\ UNCHANGED <<selection, selected, accidents>>
      BY <1>6, <2>5, <2>8 DEF OpenFirst, ComponentsOpened
    <2>11. /\ framework' \in States /\ framework'.opened = cs
           /\ framework'.components = cs /\ framework'.loaded = k.loaded
           /\ framework'.flags = h.flags /\ framework'.refcnt = 1
           /\ framework'.group = k.group /\ framework'.grouped = k.grouped
      <3>1. k.opened = cs /\ k.components = cs
        BY <2>6, <2>9
      <3>2. framework' = [k EXCEPT !.refcnt = 1]
        <4>1. k.refcnt + 1 = 1
          BY <2>9
        <4>. QED
          BY <2>10, <4>1 DEF Counted
      <3>. QED
        BY <2>9, <3>1, <3>2 DEF States
    <2>12. /\ IsRegistered(framework') /\ Sound(framework')
           /\ cs \subseteq Wanted
      BY <2>2, <2>4, <2>6, <2>9, <2>11 DEF Sound, IsRegistered
    <2>13. accidents = {} => framework'.loaded = cs
      BY <2>2, <2>4, <2>6, <2>9, <2>11 DEF CountInv
    <2>14. /\ users \in Nat /\ MaxUsers \in Nat
           /\ accidents = {} => users = 0
      BY <2>10, ConstantsAssumption DEF CountInv, TypeOK
    <2>15. TypeOK' /\ ListInv'
      BY <2>10, <2>12, <2>14 DEF TypeOK, ListInv, Sound
    <2>16. CountInv'
      BY <2>10, <2>11, <2>12, <2>13, <2>14 DEF CountInv, Tidy, Wanted
    <2>. QED
      BY <2>15, <2>16 DEF IInv
  <1>7. CASE CloseAgain
    <2>1. /\ framework.refcnt - 1 \in 0..(MaxUsers + 1) /\ framework.refcnt - 1 # 0
      <3>1. framework.refcnt \in 0..(MaxUsers + 1) /\ framework.refcnt > 1
        BY <1>7 DEF CloseAgain, States
      <3>. QED
        BY <3>1, ConstantsAssumption
    <2>2. /\ Sound(framework') /\ framework'.refcnt = framework.refcnt - 1
          /\ framework'.flags = framework.flags
          /\ framework'.components = framework.components
          /\ framework'.loaded = framework.loaded
          /\ framework'.opened = framework.opened
      BY <1>7, <2>1, CountKeeps DEF CloseAgain
    <2>3. /\ framework.refcnt > 1 /\ users > 0 /\ users' = users - 1
          /\ UNCHANGED <<selection, selected, accidents>>
          /\ users \in Nat /\ MaxUsers \in Nat /\ framework.refcnt \in Nat
      BY <1>7, ConstantsAssumption DEF CloseAgain, TypeOK, States
    <2>4. TypeOK' /\ ListInv'
      BY <2>2, <2>3 DEF TypeOK, ListInv, Sound
    <2>5. CountInv'
      BY <2>2, <2>3 DEF CountInv, Tidy, Wanted, IsRegistered, NoRegister
    <2>. QED
      BY <2>4, <2>5 DEF IInv
  <1>8. CASE CloseLast
    <2>1. PICK f : f = Close(framework, framework.components)
      OBVIOUS
    <2>2. framework.components \in SUBSET Components
      BY DEF States
    <2>3. /\ Sound(f) /\ f.flags = framework.flags /\ f.refcnt = framework.refcnt
          /\ f.components = {} /\ f.opened = {}
          /\ f.loaded = framework.loaded \ framework.components
      BY <2>1, <2>2, CloseKeeps DEF Sound
    <2>4. PICK g : g = Deregistered(f)
      OBVIOUS
    <2>5. /\ Sound(g) /\ ~IsRegistered(g) /\ g.components = {} /\ g.opened = {}
          /\ g.loaded = framework.loaded \ framework.components
      BY <2>3, <2>4, DeregisteredKeeps DEF SameFlags
    <2>6. framework' = [g EXCEPT !.refcnt = 0] /\ 0 \in 0..(MaxUsers + 1)
      BY <1>8, <2>1, <2>4, ConstantsAssumption DEF CloseLast
    <2>7. /\ Sound(framework') /\ framework'.refcnt = 0
          /\ framework'.components = {}
          /\ framework'.loaded = framework.loaded \ framework.components
          /\ framework'.flags = g.flags
      BY <2>5, <2>6, CountKeeps
    <2>8. /\ framework.refcnt = 1 /\ users > 0 /\ users' = users - 1
          /\ UNCHANGED <<selection, selected, accidents>>
          /\ users \in Nat /\ MaxUsers \in Nat
      BY <1>8, ConstantsAssumption DEF CloseLast, TypeOK
    <2>9. TypeOK' /\ ListInv'
      BY <2>7, <2>8 DEF TypeOK, ListInv, Sound
    <2>10. CountInv'
      BY <2>5, <2>7, <2>8 DEF CountInv, Tidy, IsRegistered
    <2>. QED
      BY <2>9, <2>10 DEF IInv
  <1>9. CASE CloseUnopened
    <2>1. framework.opened = {}
      BY <1>9 DEF CloseUnopened, Sound
    <2>2. PICK g : g = Deregistered(framework)
      OBVIOUS
    <2>3. Sound(g) /\ g.opened = {}
      BY <2>1, <2>2, DeregisteredKeeps DEF SameFlags
    <2>4. /\ framework' = [g EXCEPT !.components = {}]
          /\ accidents' = accidents \cup {"closed_unopened"}
          /\ UNCHANGED <<selection, users, selected>>
      BY <1>9, <2>2 DEF CloseUnopened
    <2>5. Sound(framework')
      BY <2>3, <2>4 DEF Sound, States, IsRegistered
    <2>. QED
      BY <2>4, <2>5 DEF IInv, TypeOK, ListInv, Sound, CountInv
  <1>10. CASE Select
    <2>1. PICK answers \in [framework.components -> Answers] :
             /\ selected' = [component |-> Best(answers),
                             module |-> IF Best(answers) = NoComponent THEN NoComponent
                                        ELSE ModuleAfter(answers, Best(answers))]
             /\ framework' = Close(framework, framework.components \ {Best(answers)})
      BY <1>10 DEF Select
    <2>2. framework.components \in SUBSET Components
      BY DEF States
    <2>3. Best(answers) \in framework.components \cup {NoComponent}
      BY <2>2, BestType
    <2>4. Best(answers) # NoComponent =>
            ModuleAfter(answers, Best(answers)) \in Components \cup {NoComponent}
      BY <2>2, <2>3, ModuleAfterType
    <2>5. selected' \in [component : Components \cup {NoComponent},
                         module : Components \cup {NoComponent}]
      BY <2>1, <2>2, <2>3, <2>4
    <2>6. /\ Sound(framework') /\ framework'.flags = framework.flags
          /\ framework'.refcnt = framework.refcnt
          /\ framework'.components =
               framework.components \ (framework.components \ {Best(answers)})
          /\ framework'.loaded =
               framework.loaded \ (framework.components \ {Best(answers)})
          /\ framework'.opened =
               framework.opened \ (framework.components \ {Best(answers)})
      BY <2>1, <2>2, CloseKeeps
    <2>. QED
      BY <1>10, <2>5, <2>6
      DEF Select, TypeOK, ListInv, Sound, CountInv, Tidy, Wanted, IInv,
          IsRegistered, NoRegister
  <1>. QED
    BY <1>1, <1>2, <1>3, <1>4, <1>5, <1>6, <1>7, <1>8, <1>9, <1>10 DEF Next

\* Unless something went wrong that the code does not mend, an open framework
\* is open and a closed one has left nothing in memory; and in any case nothing
\* is unloaded that is open or has variables of the framework.
THEOREM FrameworkSound ==
    Spec => []FrameworkIsSound
  <1>1. IInv => FrameworkIsSound
    BY DEF IInv, TypeOK, ListInv, Sound, CountInv, Tidy, FrameworkIsSound,
           OpenMeansOpen, OpenAsPromised, ClosedMeansUnloaded, LoadedWhileUsed,
           IsRegistered
  <1>. QED
    BY <1>1, InitInv, NextInv, PTL DEF Spec

(***************************************************************************)
(* The repository                                                          *)
(***************************************************************************)
Made == 1..Len(ri_name)
Live == {e \in Made : ri_state[e] # "freed"}
Loaded == {e \in Made : ri_state[e] = "open"}
Closing == {e \in Made : ri_state[e] = "closing"}

\* The references to an entry: the lists of dependencies that name it, and
\* where, counted from the end of the list, since they are taken off its front.
References(deps, e) ==
    {r \in (1..Len(deps)) \X (1..MaxDependencies) :
        /\ r[2] <= Len(deps[r[1]])
        /\ deps[r[1]][Len(deps[r[1]]) + 1 - r[2]] = e}

\* The references of users that an entry has.  Opening it took one, which
\* finalize gives up on its way through the list.
Users(e) ==
    IF item = None
    THEN (IF ri_name[e] \in opened THEN 1 ELSE 0) + held[ri_name[e]]
    ELSE IF e >= item THEN 1 ELSE 0

RepositoryShape ==
    /\ initialized \in BOOLEAN /\ finding \in BOOLEAN
    /\ Len(ri_name) <= MaxEntries
    /\ ri_name \in Seq(RepositoryNames)
    /\ ri_state \in Seq({"open", "closing", "freed"})
    /\ refcount \in Seq(Nat)
    /\ ri_dependencies \in Seq(Seq(Nat))
    /\ Len(ri_state) = Len(ri_name) /\ Len(refcount) = Len(ri_name)
    /\ Len(ri_dependencies) = Len(ri_name)
    /\ repository \in Seq(Nat) /\ destructors \in Seq(Nat)
    /\ opened \subseteq RepositoryNames
    /\ held \in [RepositoryNames -> 0..MaxRetains]

InOrder ==
    /\ \A i, j \in 1..Len(repository) : i < j => repository[i] < repository[j]
    /\ ToSet(repository) = Live

OneOfEachName == \A e, f \in Live : ri_name[e] = ri_name[f] => e = f

Links ==
    \A f \in Made :
       /\ Len(ri_dependencies[f]) <= MaxDependencies
       /\ \A k \in 1..Len(ri_dependencies[f]) :
             ri_dependencies[f][k] < f /\ ri_dependencies[f][k] \in Loaded
       /\ ri_state[f] = "freed" => ri_dependencies[f] = <<>>

Nested ==
    /\ \A i, j \in 1..Len(destructors) : i < j => destructors[j] < destructors[i]
    /\ ToSet(destructors) = Closing

Counts ==
    \A e \in Live :
       refcount[e] = Cardinality(References(ri_dependencies, e)) + Users(e)

LoadedIsUsed == \A e \in Made : e \in Loaded <=> refcount[e] > 0

UsedIsLoaded ==
    initialized /\ item = None =>
       \A c \in RepositoryNames :
          c \in opened \/ held[c] > 0 => \E e \in Loaded : ri_name[e] = c

Finalizing == item # None => initialized /\ item \in Live \cup {End}

RepositoryInv ==
    /\ RepositoryShape /\ InOrder /\ OneOfEachName /\ Links /\ Nested /\ Counts
    /\ LoadedIsUsed /\ UsedIsLoaded /\ Finalizing
    /\ ~initialized => repository = <<>>
    /\ dangling = FALSE

-----------------------------------------------------------------------------
(* References, counted *)

LEMMA BoundsAreNumbers ==
    MaxEntries \in Nat /\ MaxRetains \in Nat /\ MaxDependencies \in Nat
  BY RepositoryAssumption

LEMMA ReferencesFinite ==
    ASSUME NEW deps \in Seq(Seq(Nat)), NEW e
    PROVE  /\ IsFiniteSet(References(deps, e))
           /\ Cardinality(References(deps, e)) \in Nat
           /\ Cardinality(References(deps, e)) = 0 <=> References(deps, e) = {}
  <1>1. IsFiniteSet((1..Len(deps)) \X (1..MaxDependencies))
    <2>1. IsFiniteSet(1..Len(deps)) /\ IsFiniteSet(1..MaxDependencies)
      BY FS_Interval, BoundsAreNumbers
    <2>. QED
      BY <2>1, FS_Product
  <1>2. References(deps, e) \in SUBSET ((1..Len(deps)) \X (1..MaxDependencies))
    BY DEF References
  <1>3. IsFiniteSet(References(deps, e))
    BY <1>1, <1>2, FS_Subset
  <1>. QED
    BY <1>3, FS_CardinalityType, FS_EmptySet

LEMMA ReferenceIs ==
    ASSUME NEW deps, NEW e, NEW f, NEW j
    PROVE  <<f, j>> \in References(deps, e) <=>
             /\ f \in 1..Len(deps) /\ j \in 1..MaxDependencies
             /\ j <= Len(deps[f]) /\ deps[f][Len(deps[f]) + 1 - j] = e
  BY DEF References

LEMMA ReferencesArePairs ==
    ASSUME NEW deps, NEW e, NEW r \in References(deps, e)
    PROVE  \E f, j : r = <<f, j>>
  BY DEF References

\* A list of dependencies loses its first.
LEMMA ReferenceTaken ==
    ASSUME NEW deps \in Seq(Seq(Nat)), NEW f \in 1..Len(deps), deps[f] # <<>>,
           Len(deps[f]) <= MaxDependencies, NEW e
    PROVE  LET taken == [deps EXCEPT ![f] = Tail(@)] IN
           IF Head(deps[f]) = e
           THEN /\ <<f, Len(deps[f])>> \in References(deps, e)
                /\ References(taken, e) = References(deps, e) \ {<<f, Len(deps[f])>>}
           ELSE References(taken, e) = References(deps, e)
  <1> DEFINE n == Len(deps[f])
  <1>0. PICK taken : taken = [deps EXCEPT ![f] = Tail(@)]
    OBVIOUS
  <1>1. deps[f] \in Seq(Nat) /\ n \in Nat /\ n # 0
    BY EmptySeq
  <1>2. /\ Tail(deps[f]) \in Seq(Nat) /\ Len(Tail(deps[f])) = n - 1
        /\ \A i \in 1..n - 1 : Tail(deps[f])[i] = deps[f][i + 1]
        /\ Head(deps[f]) = deps[f][1]
    BY <1>1
  <1>3. /\ Len(taken) = Len(deps) /\ taken[f] = Tail(deps[f])
        /\ \A g \in 1..Len(deps) : g # f => taken[g] = deps[g]
    BY <1>0, <1>2
  <1> HIDE DEF n
  <1>4. ASSUME NEW g, NEW j
        PROVE  <<g, j>> \in References(taken, e) <=>
               <<g, j>> \in References(deps, e) /\ ~(g = f /\ j = n)
    <2>1. CASE g # f
      <3>1. <<g, j>> \in References(taken, e) <=>
              /\ g \in 1..Len(taken) /\ j \in 1..MaxDependencies
              /\ j <= Len(taken[g]) /\ taken[g][Len(taken[g]) + 1 - j] = e
        BY ReferenceIs
      <3>2. <<g, j>> \in References(deps, e) <=>
              /\ g \in 1..Len(deps) /\ j \in 1..MaxDependencies
              /\ j <= Len(deps[g]) /\ deps[g][Len(deps[g]) + 1 - j] = e
        BY DEF References
      <3>. QED
        BY <1>3, <2>1, <3>1, <3>2
    <2>2. CASE g = f
      <3>1. <<f, j>> \in References(taken, e) <=>
              /\ j \in 1..MaxDependencies
              /\ j <= n - 1 /\ Tail(deps[f])[n - 1 + 1 - j] = e
        <4>1. <<f, j>> \in References(taken, e) <=>
                /\ f \in 1..Len(taken) /\ j \in 1..MaxDependencies
                /\ j <= Len(taken[f]) /\ taken[f][Len(taken[f]) + 1 - j] = e
          BY ReferenceIs
        <4>. QED
          BY <1>2, <1>3, <4>1
      <3>2. <<f, j>> \in References(deps, e) <=>
              /\ j \in 1..MaxDependencies
              /\ j <= n /\ deps[f][n + 1 - j] = e
        <4>1. <<f, j>> \in References(deps, e) <=>
                /\ f \in 1..Len(deps) /\ j \in 1..MaxDependencies
                /\ j <= Len(deps[f]) /\ deps[f][Len(deps[f]) + 1 - j] = e
          BY DEF References
        <4>. QED
          BY <4>1 DEF n
      <3>3. ASSUME j \in 1..n - 1
            PROVE  Tail(deps[f])[n - 1 + 1 - j] = deps[f][n + 1 - j]
        BY <1>1, <1>2, <3>3
      <3>. QED
        <4>1. CASE j \in 1..n - 1
          <5>1. j <= n /\ j <= n - 1 /\ j # n
            BY <1>1, <4>1
          <5>. QED
            BY <2>2, <3>1, <3>2, <3>3, <4>1, <5>1
        <4>2. CASE j \notin 1..n - 1
          <5>1. ~(j \in 1..MaxDependencies /\ j <= n - 1)
            BY <1>1, <4>2, BoundsAreNumbers
          <5>2. j \in 1..MaxDependencies /\ j <= n => j = n
            BY <1>1, <4>2, BoundsAreNumbers
          <5>. QED
            BY <2>2, <3>1, <3>2, <5>1, <5>2
        <4>. QED
          BY <4>1, <4>2
    <2>. QED
      BY <2>1, <2>2
  <1>5. <<f, n>> \in References(deps, e) <=> Head(deps[f]) = e
    <2>1. n \in 1..MaxDependencies /\ n + 1 - n = 1
      BY <1>1, BoundsAreNumbers DEF n
    <2>. QED
      BY <1>1, <1>2, <2>1, ReferenceIs DEF n
  <1>6. \A r : r \in References(taken, e) <=>
               r \in References(deps, e) /\ r # <<f, n>>
    <2>1. ASSUME NEW r \in References(taken, e)
          PROVE  r \in References(deps, e) /\ r # <<f, n>>
      <3>1. PICK g, j : r = <<g, j>>
        BY ReferencesArePairs
      <3>. QED
        BY <1>4, <2>1, <3>1
    <2>2. ASSUME NEW r \in References(deps, e), r # <<f, n>>
          PROVE  r \in References(taken, e)
      <3>1. PICK g, j : r = <<g, j>>
        BY ReferencesArePairs
      <3>. QED
        BY <1>4, <2>2, <3>1
    <2>. QED
      BY <2>1, <2>2
  <1>7. References(taken, e) = References(deps, e) \ {<<f, n>>}
    BY <1>6
  <1>. QED
    BY <1>0, <1>5, <1>7 DEF n

\* A list of dependencies is added.
LEMMA ReferencesAdded ==
    ASSUME NEW deps \in Seq(Seq(Nat)), NEW l \in Seq(Nat),
           Len(l) <= MaxDependencies, NEW e
    PROVE  /\ Cardinality({k \in 1..Len(l) : l[k] = e}) \in Nat
           /\ Cardinality(References(Append(deps, l), e)) =
                Cardinality(References(deps, e))
                  + Cardinality({k \in 1..Len(l) : l[k] = e})
  <1>0. PICK more : more = Append(deps, l)
    OBVIOUS
  <1> DEFINE f == Len(deps) + 1
             S == {k \in 1..Len(l) : l[k] = e}
             T == {r \in References(more, e) : r[1] = f}
             h == [k \in S |-> <<f, Len(l) + 1 - k>>]
             all == References(more, e)
             old == References(deps, e)
  <1>1. /\ more \in Seq(Seq(Nat)) /\ Len(more) = f
        /\ more[f] = l /\ f \notin 1..Len(deps)
        /\ \A g \in 1..Len(deps) : more[g] = deps[g]
        /\ 1..f = (1..Len(deps)) \cup {f}
    BY <1>0
  <1> HIDE DEF f
  <1>2. IsFiniteSet(S) /\ Cardinality(S) \in Nat
    <2>1. IsFiniteSet(1..Len(l)) /\ S \in SUBSET (1..Len(l))
      BY FS_Interval
    <2>. QED
      BY <2>1, FS_Subset, FS_CardinalityType
  <1>3. ASSUME NEW g, NEW j
        PROVE  /\ <<g, j>> \in old <=> <<g, j>> \in all /\ g # f
               /\ <<f, j>> \in all <=> j \in 1..Len(l) /\ l[Len(l) + 1 - j] = e
    <2>1. <<g, j>> \in old <=> <<g, j>> \in all /\ g # f
      <3>1. <<g, j>> \in all <=>
              /\ g \in 1..Len(more) /\ j \in 1..MaxDependencies
              /\ j <= Len(more[g]) /\ more[g][Len(more[g]) + 1 - j] = e
        BY ReferenceIs
      <3>2. <<g, j>> \in old <=>
              /\ g \in 1..Len(deps) /\ j \in 1..MaxDependencies
              /\ j <= Len(deps[g]) /\ deps[g][Len(deps[g]) + 1 - j] = e
        BY ReferenceIs
      <3>. HIDE DEF all, old
      <3>. QED
        BY <1>1, <3>1, <3>2
    <2>2. <<f, j>> \in all <=> /\ f \in 1..f /\ j \in 1..MaxDependencies
                               /\ j <= Len(l) /\ l[Len(l) + 1 - j] = e
      <3>1. <<f, j>> \in all <=>
              /\ f \in 1..Len(more) /\ j \in 1..MaxDependencies
              /\ j <= Len(more[f]) /\ more[f][Len(more[f]) + 1 - j] = e
        BY ReferenceIs
      <3>. HIDE DEF all, old
      <3>. QED
        BY <1>1, <3>1
    <2>3. f \in 1..f /\ (j \in 1..MaxDependencies /\ j <= Len(l) <=> j \in 1..Len(l))
      BY <1>1, BoundsAreNumbers
    <2>. QED
      BY <2>1, <2>2, <2>3
  <1>4. all = old \cup T /\ old \cap T = {}
    <2>1. ASSUME NEW r \in all PROVE r \in old \/ r \in T
      <3>1. PICK g, j : r = <<g, j>>
        BY ReferencesArePairs
      <3>. QED
        BY <1>3, <3>1
    <2>2. ASSUME NEW r \in old PROVE r \in all /\ r \notin T
      <3>1. PICK g, j : r = <<g, j>>
        BY ReferencesArePairs
      <3>. QED
        BY <1>3, <3>1
    <2>. QED
      BY <2>1, <2>2
  <1>5. ExistsBijection(S, T)
    <2>1. h \in [S -> T]
      <3>1. ASSUME NEW k \in S PROVE <<f, Len(l) + 1 - k>> \in T
        <4>1. /\ Len(l) + 1 - k \in 1..Len(l)
              /\ Len(l) + 1 - (Len(l) + 1 - k) = k /\ l[k] = e
          OBVIOUS
        <4>. QED
          BY <1>3, <4>1
      <3>. QED
        BY <3>1
    <2>2. \A k, m \in S : h[k] = h[m] => k = m
      <3>1. ASSUME NEW k \in S, NEW m \in S, h[k] = h[m] PROVE k = m
        <4>1. Len(l) + 1 - k = Len(l) + 1 - m
          BY <3>1
        <4>. QED
          BY <4>1
      <3>. QED
        BY <3>1
    <2>3. \A r \in T : \E k \in S : h[k] = r
      <3>1. ASSUME NEW r \in T PROVE \E k \in S : h[k] = r
        <4>1. PICK g, j : r = <<g, j>>
          BY ReferencesArePairs
        <4>2. g = f /\ j \in 1..Len(l) /\ l[Len(l) + 1 - j] = e
          BY <1>3, <4>1
        <4>3. /\ Len(l) + 1 - j \in S
              /\ Len(l) + 1 - (Len(l) + 1 - j) = j
          BY <4>2
        <4>4. h[Len(l) + 1 - j] = <<f, Len(l) + 1 - (Len(l) + 1 - j)>>
          BY <4>3
        <4>. QED
          BY <4>1, <4>2, <4>3, <4>4
      <3>. QED
        BY <3>1
    <2>. QED
      <3>1. h \in Injection(S, T)
        BY <2>1, <2>2 DEF Injection, IsInjective
      <3>2. h \in Surjection(S, T)
        BY <2>1, <2>3 DEF Surjection
      <3>. QED
        BY <3>1, <3>2 DEF ExistsBijection, Bijection
  <1>6. IsFiniteSet(T) /\ Cardinality(T) = Cardinality(S)
    BY <1>2, <1>5, FS_Bijection
  <1>7. IsFiniteSet(old) /\ Cardinality(old) \in Nat
    BY ReferencesFinite
  <1>8. Cardinality(old \cup T) = Cardinality(old) + Cardinality(T) - Cardinality(old \cap T)
    BY <1>6, <1>7, FS_Union
  <1>9. Cardinality(old \cap T) = 0
    BY <1>4, FS_EmptySet
  <1>10. Cardinality(all) = Cardinality(old) + Cardinality(S)
    <2>1. all = old \cup T
      BY <1>4
    <2> HIDE DEF all, old, S, T
    <2>. QED
      BY <1>2, <1>6, <1>7, <1>8, <1>9, <2>1
  <1>. QED
    BY <1>0, <1>2, <1>10

-----------------------------------------------------------------------------
(* The list *)

\* The list without its item k.
LEMMA RemovedItem ==
  ASSUME NEW S, NEW s \in Seq(S), NEW k \in 1..Len(s)
  PROVE  /\ RemoveAt(s, k) \in Seq(S) /\ Len(RemoveAt(s, k)) = Len(s) - 1
         /\ \A j \in 1..(Len(s) - 1) :
              RemoveAt(s, k)[j] = IF j < k THEN s[j] ELSE s[j + 1]
  <1>1. Len(s) \in Nat
    OBVIOUS
  <1>2. PICK before : before = SubSeq(s, 1, k - 1)
    OBVIOUS
  <1>3. PICK after : after = SubSeq(s, k + 1, Len(s))
    OBVIOUS
  <1>4. /\ before \in Seq(S) /\ Len(before) = k - 1
        /\ \A j \in 1..(k - 1) : before[j] = s[j]
    BY <1>1, <1>2, SubSeqProperties
  <1>5. /\ after \in Seq(S) /\ Len(after) = Len(s) - k
        /\ \A j \in 1..(Len(s) - k) : after[j] = s[k + j]
    BY <1>1, <1>3, SubSeqProperties
  <1>6. RemoveAt(s, k) = before \o after
    BY <1>2, <1>3 DEF RemoveAt
  <1>7. /\ before \o after \in Seq(S) /\ Len(before \o after) = Len(s) - 1
        /\ \A j \in 1..(Len(s) - 1) : (before \o after)[j] =
              IF j < k THEN before[j] ELSE after[j - (k - 1)]
    <2>1. Len(before) + Len(after) = Len(s) - 1
      BY <1>1, <1>4, <1>5
    <2>2. /\ before \o after \in Seq(S)
          /\ Len(before \o after) = Len(before) + Len(after)
          /\ \A j \in 1..(Len(before) + Len(after)) : (before \o after)[j] =
                IF j <= Len(before) THEN before[j] ELSE after[j - Len(before)]
      BY <1>4, <1>5, ConcatProperties
    <2>3. \A j \in 1..(Len(s) - 1) : j <= Len(before) <=> j < k
      BY <1>1, <1>4
    <2>. QED
      BY <1>4, <2>1, <2>2, <2>3
  <1>8. ASSUME NEW j \in 1..(Len(s) - 1)
        PROVE  (before \o after)[j] = IF j < k THEN s[j] ELSE s[j + 1]
    <2>1. CASE j < k
      BY <1>4, <1>7, <2>1
    <2>2. CASE ~(j < k)
      <3>1. j - (k - 1) \in 1..(Len(s) - k) /\ k + (j - (k - 1)) = j + 1
        BY <1>1, <2>2
      <3>. QED
        BY <1>5, <1>7, <2>2, <3>1
    <2>. QED
      BY <2>1, <2>2
  <1>. QED
    BY <1>6, <1>7, <1>8

LEMMA SetOfSequence ==
    ASSUME NEW s, NEW S, s \in Seq(S), NEW e
    PROVE  e \in ToSet(s) <=> \E k \in 1..Len(s) : s[k] = e
  BY DEF ToSet

LEMMA SortedRemoval ==
    ASSUME NEW s \in Seq(Nat), NEW k \in 1..Len(s),
           \A i, j \in 1..Len(s) : i < j => s[i] < s[j]
    PROVE  LET r == RemoveAt(s, k) IN
           /\ r \in Seq(Nat)
           /\ \A i, j \in 1..Len(r) : i < j => r[i] < r[j]
           /\ ToSet(r) = ToSet(s) \ {s[k]}
  <1>1. PICK r : r = RemoveAt(s, k)
    OBVIOUS
  <1>2. /\ r \in Seq(Nat) /\ Len(r) = Len(s) - 1 /\ Len(s) \in Nat
        /\ \A j \in 1..Len(s) - 1 : r[j] = IF j < k THEN s[j] ELSE s[j + 1]
    <2>1. /\ RemoveAt(s, k) \in Seq(Nat) /\ Len(RemoveAt(s, k)) = Len(s) - 1
          /\ \A j \in 1..Len(s) - 1 :
               RemoveAt(s, k)[j] = IF j < k THEN s[j] ELSE s[j + 1]
      BY RemovedItem
    <2>. QED
      BY <1>1, <2>1
  <1>3. ASSUME NEW i \in 1..Len(r), NEW j \in 1..Len(r), i < j
        PROVE  r[i] < r[j]
    <2>1. i \in 1..Len(s) /\ i + 1 \in 1..Len(s) /\ j \in 1..Len(s) /\ j + 1 \in 1..Len(s)
      BY <1>2
    <2>2. r[i] = IF i < k THEN s[i] ELSE s[i + 1]
      BY <1>2
    <2>3. r[j] = IF j < k THEN s[j] ELSE s[j + 1]
      BY <1>2
    <2>4. s[i] < s[j] /\ s[i + 1] < s[j + 1] /\ s[i] < s[j + 1]
      BY <1>3, <2>1
    <2>. QED
      BY <1>3, <2>1, <2>2, <2>3, <2>4
  <1>4. ASSUME NEW e
        PROVE  e \in ToSet(r) <=> e \in ToSet(s) /\ e # s[k]
    <2>1. ASSUME e \in ToSet(r) PROVE e \in ToSet(s) /\ e # s[k]
      <3>1. PICK j \in 1..Len(r) : r[j] = e
        BY <1>2, <2>1, SetOfSequence
      <3>2. j \in 1..Len(s) /\ j + 1 \in 1..Len(s)
        BY <1>2
      <3>3. CASE j < k
        <4>1. e = s[j]
          BY <1>2, <3>1, <3>3
        <4>2. s[j] < s[k] /\ s[j] \in Nat /\ s[k] \in Nat
          BY <3>2, <3>3
        <4>. QED
          BY <3>2, <4>1, <4>2, SetOfSequence
      <3>4. CASE ~(j < k)
        <4>1. e = s[j + 1]
          BY <1>2, <3>1, <3>4
        <4>2. k < j + 1
          BY <1>2, <3>4
        <4>3. s[k] < s[j + 1] /\ s[j + 1] \in Nat /\ s[k] \in Nat
          BY <3>2, <4>2
        <4>. QED
          BY <3>2, <4>1, <4>3, SetOfSequence
      <3>. QED
        BY <3>3, <3>4
    <2>2. ASSUME e \in ToSet(s), e # s[k] PROVE e \in ToSet(r)
      <3>1. PICK j \in 1..Len(s) : s[j] = e
        BY <2>2, SetOfSequence
      <3>2. CASE j < k
        <4>1. j \in 1..Len(r) /\ r[j] = e
          BY <1>2, <3>1, <3>2
        <4>. QED
          BY <1>2, <4>1, SetOfSequence
      <3>3. CASE k < j
        <4>1. j - 1 \in 1..Len(r) /\ ~(j - 1 < k) /\ j - 1 + 1 = j
          BY <1>2, <3>3
        <4>2. r[j - 1] = e
          BY <1>2, <3>1, <4>1
        <4>. QED
          BY <1>2, <4>1, <4>2, SetOfSequence
      <3>4. j # k
        BY <2>2, <3>1
      <3>. QED
        BY <3>2, <3>3, <3>4
    <2>. QED
      BY <2>1, <2>2
  <1>5. ToSet(r) = ToSet(s) \ {s[k]}
    BY <1>4
  <1>. QED
    BY <1>1, <1>2, <1>3, <1>5

LEMMA Appended ==
    ASSUME NEW S, NEW s \in Seq(S), NEW e \in S
    PROVE  /\ Append(s, e) \in Seq(S) /\ Len(Append(s, e)) = Len(s) + 1
           /\ Append(s, e)[Len(s) + 1] = e
           /\ \A k \in 1..Len(s) : Append(s, e)[k] = s[k]
           /\ ToSet(Append(s, e)) = ToSet(s) \cup {e}
  <1>1. PICK t : t = Append(s, e)
    OBVIOUS
  <1>2. /\ t \in Seq(S) /\ Len(t) = Len(s) + 1 /\ t[Len(s) + 1] = e /\ Len(s) \in Nat
        /\ \A k \in 1..Len(s) : t[k] = s[k]
    BY <1>1
  <1>3. \A d : d \in ToSet(t) <=> d \in ToSet(s) \cup {e}
    <2>1. ASSUME NEW d PROVE d \in ToSet(t) <=> d \in ToSet(s) \cup {e}
      <3>1. d \in ToSet(t) <=> \E k \in 1..Len(s) + 1 : t[k] = d
        BY <1>2, SetOfSequence
      <3>2. d \in ToSet(s) <=> \E k \in 1..Len(s) : s[k] = d
        BY SetOfSequence
      <3>. QED
        BY <1>2, <3>1, <3>2
    <2>. QED
      BY <2>1
  <1>. QED
    BY <1>1, <1>2, <1>3

\* The destructor that runs returns.
LEMMA Returned ==
    ASSUME NEW s \in Seq(Nat), s # <<>>,
           \A i, j \in 1..Len(s) : i < j => s[j] < s[i]
    PROVE  /\ Last(s) \in ToSet(s) /\ Front(s) \in Seq(Nat)
           /\ \A i, j \in 1..Len(Front(s)) : i < j => Front(s)[j] < Front(s)[i]
           /\ ToSet(Front(s)) = ToSet(s) \ {Last(s)}
  <1>1. PICK t : t = Front(s)
    OBVIOUS
  <1>2. Len(s) \in Nat /\ Len(s) > 0 /\ Last(s) = s[Len(s)]
    BY EmptySeq DEF Last
  <1>3. /\ t \in Seq(Nat) /\ Len(t) = Len(s) - 1
        /\ \A k \in 1..Len(s) - 1 : t[k] = s[k]
    <2>1. /\ SubSeq(s, 1, Len(s) - 1) \in Seq(Nat)
          /\ Len(SubSeq(s, 1, Len(s) - 1)) = Len(s) - 1
          /\ \A k \in 1..Len(s) - 1 : SubSeq(s, 1, Len(s) - 1)[k] = s[k]
      <3>1. PICK m \in Nat : m = Len(s) - 1
        BY <1>2
      <3>2. \A k \in 1..m : s[k] \in Nat
        BY <1>2, <3>1
      <3>3. /\ SubSeq(s, 1, m) \in Seq(Nat)
            /\ Len(SubSeq(s, 1, m)) = IF 1 <= m THEN m - 1 + 1 ELSE 0
            /\ \A k \in 1..m - 1 + 1 : SubSeq(s, 1, m)[k] = s[1 + k - 1]
        BY <3>2, SubSeqProperties
      <3>4. \A k \in 1..m : 1 + k - 1 = k /\ k \in 1..m - 1 + 1
        BY <3>1
      <3>5. \A k \in 1..m : SubSeq(s, 1, m)[k] = s[k]
        BY <3>3, <3>4
      <3>. QED
        BY <3>1, <3>3, <3>5
    <2>. QED
      BY <1>1, <2>1 DEF Front
  <1>4. Last(s) \in ToSet(s)
    <2>1. Len(s) \in 1..Len(s)
      BY <1>2
    <2>. QED
      BY <1>2, <2>1, SetOfSequence
  <1>5. ASSUME NEW d PROVE d \in ToSet(t) <=> d \in ToSet(s) /\ d # Last(s)
    <2>1. d \in ToSet(t) <=> \E k \in 1..Len(s) - 1 : s[k] = d
      <3>1. d \in ToSet(t) <=> \E k \in 1..Len(t) : t[k] = d
        BY <1>3, SetOfSequence
      <3>. QED
        BY <1>3, <3>1
    <2>2. d \in ToSet(s) <=> \E k \in 1..Len(s) : s[k] = d
      BY SetOfSequence
    <2>3. \A k \in 1..Len(s) - 1 : s[k] # s[Len(s)]
      <3>1. ASSUME NEW k \in 1..Len(s) - 1 PROVE s[k] # s[Len(s)]
        <4>1. k \in 1..Len(s) /\ Len(s) \in 1..Len(s) /\ k < Len(s)
          BY <1>2
        <4>2. s[Len(s)] < s[k] /\ s[k] \in Nat /\ s[Len(s)] \in Nat
          BY <4>1
        <4>. QED
          BY <4>2
      <3>. QED
        BY <3>1
    <2>4. 1..Len(s) = (1..Len(s) - 1) \cup {Len(s)}
      BY <1>2
    <2>. QED
      BY <1>2, <2>1, <2>2, <2>3, <2>4
  <1>6. ASSUME NEW i \in 1..Len(t), NEW j \in 1..Len(t), i < j PROVE t[j] < t[i]
    <2>1. i \in 1..Len(s) - 1 /\ j \in 1..Len(s) - 1
      BY <1>3
    <2>2. i \in 1..Len(s) /\ j \in 1..Len(s)
      BY <1>2, <2>1
    <2>3. t[i] = s[i] /\ t[j] = s[j]
      BY <1>3
    <2>. QED
      BY <1>6, <2>2, <2>3
  <1>7. ToSet(t) = ToSet(s) \ {Last(s)}
    BY <1>5
  <1>. QED
    BY <1>1, <1>3, <1>4, <1>6, <1>7

\* find_component finds the entry of a name.
LEMMA EntryFound ==
    ASSUME RepositoryInv, NEW c
    PROVE  /\ \A e \in Live : ri_name[e] = c => find_component(repository, c) = e
           /\ find_component(repository, c) # None =>
                /\ find_component(repository, c) \in Live
                /\ ri_name[find_component(repository, c)] = c
  <1> DEFINE found == {k \in DOMAIN repository : ri_name[repository[k]] = c}
  <1>1. /\ repository \in Seq(Nat) /\ DOMAIN repository = 1..Len(repository)
        /\ ToSet(repository) = Live /\ Len(repository) \in Nat
        /\ \A i, j \in 1..Len(repository) : i < j => repository[i] < repository[j]
        /\ \A e, f \in Live : ri_name[e] = ri_name[f] => e = f
    BY DEF RepositoryInv, RepositoryShape, InOrder, OneOfEachName
  <1>2. \A k \in 1..Len(repository) : repository[k] \in Live
    BY <1>1, SetOfSequence
  <1>3. ASSUME NEW k \in found, NEW j \in found PROVE k = j
    <2>1. repository[k] = repository[j]
      BY <1>1, <1>2
    <2>2. k \in 1..Len(repository) /\ j \in 1..Len(repository)
      BY <1>1
    <2>3. repository[k] \in Nat /\ repository[j] \in Nat
      BY <1>1, <2>2
    <2>. QED
      BY <1>1, <2>1, <2>2, <2>3
  <1>4. ASSUME NEW k \in found
        PROVE  find_component(repository, c) = repository[k]
    <2>1. \A j \in found : k <= j
      BY <1>1, <1>3
    <2>2. (CHOOSE i \in found : \A j \in found : i <= j) \in found
      BY <2>1
    <2>. QED
      BY <1>3, <2>2 DEF find_component
  <1>5. ASSUME find_component(repository, c) # None PROVE found # {}
    BY <1>5 DEF find_component
  <1>6. ASSUME NEW e \in Live, ri_name[e] = c
        PROVE  find_component(repository, c) = e
    <2>1. PICK k \in 1..Len(repository) : repository[k] = e
      BY <1>1, SetOfSequence
    <2>2. k \in found
      BY <1>1, <1>6, <2>1
    <2>. QED
      BY <1>4, <2>1, <2>2
  <1>. QED
    BY <1>1, <1>2, <1>4, <1>5, <1>6

-----------------------------------------------------------------------------
(* A reference is released *)

\* What a release changes, of an entry whose file is open.
LEMMA DropChanges ==
    ASSUME RepositoryInv, NEW e \in Loaded, NEW deps, Drop(e, deps),
           ri_name' = ri_name
    PROVE  /\ ri_dependencies' = deps /\ dangling' = FALSE
           /\ refcount[e] \in Nat /\ refcount[e] > 0
           /\ refcount' \in Seq(Nat) /\ Len(refcount') = Len(ri_name)
           /\ refcount'[e] = refcount[e] - 1
           /\ \A f \in Made \ {e} : refcount'[f] = refcount[f]
           /\ ri_state' \in Seq({"open", "closing", "freed"})
           /\ Len(ri_state') = Len(ri_name)
           /\ ri_state'[e] = IF refcount[e] = 1 THEN "closing" ELSE "open"
           /\ \A f \in Made \ {e} : ri_state'[f] = ri_state[f]
           /\ destructors' = IF refcount[e] = 1 THEN Append(destructors, e)
                             ELSE destructors
           /\ Made' = Made /\ Live' = Live
           /\ Loaded' = IF refcount[e] = 1 THEN Loaded \ {e} ELSE Loaded
           /\ Closing' = IF refcount[e] = 1 THEN Closing \cup {e} ELSE Closing
  <1>1. /\ e \in Made /\ e \in 1..Len(ri_state) /\ e \in 1..Len(refcount)
        /\ ri_state[e] = "open" /\ Len(ri_name) \in Nat
        /\ Len(ri_state) = Len(ri_name) /\ Len(refcount) = Len(ri_name)
        /\ ri_state \in Seq({"open", "closing", "freed"}) /\ refcount \in Seq(Nat)
        /\ refcount[e] > 0 /\ refcount[e] \in Nat /\ dangling = FALSE
    BY DEF RepositoryInv, RepositoryShape, LoadedIsUsed, Loaded, Made
  <1>2. /\ refcount' = [refcount EXCEPT ![e] = refcount[e] - 1]
        /\ ri_dependencies' = deps /\ dangling' = dangling
        /\ IF refcount[e] = 1
           THEN /\ ri_state' = [ri_state EXCEPT ![e] = "closing"]
                /\ destructors' = Append(destructors, e)
           ELSE ri_state' = ri_state /\ destructors' = destructors
    BY <1>1 DEF Drop
  <1>3. /\ refcount' \in Seq(Nat) /\ Len(refcount') = Len(ri_name)
        /\ refcount'[e] = refcount[e] - 1
        /\ \A f \in Made \ {e} : refcount'[f] = refcount[f]
    <2>1. refcount[e] - 1 \in Nat
      BY <1>1
    <2>2. [refcount EXCEPT ![e] = refcount[e] - 1] \in Seq(Nat)
      BY <1>1, <2>1, ExceptSeq
    <2>. QED
      BY <1>1, <1>2, <2>2 DEF Made
  <1>4. /\ ri_state' \in Seq({"open", "closing", "freed"})
        /\ Len(ri_state') = Len(ri_name)
        /\ ri_state'[e] = IF refcount[e] = 1 THEN "closing" ELSE "open"
        /\ \A f \in Made \ {e} : ri_state'[f] = ri_state[f]
    <2>1. [ri_state EXCEPT ![e] = "closing"] \in Seq({"open", "closing", "freed"})
      BY <1>1, ExceptSeq
    <2>2. CASE refcount[e] = 1
      <3>1. ri_state' = [ri_state EXCEPT ![e] = "closing"]
        BY <1>2, <2>2
      <3>2. /\ Len(ri_state') = Len(ri_state) /\ ri_state'[e] = "closing"
            /\ \A f \in Made \ {e} : ri_state'[f] = ri_state[f]
        BY <1>1, <3>1 DEF Made
      <3>. QED
        BY <1>1, <2>1, <2>2, <3>1, <3>2
    <2>3. CASE refcount[e] # 1
      BY <1>1, <1>2, <2>3
    <2>. QED
      BY <2>2, <2>3
  <1>5. Made' = Made
    BY DEF Made
  <1>6. /\ Live' = Live
        /\ Loaded' = IF refcount[e] = 1 THEN Loaded \ {e} ELSE Loaded
        /\ Closing' = IF refcount[e] = 1 THEN Closing \cup {e} ELSE Closing
    BY <1>1, <1>4, <1>5 DEF Live, Loaded, Closing
  <1>. QED
    BY <1>1, <1>2, <1>3, <1>4, <1>5, <1>6

\* What is released comes below the destructor that runs, and the counts will
\* agree with the references there are.
Agrees(e, deps) ==
    /\ destructors # <<>> => e < Last(destructors)
    /\ UNCHANGED <<initialized, repository, ri_name>>
    /\ finding' \in BOOLEAN /\ opened' \subseteq RepositoryNames
    /\ held' \in [RepositoryNames -> 0..MaxRetains]
    /\ deps \in Seq(Seq(Nat)) /\ Len(deps) = Len(ri_name)
    /\ \A f \in Made :
          /\ Len(deps[f]) <= MaxDependencies
          /\ \A k \in 1..Len(deps[f]) : deps[f][k] < f /\ deps[f][k] \in Loaded
          /\ ri_state[f] = "freed" => deps[f] = <<>>
    /\ \A f \in Live : (IF f = e THEN refcount[f] - 1 ELSE refcount[f])
                          = Cardinality(References(deps, f)) + Users(f)'
    /\ initialized /\ item' = None =>
          \A c \in RepositoryNames :
             c \in opened' \/ held'[c] > 0 => \E f \in Loaded : ri_name[f] = c
    /\ item' # None => initialized /\ item' \in Live \cup {End}

\* Then a release keeps the invariant: an entry that is left with no reference
\* is in nobody's dependencies and has no user.
LEMMA DropKeeps ==
    ASSUME RepositoryInv, NEW e \in Loaded, NEW deps, Drop(e, deps), Agrees(e, deps)
    PROVE  RepositoryInv'
  <1> USE DEF Agrees
  <1>1. /\ ri_dependencies' = deps /\ dangling' = FALSE
        /\ refcount[e] \in Nat /\ refcount[e] > 0
        /\ refcount' \in Seq(Nat) /\ Len(refcount') = Len(ri_name)
        /\ refcount'[e] = refcount[e] - 1
        /\ \A f \in Made \ {e} : refcount'[f] = refcount[f]
        /\ ri_state' \in Seq({"open", "closing", "freed"})
        /\ Len(ri_state') = Len(ri_name)
        /\ ri_state'[e] = IF refcount[e] = 1 THEN "closing" ELSE "open"
        /\ \A f \in Made \ {e} : ri_state'[f] = ri_state[f]
        /\ destructors' = IF refcount[e] = 1 THEN Append(destructors, e)
                          ELSE destructors
        /\ Made' = Made /\ Live' = Live
        /\ Loaded' = IF refcount[e] = 1 THEN Loaded \ {e} ELSE Loaded
        /\ Closing' = IF refcount[e] = 1 THEN Closing \cup {e} ELSE Closing
    BY DropChanges
  <1>2. e \in Made /\ e \in Nat /\ e \in Live /\ ri_state[e] = "open"
    BY DEF Loaded, Made, Live
  <1>3. RepositoryShape'
    <2>1. destructors' \in Seq(Nat)
      BY <1>1, <1>2 DEF RepositoryInv, RepositoryShape
    <2>. QED
      BY <1>1, <2>1 DEF RepositoryInv, RepositoryShape
  <1>4. InOrder'
    BY <1>1 DEF RepositoryInv, InOrder
  <1>5. OneOfEachName'
    BY <1>1 DEF RepositoryInv, OneOfEachName
  <1>6. Counts'
    <2>1. ASSUME NEW f \in Live
          PROVE  refcount'[f] = Cardinality(References(deps, f)) + Users(f)'
      <3>1. f \in Made
        BY DEF Live
      <3>2. refcount'[f] = IF f = e THEN refcount[f] - 1 ELSE refcount[f]
        BY <1>1, <3>1
      <3>. QED
        BY <3>2
    <2>. QED
      BY <1>1, <2>1 DEF Counts
  \* The last reference was: no list of dependencies has one, and no user.
  <1>7. ASSUME refcount[e] = 1
        PROVE  References(deps, e) = {} /\ Users(e)' = 0
    <2>1. Cardinality(References(deps, e)) + Users(e)' = 0
      BY <1>1, <1>2, <1>7
    <2>2. /\ Cardinality(References(deps, e)) \in Nat
          /\ Cardinality(References(deps, e)) = 0 <=> References(deps, e) = {}
      BY ReferencesFinite
    <2>3. Users(e)' \in Nat
      <3>1. e \in 1..Len(ri_name) /\ ri_name \in Seq(RepositoryNames)
        BY <1>2 DEF Made, RepositoryInv, RepositoryShape
      <3>2. ri_name[e] \in RepositoryNames /\ ri_name' = ri_name
        BY <3>1, ElementOfSeq
      <3>3. held'[ri_name'[e]] \in Nat
        BY <3>2, BoundsAreNumbers
      <3>. QED
        BY <3>3 DEF Users
    <2>. QED
      BY <2>1, <2>2, <2>3
  <1>8. Links'
    <2>1. ASSUME NEW f \in Made, NEW k \in 1..Len(deps[f]), refcount[e] = 1
          PROVE  deps[f][k] # e
      <3>1. SUFFICES ASSUME deps[f][k] = e PROVE FALSE
        OBVIOUS
      <3>2. /\ Len(deps[f]) \in Nat /\ Len(deps[f]) <= MaxDependencies
            /\ f \in 1..Len(deps)
        <4>1. deps \in Seq(Seq(Nat)) /\ Len(deps) = Len(ri_name)
          OBVIOUS
        <4>2. f \in 1..Len(deps)
          BY <4>1 DEF Made
        <4>3. deps[f] \in Seq(Nat)
          BY <4>1, <4>2, ElementOfSeq
        <4>4. Len(deps[f]) <= MaxDependencies
          OBVIOUS
        <4>. QED
          BY <4>2, <4>3, <4>4
      <3>3. /\ Len(deps[f]) + 1 - k \in 1..MaxDependencies
            /\ Len(deps[f]) + 1 - k <= Len(deps[f])
            /\ Len(deps[f]) + 1 - (Len(deps[f]) + 1 - k) = k
        <4>1. PICK n \in Nat : n = Len(deps[f])
          BY <3>2
        <4>2. MaxDependencies \in Nat /\ n <= MaxDependencies /\ k \in 1..n
          BY <3>2, <4>1, BoundsAreNumbers
        <4>3. n + 1 - k \in 1..MaxDependencies /\ n + 1 - k <= n /\ n + 1 - (n + 1 - k) = k
          BY <4>2
        <4>. QED
          BY <4>1, <4>3
      <3>4. <<f, Len(deps[f]) + 1 - k>> \in References(deps, e)
        BY <3>1, <3>2, <3>3 DEF References
      <3>. QED
        BY <1>7, <2>1, <3>4
    <2>2. ASSUME NEW f \in Made, NEW k \in 1..Len(deps[f])
          PROVE  deps[f][k] < f /\ deps[f][k] \in Loaded'
      BY <1>1, <2>1
    <2>3. ASSUME NEW f \in Made, ri_state'[f] = "freed"
          PROVE  deps[f] = <<>>
      BY <1>1, <2>3
    <2>. QED
      BY <1>1, <2>2, <2>3 DEF Links
  <1>9. Nested'
    <2>1. /\ \A i, j \in 1..Len(destructors) : i < j => destructors[j] < destructors[i]
          /\ ToSet(destructors) = Closing /\ destructors \in Seq(Nat)
      BY DEF RepositoryInv, RepositoryShape, Nested
    <2>2. CASE refcount[e] # 1
      BY <1>1, <2>1, <2>2 DEF Nested
    <2>3. CASE refcount[e] = 1
      <3>1. PICK t : t = Append(destructors, e)
        OBVIOUS
      <3>2. /\ t \in Seq(Nat) /\ Len(t) = Len(destructors) + 1
            /\ t[Len(destructors) + 1] = e /\ Len(destructors) \in Nat
            /\ \A k \in 1..Len(destructors) : t[k] = destructors[k]
            /\ ToSet(t) = ToSet(destructors) \cup {e}
        <4> HIDE DEF Agrees
        <4>1. destructors \in Seq(Nat) /\ Len(destructors) \in Nat
          BY <2>1
        <4>. QED
          BY <1>2, <3>1, <4>1, Appended
      <3>3. \A k \in 1..Len(destructors) : e < destructors[k]
        <4>1. ASSUME NEW k \in 1..Len(destructors) PROVE e < destructors[k]
          <5>1. destructors # <<>> /\ Len(destructors) \in 1..Len(destructors)
            BY <3>2, EmptySeq
          <5>2. e < destructors[Len(destructors)]
            BY <5>1 DEF Last
          <5>3. destructors[k] \in Nat /\ destructors[Len(destructors)] \in Nat
            BY <2>1, <5>1
          <5>4. k = Len(destructors) \/ destructors[Len(destructors)] < destructors[k]
            BY <2>1, <3>2, <5>1
          <5>. QED
            BY <1>2, <5>2, <5>3, <5>4
        <4>. QED
          BY <4>1
      <3>4. ASSUME NEW i \in 1..Len(t), NEW j \in 1..Len(t), i < j
            PROVE  t[j] < t[i]
        <4>1. i \in 1..Len(destructors) /\ t[i] = destructors[i]
          BY <3>2, <3>4
        <4>2. CASE j \in 1..Len(destructors)
          BY <2>1, <3>2, <3>4, <4>1, <4>2
        <4>3. CASE j = Len(destructors) + 1
          BY <3>2, <3>3, <4>1, <4>3
        <4>. QED
          BY <3>2, <4>2, <4>3
      <3>5. destructors' = t
        BY <1>1, <2>3, <3>1
      <3>6. ToSet(t) = Closing'
        BY <1>1, <2>1, <2>3, <3>2
      <3>. QED
        BY <3>4, <3>5, <3>6 DEF Nested
    <2>. QED
      BY <2>2, <2>3
  <1>10. LoadedIsUsed'
    <2>1. ASSUME NEW f \in Made PROVE f \in Loaded' <=> refcount'[f] > 0
      <3>1. f \in Loaded <=> refcount[f] > 0
        BY DEF RepositoryInv, LoadedIsUsed
      <3>2. CASE f = e
        BY <1>1, <3>1, <3>2
      <3>3. CASE f # e
        BY <1>1, <3>1, <3>3
      <3>. QED
        BY <3>2, <3>3
    <2>. QED
      BY <1>1, <2>1 DEF LoadedIsUsed
  <1>11. UsedIsLoaded'
    <2>1. ASSUME initialized, item' = None, NEW c \in RepositoryNames,
                 c \in opened' \/ held'[c] > 0
          PROVE  \E f \in Loaded' : ri_name[f] = c
      <3>1. PICK f \in Loaded : ri_name[f] = c
        BY <2>1
      <3>2. CASE f \in Loaded'
        BY <3>1, <3>2
      <3>3. CASE f \notin Loaded'
        <4>1. f = e /\ refcount[e] = 1
          BY <1>1, <3>3
        <4>2. Users(e)' = 0
          BY <1>7, <4>1
        <4>3. Users(e)' = (IF ri_name[e] \in opened' THEN 1 ELSE 0) + held'[ri_name[e]]
          BY <2>1 DEF Users
        <4>4. held'[c] \in Nat
          BY BoundsAreNumbers
        <4>. QED
          BY <2>1, <3>1, <4>1, <4>2, <4>3, <4>4
      <3>. QED
        BY <3>2, <3>3
    <2>. QED
      BY <2>1 DEF UsedIsLoaded
  <1>12. Finalizing'
    BY <1>1 DEF Finalizing, End
  <1>. QED
    BY <1>1, <1>3, <1>4, <1>5, <1>6, <1>8, <1>9, <1>10, <1>11, <1>12 DEF RepositoryInv

LEMMA DependenciesLinked ==
    ASSUME RepositoryInv
    PROVE  /\ ri_dependencies \in Seq(Seq(Nat)) /\ Len(ri_dependencies) = Len(ri_name)
           /\ \A f \in Made :
                 /\ ri_dependencies[f] \in Seq(Nat)
                 /\ Len(ri_dependencies[f]) <= MaxDependencies
                 /\ \A k \in 1..Len(ri_dependencies[f]) :
                      ri_dependencies[f][k] < f /\ ri_dependencies[f][k] \in Loaded
                 /\ ri_state[f] = "freed" => ri_dependencies[f] = <<>>
  <1>1. /\ ri_dependencies \in Seq(Seq(Nat)) /\ Len(ri_dependencies) = Len(ri_name)
        /\ Links
    BY DEF RepositoryInv, RepositoryShape
  <1>2. \A f \in Made : ri_dependencies[f] \in Seq(Nat)
    BY <1>1, ElementOfSeq DEF Made
  <1>. QED
    BY <1>1, <1>2 DEF Links

\* A user gives up the reference it has to the component of a name.
LEMMA ReleaseKeeps ==
    ASSUME RepositoryInv, NEW c \in RepositoryNames, Idle, Release(c),
           c \in opened \/ held[c] > 0,
           finding' \in BOOLEAN,
           \/ c \in opened /\ opened' = opened \ {c} /\ held' = held
           \/ held[c] > 0 /\ held' = [held EXCEPT ![c] = @ - 1] /\ opened' = opened
    PROVE  RepositoryInv'
  <1>1. /\ opened \subseteq RepositoryNames
        /\ held \in [RepositoryNames -> 0..MaxRetains]
        /\ \A d \in RepositoryNames : held[d] \in Nat
    BY BoundsAreNumbers DEF RepositoryInv, RepositoryShape
  <1>2. /\ opened' \subseteq opened
        /\ held' \in [RepositoryNames -> 0..MaxRetains]
        /\ \A d \in RepositoryNames \ {c} :
              (d \in opened' <=> d \in opened) /\ held'[d] = held[d]
        /\ held'[c] <= held[c] /\ held'[c] \in Nat
        /\ (IF c \in opened' THEN 1 ELSE 0) + held'[c]
             = (IF c \in opened THEN 1 ELSE 0) + held[c] - 1
    <2>1. CASE c \in opened /\ opened' = opened \ {c} /\ held' = held
      BY <1>1, <2>1
    <2>2. CASE held[c] > 0 /\ held' = [held EXCEPT ![c] = @ - 1] /\ opened' = opened
      <3>1. held[c] - 1 \in 0..MaxRetains
        BY <1>1, <2>2, BoundsAreNumbers
      <3>. QED
        BY <1>1, <2>2, <3>1
    <2>. QED
      BY <2>1, <2>2
  <1>3. \A d \in RepositoryNames : d \in opened' \/ held'[d] > 0 => d \in opened \/ held[d] > 0
    BY <1>1, <1>2
  <1>4. destructors = <<>> /\ item = None /\ item' = None
    BY DEF Idle, Release
  <1>5. CASE ~initialized
    <2>1. Live = {}
      BY <1>5 DEF RepositoryInv, InOrder, ToSet
    <2>2. UNCHANGED <<initialized, repository, ri_name, ri_state, refcount,
                      ri_dependencies, destructors, item, dangling>>
      BY <1>5 DEF Release
    <2>3. /\ Made' = Made /\ Live' = Live /\ Loaded' = Loaded /\ Closing' = Closing
      BY <2>2 DEF Made, Live, Loaded, Closing
    <2>4. RepositoryShape'
      BY <1>1, <1>2, <2>2 DEF RepositoryInv, RepositoryShape
    <2>5. InOrder' /\ OneOfEachName' /\ Links' /\ Nested' /\ LoadedIsUsed' /\ Finalizing'
      BY <1>4, <2>2, <2>3 DEF RepositoryInv, InOrder, OneOfEachName, Links, Nested,
         LoadedIsUsed, Finalizing
    <2>6. Counts' /\ UsedIsLoaded'
      BY <1>5, <2>1, <2>2, <2>3 DEF Counts, UsedIsLoaded
    <2>. QED
      BY <1>5, <2>2, <2>4, <2>5, <2>6 DEF RepositoryInv
  <1>6. CASE initialized
    <2>1. PICK e \in Loaded : ri_name[e] = c
      BY <1>4, <1>6 DEF RepositoryInv, UsedIsLoaded
    <2>2. e \in Live /\ e \in Made /\ e # None
      BY DEF Loaded, Live, Made, None
    <2>3. find_component(repository, c) = e
      BY <2>1, <2>2, EntryFound
    <2>4. Drop(e, ri_dependencies) /\ UNCHANGED <<initialized, repository, ri_name>>
      BY <1>6, <2>2, <2>3 DEF Release
    <2>5. ASSUME NEW f \in Live
          PROVE  (IF f = e THEN refcount[f] - 1 ELSE refcount[f])
                   = Cardinality(References(ri_dependencies, f)) + Users(f)'
      <3>1. refcount[f] = Cardinality(References(ri_dependencies, f)) + Users(f)
        BY DEF RepositoryInv, Counts
      <3>2. f \in Made /\ ri_name[f] \in RepositoryNames
        BY ElementOfSeq DEF Live, Made, RepositoryInv, RepositoryShape
      <3>3. f = e <=> ri_name[f] = c
        BY <2>1, <2>2 DEF RepositoryInv, OneOfEachName
      <3>4. Users(f) = (IF ri_name[f] \in opened THEN 1 ELSE 0) + held[ri_name[f]]
        BY <1>4 DEF Users
      <3>5. Users(f)' = (IF ri_name[f] \in opened' THEN 1 ELSE 0) + held'[ri_name[f]]
        BY <1>4, <2>4 DEF Users
      <3>6. Users(f)' = IF f = e THEN Users(f) - 1 ELSE Users(f)
        <4>1. CASE f = e
          BY <1>1, <1>2, <3>3, <3>4, <3>5, <4>1
        <4>2. CASE f # e
          BY <1>2, <3>2, <3>3, <3>4, <3>5, <4>2
        <4>. QED
          BY <4>1, <4>2
      <3>7. /\ Cardinality(References(ri_dependencies, f)) \in Nat
            /\ Users(f) \in Nat
        <4>1. Cardinality(References(ri_dependencies, f)) \in Nat
          BY ReferencesFinite, DependenciesLinked
        <4>. QED
          BY <1>1, <3>2, <3>4, <4>1
      <3>. QED
        BY <3>1, <3>6, <3>7
    <2>6. \A d \in RepositoryNames :
             d \in opened' \/ held'[d] > 0 => \E f \in Loaded : ri_name[f] = d
      BY <1>3, <1>4, <1>6 DEF RepositoryInv, UsedIsLoaded
    <2>7. opened' \subseteq RepositoryNames
      BY <1>1, <1>2
    <2>. QED
      BY <1>2, <1>4, <2>4, <2>5, <2>6, <2>7, DropKeeps, DependenciesLinked DEF Agrees
  <1>. QED
    BY <1>5, <1>6 DEF RepositoryInv, RepositoryShape

LEMMA NextReleaseOpened ==
    ASSUME RepositoryInv, NEW c \in RepositoryNames, ReleaseOpened(c)
    PROVE  RepositoryInv'
  <1>1. finding' \in BOOLEAN
    BY DEF ReleaseOpened
  <1>. QED
    BY <1>1, ReleaseKeeps DEF ReleaseOpened

LEMMA NextReleaseHeld ==
    ASSUME RepositoryInv, NEW c \in RepositoryNames, ReleaseHeld(c)
    PROVE  RepositoryInv'
  <1>1. finding' \in BOOLEAN
    BY DEF ReleaseHeld, RepositoryInv, RepositoryShape
  <1>. QED
    BY <1>1, ReleaseKeeps DEF ReleaseHeld

\* The destructor that runs releases the first of its dependencies.
LEMMA NextDestructDependency ==
    ASSUME RepositoryInv, DestructDependency
    PROVE  RepositoryInv'
  <1>1. PICK e : e = Last(destructors)
    OBVIOUS
  <1>2. e \in Closing /\ e \in Made /\ destructors # <<>>
    <2>1. Last(destructors) \in ToSet(destructors)
      BY Returned DEF DestructDependency, RepositoryInv, RepositoryShape, Nested
    <2>. QED
      BY <1>1, <2>1 DEF RepositoryInv, Nested, Closing, DestructDependency
  <1>3. PICK l : l = ri_dependencies[e]
    OBVIOUS
  <1>4. PICK deps : deps = [ri_dependencies EXCEPT ![e] = Tail(@)]
    OBVIOUS
  <1>5. PICK d : d = Head(l)
    OBVIOUS
  <1>6. l # <<>> /\ Drop(d, deps)
    BY <1>1, <1>3, <1>4, <1>5 DEF DestructDependency
  <1>7. UNCHANGED <<initialized, repository, ri_name, item, opened, finding, held>>
    BY DEF DestructDependency, holders
  <1>8. /\ l \in Seq(Nat) /\ Len(l) <= MaxDependencies /\ Len(l) \in Nat /\ Len(l) > 0
        /\ \A k \in 1..Len(l) : l[k] < e /\ l[k] \in Loaded
        /\ ri_state[e] # "freed"
    BY <1>2, <1>3, <1>6, DependenciesLinked, EmptySeq DEF Closing
  <1>9. d = l[1] /\ d < e /\ d \in Loaded
    BY <1>5, <1>6, <1>8
  <1>10. /\ Tail(l) \in Seq(Nat) /\ Len(Tail(l)) = Len(l) - 1
         /\ \A k \in 1..Len(l) - 1 : Tail(l)[k] = l[k + 1]
    BY <1>6, <1>8
  <1>11. /\ deps \in Seq(Seq(Nat)) /\ Len(deps) = Len(ri_name) /\ deps[e] = Tail(l)
         /\ \A f \in Made \ {e} : deps[f] = ri_dependencies[f]
    <2>1. /\ ri_dependencies \in Seq(Seq(Nat)) /\ Len(ri_dependencies) = Len(ri_name)
          /\ e \in 1..Len(ri_dependencies)
      BY <1>2, DependenciesLinked DEF Made
    <2>2. deps = [ri_dependencies EXCEPT ![e] = Tail(l)]
      BY <1>3, <1>4
    <2>3. [ri_dependencies EXCEPT ![e] = Tail(l)] \in Seq(Seq(Nat))
      BY <1>10, <2>1, ExceptSeq
    <2>. QED
      BY <2>1, <2>2, <2>3 DEF Made
  <1>12. ASSUME NEW f \in Made
         PROVE  /\ Len(deps[f]) <= MaxDependencies
                /\ \A k \in 1..Len(deps[f]) : deps[f][k] < f /\ deps[f][k] \in Loaded
                /\ ri_state[f] = "freed" => deps[f] = <<>>
    <2>1. CASE f = e
      <3>1. \A k \in 1..Len(l) - 1 : k + 1 \in 1..Len(l)
        BY <1>8
      <3>. QED
        <4>1. /\ Len(deps[f]) = Len(l) - 1 /\ Len(l) - 1 <= MaxDependencies
              /\ \A k \in 1..Len(l) - 1 : deps[f][k] = l[k + 1]
          <5>1. deps[f] = Tail(l) /\ Len(l) - 1 <= MaxDependencies
            BY <1>8, <1>11, <2>1, BoundsAreNumbers
          <5>. QED
            BY <1>10, <5>1
        <4>2. \A k \in 1..Len(l) - 1 : deps[f][k] < f /\ deps[f][k] \in Loaded
          BY <1>8, <2>1, <3>1, <4>1
        <4>. QED
          BY <1>8, <2>1, <4>1, <4>2
    <2>2. CASE f # e
      BY <1>11, <2>2, DependenciesLinked
    <2>. QED
      BY <2>1, <2>2
  <1>13. ASSUME NEW f \in Live
         PROVE  (IF f = d THEN refcount[f] - 1 ELSE refcount[f])
                  = Cardinality(References(deps, f)) + Users(f)'
    <2>1. refcount[f] = Cardinality(References(ri_dependencies, f)) + Users(f)
      BY DEF RepositoryInv, Counts
    <2>2. Users(f)' = Users(f)
      BY <1>7 DEF Users
    <2>3. /\ IsFiniteSet(References(ri_dependencies, f))
          /\ Cardinality(References(ri_dependencies, f)) \in Nat
      BY ReferencesFinite, DependenciesLinked
    <2>4. IF d = f
          THEN /\ <<e, Len(l)>> \in References(ri_dependencies, f)
               /\ References(deps, f) = References(ri_dependencies, f) \ {<<e, Len(l)>>}
          ELSE References(deps, f) = References(ri_dependencies, f)
      <3>1. /\ ri_dependencies \in Seq(Seq(Nat)) /\ e \in 1..Len(ri_dependencies)
            /\ ri_dependencies[e] # <<>> /\ Len(ri_dependencies[e]) <= MaxDependencies
        BY <1>2, <1>3, <1>6, <1>8, DependenciesLinked DEF Made
      <3>2. IF Head(ri_dependencies[e]) = f
            THEN /\ <<e, Len(ri_dependencies[e])>> \in References(ri_dependencies, f)
                 /\ References([ri_dependencies EXCEPT ![e] = Tail(@)], f)
                      = References(ri_dependencies, f) \ {<<e, Len(ri_dependencies[e])>>}
            ELSE References([ri_dependencies EXCEPT ![e] = Tail(@)], f)
                  = References(ri_dependencies, f)
        BY <3>1, ReferenceTaken
      <3>. QED
        BY <1>3, <1>4, <1>5, <3>2
    <2>5. CASE f = d
      <3>1. Cardinality(References(deps, f)) = Cardinality(References(ri_dependencies, f)) - 1
        BY <2>3, <2>4, <2>5, FS_RemoveElement
      <3>2. Users(f) \in Nat
        <4>1. f \in Made /\ ri_name[f] \in RepositoryNames
          BY ElementOfSeq DEF Live, Made, RepositoryInv, RepositoryShape
        <4>2. held[ri_name[f]] \in Nat
          BY <4>1, BoundsAreNumbers DEF RepositoryInv, RepositoryShape
        <4>. QED
          BY <4>2 DEF Users
      <3>. QED
        BY <2>1, <2>2, <2>3, <2>5, <3>1, <3>2
    <2>6. CASE f # d
      BY <2>1, <2>2, <2>4, <2>6
    <2>. QED
      BY <2>5, <2>6
  <1>14. initialized /\ item' = None =>
            \A c \in RepositoryNames :
               c \in opened' \/ held'[c] > 0 => \E f \in Loaded : ri_name[f] = c
    BY <1>7 DEF RepositoryInv, UsedIsLoaded
  <1>15. item' # None => initialized /\ item' \in Live \cup {End}
    BY <1>7 DEF RepositoryInv, Finalizing
  <1>16. /\ finding' \in BOOLEAN /\ opened' \subseteq RepositoryNames
         /\ held' \in [RepositoryNames -> 0..MaxRetains]
    BY <1>7 DEF RepositoryInv, RepositoryShape
  <1>17. \A f \in Made :
            /\ Len(deps[f]) <= MaxDependencies
            /\ \A k \in 1..Len(deps[f]) : deps[f][k] < f /\ deps[f][k] \in Loaded
            /\ ri_state[f] = "freed" => deps[f] = <<>>
    BY <1>12
  <1>18. \A f \in Live : (IF f = d THEN refcount[f] - 1 ELSE refcount[f])
                            = Cardinality(References(deps, f)) + Users(f)'
    BY <1>13
  <1>19. UNCHANGED <<initialized, repository, ri_name>>
    BY <1>7
  <1>20. d < Last(destructors) /\ deps \in Seq(Seq(Nat)) /\ Len(deps) = Len(ri_name)
    BY <1>1, <1>9, <1>11
  <1>21. Agrees(d, deps)
    BY <1>14, <1>15, <1>16, <1>17, <1>18, <1>19, <1>20 DEF Agrees
  <1>. QED
    BY <1>6, <1>9, <1>21, DropKeeps

-----------------------------------------------------------------------------
(* The end of a destructor, and finalize *)

LEMMA PlaceIs ==
    ASSUME RepositoryInv, NEW e \in Live
    PROVE  PlaceOf(e) \in 1..Len(repository) /\ repository[PlaceOf(e)] = e
  <1>1. repository \in Seq(Nat) /\ e \in ToSet(repository)
    BY DEF RepositoryInv, RepositoryShape, InOrder
  <1>2. \E k \in DOMAIN repository : repository[k] = e
    BY <1>1, SetOfSequence
  <1>. QED
    BY <1>1, <1>2 DEF PlaceOf

\* An entry that finalize has not come to is open.
LEMMA FinalizedLater ==
    ASSUME RepositoryInv, item # None, NEW e \in Live, e >= item
    PROVE  e \in Loaded
  <1>1. Users(e) = 1
    BY DEF Users
  <1>2. Cardinality(References(ri_dependencies, e)) \in Nat
    BY ReferencesFinite, DependenciesLinked
  <1>3. refcount[e] > 0
    BY <1>1, <1>2 DEF RepositoryInv, Counts
  <1>. QED
    BY <1>3 DEF RepositoryInv, LoadedIsUsed, Live

LEMMA NextDestructEnd ==
    ASSUME RepositoryInv, DestructEnd
    PROVE  RepositoryInv'
  <1>1. PICK e : e = Last(destructors)
    OBVIOUS
  <1>2. /\ e \in Closing /\ Front(destructors) \in Seq(Nat)
        /\ \A i, j \in 1..Len(Front(destructors)) :
              i < j => Front(destructors)[j] < Front(destructors)[i]
        /\ ToSet(Front(destructors)) = Closing \ {e}
    BY <1>1, Returned DEF DestructEnd, RepositoryInv, RepositoryShape, Nested
  <1>3. e \in Live /\ e \in Made /\ ri_state[e] = "closing"
    BY <1>2 DEF Closing, Live
  <1>4. /\ repository' \in Seq(Nat) /\ ToSet(repository') = Live \ {e}
        /\ \A i, j \in 1..Len(repository') : i < j => repository'[i] < repository'[j]
    <2>1. PlaceOf(e) \in 1..Len(repository) /\ repository[PlaceOf(e)] = e
      BY <1>3, PlaceIs
    <2>2. repository' = RemoveAt(repository, PlaceOf(e))
      BY <1>1 DEF DestructEnd
    <2>3. /\ repository \in Seq(Nat) /\ ToSet(repository) = Live
          /\ \A i, j \in 1..Len(repository) : i < j => repository[i] < repository[j]
      BY DEF RepositoryInv, RepositoryShape, InOrder
    <2>. QED
      BY <2>1, <2>2, <2>3, SortedRemoval
  <1>5. /\ ri_state' \in Seq({"open", "closing", "freed"})
        /\ Len(ri_state') = Len(ri_name) /\ ri_state'[e] = "freed"
        /\ \A f \in Made \ {e} : ri_state'[f] = ri_state[f]
    <2>1. /\ ri_state \in Seq({"open", "closing", "freed"}) /\ e \in 1..Len(ri_state)
          /\ Len(ri_state) = Len(ri_name)
      BY <1>3 DEF RepositoryInv, RepositoryShape, Made
    <2>2. ri_state' = [ri_state EXCEPT ![e] = "freed"]
      BY <1>1 DEF DestructEnd
    <2>3. [ri_state EXCEPT ![e] = "freed"] \in Seq({"open", "closing", "freed"})
      BY <2>1, ExceptSeq
    <2>. QED
      BY <2>1, <2>2, <2>3 DEF Made
  <1>6. /\ UNCHANGED <<initialized, ri_name, refcount, ri_dependencies, item, opened,
                       finding, held, dangling>>
        /\ destructors' = Front(destructors) /\ ri_dependencies[e] = <<>>
    BY <1>1 DEF DestructEnd, holders
  <1>7. Made' = Made /\ Live' = Live \ {e} /\ Loaded' = Loaded /\ Closing' = Closing \ {e}
    <2>1. Made' = Made
      BY <1>6 DEF Made
    <2>. QED
      BY <1>3, <1>5, <2>1 DEF Live, Loaded, Closing
  <1>8. RepositoryShape'
    BY <1>2, <1>4, <1>5, <1>6 DEF RepositoryInv, RepositoryShape
  <1>9. InOrder'
    BY <1>4, <1>7 DEF InOrder
  <1>10. OneOfEachName'
    BY <1>6, <1>7 DEF RepositoryInv, OneOfEachName
  <1>11. Links'
    <2>1. ASSUME NEW f \in Made, ri_state'[f] = "freed"
          PROVE  ri_dependencies[f] = <<>>
      BY <1>5, <1>6, <2>1, DependenciesLinked
    <2>. QED
      BY <1>6, <1>7, <2>1, DependenciesLinked DEF Links
  <1>12. Nested'
    BY <1>2, <1>6, <1>7 DEF Nested
  <1>13. Counts'
    BY <1>6, <1>7 DEF RepositoryInv, Counts, Users
  <1>14. LoadedIsUsed'
    BY <1>6, <1>7 DEF RepositoryInv, LoadedIsUsed
  <1>15. UsedIsLoaded'
    BY <1>6, <1>7 DEF RepositoryInv, UsedIsLoaded
  <1>16. Finalizing'
    <2>1. ASSUME item # None, item \in Live PROVE item # e
      <3>1. item >= item
        BY <2>1 DEF Live, Made
      <3>2. item \in Loaded
        BY <2>1, <3>1, FinalizedLater
      <3>. QED
        BY <1>3, <3>2 DEF Loaded
    <2>. QED
      BY <1>6, <1>7, <2>1 DEF RepositoryInv, Finalizing, End
  <1>17. ~initialized' => repository' = <<>>
    <2>1. initialized
      BY <1>3 DEF RepositoryInv, InOrder, ToSet
    <2>. QED
      BY <1>6, <2>1
  <1>. QED
    BY <1>6, <1>8, <1>9, <1>10, <1>11, <1>12, <1>13, <1>14, <1>15, <1>16, <1>17
    DEF RepositoryInv

\* A call that only changes who uses the entries that are open.
LEMMA UsersChange ==
    ASSUME RepositoryInv, UNCHANGED <<entries, destructors, dangling>>,
           initialized' \in BOOLEAN, finding' \in BOOLEAN,
           opened' \subseteq RepositoryNames,
           held' \in [RepositoryNames -> 0..MaxRetains],
           \A f \in Live : Users(f)' = Users(f),
           UsedIsLoaded', Finalizing', ~initialized' => repository = <<>>
    PROVE  RepositoryInv'
  <1>1. /\ UNCHANGED <<repository, ri_name, ri_state, refcount, ri_dependencies,
                       destructors, dangling>>
        /\ Made' = Made /\ Live' = Live /\ Loaded' = Loaded /\ Closing' = Closing
    BY DEF entries, Made, Live, Loaded, Closing
  <1>2. RepositoryShape'
    BY <1>1 DEF RepositoryInv, RepositoryShape
  <1>3. InOrder' /\ OneOfEachName' /\ Links' /\ Nested' /\ LoadedIsUsed'
    BY <1>1 DEF RepositoryInv, InOrder, OneOfEachName, Links, Nested, LoadedIsUsed
  <1>4. Counts'
    BY <1>1 DEF RepositoryInv, Counts
  <1>. QED
    BY <1>1, <1>2, <1>3, <1>4 DEF RepositoryInv

LEMMA NextRepositoryInit ==
    ASSUME RepositoryInv, RepositoryInit
    PROVE  RepositoryInv'
  <1>1. repository = <<>>
    BY DEF RepositoryInv, RepositoryInit
  <1>2. UNCHANGED <<entries, destructors, dangling>> /\ initialized' = TRUE /\ item = None
    BY <1>1 DEF RepositoryInit, entries, Idle
  <1>3. UNCHANGED <<item, opened, finding, held, ri_name>>
    BY DEF RepositoryInit, holders
  <1>4. Live = {}
    BY <1>1 DEF RepositoryInv, InOrder, ToSet
  <1>5. UsedIsLoaded' /\ Finalizing'
    BY <1>2, <1>3 DEF RepositoryInit, UsedIsLoaded, Finalizing
  <1>. QED
    BY <1>2, <1>3, <1>4, <1>5, UsersChange DEF RepositoryInv, RepositoryShape

\* The first entry is the least.
LEMMA FirstIsLeast ==
    ASSUME RepositoryInv
    PROVE  /\ repository = <<>> => FirstItem = End /\ Live = {}
           /\ repository # <<>> => FirstItem \in Live
           /\ \A f \in Live : f >= FirstItem
           /\ FirstItem # None
  <1>1. /\ repository \in Seq(Nat) /\ ToSet(repository) = Live
        /\ \A i, j \in 1..Len(repository) : i < j => repository[i] < repository[j]
        /\ Len(repository) \in Nat
    BY DEF RepositoryInv, RepositoryShape, InOrder
  <1>2. CASE repository = <<>>
    <2>1. Live = {} /\ FirstItem = End
      BY <1>1, <1>2 DEF ToSet, FirstItem
    <2>. QED
      BY <1>2, <2>1, BoundsAreNumbers DEF End, None
  <1>3. CASE repository # <<>>
    <2>1. 1 \in 1..Len(repository) /\ FirstItem = repository[1]
      BY <1>1, <1>3, EmptySeq DEF FirstItem
    <2>2. FirstItem \in Live /\ FirstItem \in Nat
      BY <1>1, <2>1, SetOfSequence
    <2>3. ASSUME NEW f \in Live PROVE f >= FirstItem
      <3>1. PICK k \in 1..Len(repository) : repository[k] = f
        BY <1>1, SetOfSequence
      <3>2. k = 1 \/ 1 < k
        BY <1>1
      <3>. QED
        BY <1>1, <2>1, <2>2, <3>1, <3>2
    <2>. QED
      BY <1>3, <2>2, <2>3 DEF Live, Made, None
  <1>. QED
    BY <1>2, <1>3

LEMMA NextFinalize ==
    ASSUME RepositoryInv, ~FinalizeAnytime, Finalize
    PROVE  RepositoryInv'
  <1>1. /\ UNCHANGED <<entries, destructors, dangling>>
        /\ UNCHANGED <<initialized, ri_name, opened, finding, held>>
        /\ initialized /\ item = None /\ item' = FirstItem /\ OneUserEach
    BY DEF Finalize, holders, entries, Idle
  <1>2. item' # None /\ item' \in Live \cup {End} /\ Live' = Live
    BY <1>1, FirstIsLeast DEF entries, Live, Made
  <1>3. ASSUME NEW f \in Live PROVE Users(f)' = Users(f)
    <2>1. Users(f)' = 1
      BY <1>1, <1>2, FirstIsLeast DEF Users
    <2>2. ri_name[f] \in opened /\ held[ri_name[f]] = 0
      BY <1>1 DEF OneUserEach, RepositoryInv, InOrder
    <2>. QED
      BY <1>1, <2>1, <2>2 DEF Users
  <1>4. UsedIsLoaded' /\ Finalizing'
    BY <1>1, <1>2 DEF UsedIsLoaded, Finalizing, End
  <1>. QED
    BY <1>1, <1>3, <1>4, UsersChange DEF RepositoryInv, RepositoryShape

\* The greatest entry is in nobody's dependencies: they point to lesser ones.
LEMMA GreatestIsUnreferenced ==
    ASSUME RepositoryInv, repository # <<>>
    PROVE  \E g \in Live : Cardinality(References(ri_dependencies, g)) = 0
  <1>1. /\ repository \in Seq(Nat) /\ ToSet(repository) = Live
        /\ \A i, j \in 1..Len(repository) : i < j => repository[i] < repository[j]
        /\ Len(repository) \in Nat
    BY DEF RepositoryInv, RepositoryShape, InOrder
  <1>2. Len(repository) \in 1..Len(repository)
    BY <1>1, EmptySeq
  <1>3. PICK g \in Live : g = repository[Len(repository)]
    BY <1>1, <1>2, SetOfSequence
  <1>4. ASSUME NEW f \in Live PROVE ~(g < f)
    <2>1. PICK k \in 1..Len(repository) : repository[k] = f
      BY <1>1, SetOfSequence
    <2>2. k = Len(repository) \/ k < Len(repository)
      BY <1>1
    <2>3. f \in Nat /\ g \in Nat
      BY DEF Live, Made
    <2>. QED
      BY <1>1, <1>2, <1>3, <2>1, <2>2, <2>3
  <1>5. References(ri_dependencies, g) = {}
    <2>1. SUFFICES ASSUME NEW r \in References(ri_dependencies, g) PROVE FALSE
      OBVIOUS
    <2>2. /\ r[1] \in Made /\ r[2] \in Nat /\ r[2] >= 1
          /\ r[2] <= Len(ri_dependencies[r[1]])
          /\ ri_dependencies[r[1]][Len(ri_dependencies[r[1]]) + 1 - r[2]] = g
      BY DependenciesLinked DEF References, Made
    <2>3. PICK f \in Made, j \in Nat :
             /\ j >= 1 /\ j <= Len(ri_dependencies[f])
             /\ ri_dependencies[f][Len(ri_dependencies[f]) + 1 - j] = g
      BY <2>2
    <2>4. ri_dependencies[f] \in Seq(Nat) /\ Len(ri_dependencies[f]) \in Nat
      BY DependenciesLinked
    <2>5. Len(ri_dependencies[f]) + 1 - j \in 1..Len(ri_dependencies[f])
      BY <2>3, <2>4
    <2>6. g < f
      BY <2>3, <2>5, DependenciesLinked
    <2>7. f \in Live
      <3>1. ri_dependencies[f] # <<>>
        BY <2>3, <2>4, EmptySeq
      <3>. QED
        BY <3>1, DependenciesLinked DEF Live
    <2>. QED
      BY <1>4, <2>6, <2>7
  <1>. QED
    BY <1>3, <1>5, FS_EmptySet

\* ... so an entry that no user has is not all there is.
LEMMA UnusedIsGone ==
    ASSUME RepositoryInv, destructors = <<>>, \A e \in Live : Users(e) = 0
    PROVE  repository = <<>>
  <1>1. SUFFICES ASSUME repository # <<>> PROVE FALSE
    OBVIOUS
  <1>2. PICK g \in Live : Cardinality(References(ri_dependencies, g)) = 0
    BY <1>1, GreatestIsUnreferenced
  <1>3. refcount[g] = 0
    BY <1>2 DEF RepositoryInv, Counts
  <1>4. g \in Made /\ ri_state[g] # "freed" /\ g \notin Loaded
    BY <1>3 DEF RepositoryInv, LoadedIsUsed, Live
  <1>5. ri_state[g] \in {"open", "closing", "freed"}
    BY <1>4, ElementOfSeq DEF RepositoryInv, RepositoryShape, Made
  <1>6. g \in Closing
    BY <1>4, <1>5 DEF Loaded, Closing
  <1>. QED
    BY <1>6 DEF RepositoryInv, Nested, ToSet

LEMMA BelowTheEnd ==
    ASSUME RepositoryInv, NEW e \in Live
    PROVE  e \in Nat /\ e < End /\ e # None /\ e # End
  BY BoundsAreNumbers DEF RepositoryInv, RepositoryShape, Live, Made, End, None

LEMMA NextFinalizePassEnd ==
    ASSUME RepositoryInv, FinalizePassEnd
    PROVE  RepositoryInv'
  <1>1. item = End /\ End # None /\ destructors = <<>>
    BY BoundsAreNumbers DEF FinalizePassEnd, End, None
  <1>2. \A e \in Live : Users(e) = 0
    <2>1. ASSUME NEW e \in Live PROVE ~(e >= End)
      BY BelowTheEnd, BoundsAreNumbers DEF End
    <2>. QED
      BY <1>1, <2>1 DEF Users
  <1>3. repository = <<>>
    BY <1>1, <1>2, UnusedIsGone
  <1>4. Live = {}
    BY <1>3 DEF RepositoryInv, InOrder, ToSet
  <1>5. /\ item' = None /\ initialized' = FALSE
        /\ UNCHANGED <<entries, destructors, opened, finding, held, dangling>>
    BY <1>3 DEF FinalizePassEnd, holders
  <1>6. UsedIsLoaded' /\ Finalizing'
    BY <1>5 DEF UsedIsLoaded, Finalizing
  <1>. QED
    BY <1>3, <1>4, <1>5, <1>6, UsersChange DEF RepositoryInv, RepositoryShape

\* The loop variable moves on to the next entry of the list.
LEMMA NextIsNext ==
    ASSUME RepositoryInv, NEW e \in Live
    PROVE  /\ NextItem(e) \in Live \cup {End} /\ NextItem(e) # None
           /\ \A f \in Live : f >= NextItem(e) <=> f >= e /\ f # e
  <1>1. /\ repository \in Seq(Nat) /\ ToSet(repository) = Live
        /\ \A i, j \in 1..Len(repository) : i < j => repository[i] < repository[j]
        /\ Len(repository) \in Nat
    BY DEF RepositoryInv, RepositoryShape, InOrder
  <1>2. PICK k \in 1..Len(repository) : k = PlaceOf(e) /\ repository[k] = e
    BY PlaceIs
  <1>3. ASSUME NEW f \in Live
        PROVE  /\ f \in Nat /\ f < End
               /\ \E j \in 1..Len(repository) : repository[j] = f
    BY <1>1, BelowTheEnd, SetOfSequence
  <1>4. CASE k = Len(repository)
    <2>1. NextItem(e) = End
      BY <1>2, <1>4 DEF NextItem
    <2>2. ASSUME NEW f \in Live PROVE ~(f >= e /\ f # e) /\ ~(f >= End)
      <3>1. PICK j \in 1..Len(repository) : repository[j] = f
        BY <1>3
      <3>2. j = k \/ j < k
        BY <1>1, <1>4
      <3>3. f \in Nat /\ e \in Nat /\ f < End /\ End \in Nat
        BY <1>3, BoundsAreNumbers DEF End
      <3>4. f = e \/ f < e
        BY <1>1, <1>2, <3>1, <3>2
      <3>. QED
        BY <3>3, <3>4
    <2>. QED
      BY <2>1, <2>2, BoundsAreNumbers DEF End, None
  <1>5. CASE k # Len(repository)
    <2>1. k + 1 \in 1..Len(repository) /\ NextItem(e) = repository[k + 1]
      BY <1>1, <1>2, <1>5 DEF NextItem
    <2>2. NextItem(e) \in Live
      BY <1>1, <2>1, SetOfSequence
    <2>3. ASSUME NEW f \in Live PROVE f >= NextItem(e) <=> f >= e /\ f # e
      <3>1. PICK j \in 1..Len(repository) : repository[j] = f
        BY <1>3
      <3>2. f \in Nat /\ e \in Nat /\ NextItem(e) \in Nat
        BY <1>3, <2>2
      <3>3. j = k + 1 \/ k + 1 < j \/ j = k \/ j < k
        BY <1>1
      <3>4. e < NextItem(e)
        BY <1>1, <1>2, <2>1
      <3>5. CASE j = k + 1 \/ k + 1 < j
        <4>1. f = NextItem(e) \/ NextItem(e) < f
          BY <1>1, <2>1, <3>1, <3>5
        <4>. QED
          BY <3>2, <3>4, <4>1
      <3>6. CASE j = k \/ j < k
        <4>1. f = e \/ f < e
          BY <1>1, <1>2, <3>1, <3>6
        <4>. QED
          BY <3>2, <3>4, <4>1
      <3>. QED
        BY <3>3, <3>5, <3>6
    <2>. QED
      BY <2>2, <2>3, BelowTheEnd
  <1>. QED
    BY <1>4, <1>5

LEMMA NextFinalizeRelease ==
    ASSUME RepositoryInv, FinalizeRelease
    PROVE  RepositoryInv'
  <1>1. PICK e : e = item
    OBVIOUS
  <1>2. item # None /\ e \in Live /\ initialized /\ destructors = <<>>
    BY <1>1 DEF FinalizeRelease, RepositoryInv, Finalizing
  <1>3. e \in Loaded
    <2>1. e \in Nat /\ e >= item
      BY <1>1, <1>2, BelowTheEnd
    <2>. QED
      BY <1>2, <2>1, FinalizedLater
  <1>4. /\ item' = NextItem(e) /\ Drop(e, ri_dependencies)
        /\ UNCHANGED <<initialized, repository, ri_name, opened, finding, held>>
    BY <1>1, <1>2 DEF FinalizeRelease, Live, holders
  <1>5. /\ item' \in Live \cup {End} /\ item' # None
        /\ \A f \in Live : f >= item' <=> f >= e /\ f # e
    BY <1>2, <1>4, NextIsNext
  <1>6. ASSUME NEW f \in Live
        PROVE  (IF f = e THEN refcount[f] - 1 ELSE refcount[f])
                 = Cardinality(References(ri_dependencies, f)) + Users(f)'
    <2>1. refcount[f] = Cardinality(References(ri_dependencies, f)) + Users(f)
      BY DEF RepositoryInv, Counts
    <2>2. Cardinality(References(ri_dependencies, f)) \in Nat
      BY ReferencesFinite, DependenciesLinked
    <2>3. Users(f) = IF f >= e THEN 1 ELSE 0
      BY <1>1, <1>2 DEF Users
    <2>4. Users(f)' = IF f >= e /\ f # e THEN 1 ELSE 0
      BY <1>5 DEF Users
    <2>5. f \in Nat
      BY BelowTheEnd
    <2>. QED
      BY <2>1, <2>2, <2>3, <2>4, <2>5
  <1>7. Agrees(e, ri_dependencies)
    <2>1. /\ finding' \in BOOLEAN /\ opened' \subseteq RepositoryNames
          /\ held' \in [RepositoryNames -> 0..MaxRetains]
      BY <1>4 DEF RepositoryInv, RepositoryShape
    <2>. QED
      BY <1>2, <1>4, <1>5, <1>6, <2>1, DependenciesLinked DEF Agrees
  <1>. QED
    BY <1>3, <1>4, <1>7, DropKeeps

-----------------------------------------------------------------------------
(* Opening and retaining *)

LEMMA NextRetainComponent ==
    ASSUME RepositoryInv, NEW c \in RepositoryNames, RetainComponent(c)
    PROVE  RepositoryInv'
  <1>1. PICK e : e = find_component(repository, c)
    OBVIOUS
  <1>2. e \in Live /\ ri_name[e] = c /\ e \in Made
    BY <1>1, EntryFound DEF RetainComponent, Live
  <1>3. /\ refcount' = [refcount EXCEPT ![e] = @ + 1]
        /\ held' = [held EXCEPT ![c] = @ + 1] /\ held[c] < MaxRetains
        /\ UNCHANGED <<initialized, repository, ri_name, ri_state, ri_dependencies,
                       destructors, item, opened, finding, dangling>>
        /\ destructors = <<>> /\ item = None
    BY <1>1 DEF RetainComponent, Idle
  <1>4. /\ Made' = Made /\ Live' = Live /\ Loaded' = Loaded /\ Closing' = Closing
    BY <1>3 DEF Made, Live, Loaded, Closing
  <1>5. e \in Loaded
    <2>1. ri_state[e] \in {"open", "closing", "freed"}
      BY <1>2, ElementOfSeq DEF RepositoryInv, RepositoryShape, Made
    <2>2. Closing = {}
      BY <1>3 DEF RepositoryInv, Nested, ToSet
    <2>. QED
      BY <1>2, <2>1, <2>2 DEF Live, Loaded, Closing
  <1>6. /\ refcount' \in Seq(Nat) /\ Len(refcount') = Len(ri_name)
        /\ refcount'[e] = refcount[e] + 1 /\ refcount[e] \in Nat
        /\ \A f \in Made \ {e} : refcount'[f] = refcount[f]
    <2>1. /\ refcount \in Seq(Nat) /\ e \in 1..Len(refcount)
          /\ Len(refcount) = Len(ri_name)
      BY <1>2 DEF RepositoryInv, RepositoryShape, Made
    <2>2. refcount[e] + 1 \in Nat /\ refcount[e] \in Nat
      BY <2>1
    <2>3. [refcount EXCEPT ![e] = refcount[e] + 1] \in Seq(Nat)
      BY <2>1, <2>2, ExceptSeq
    <2>. QED
      BY <1>3, <2>1, <2>2, <2>3 DEF Made
  <1>7. /\ held' \in [RepositoryNames -> 0..MaxRetains] /\ held'[c] = held[c] + 1
        /\ held[c] \in Nat
        /\ \A d \in RepositoryNames \ {c} : held'[d] = held[d]
    <2>1. held \in [RepositoryNames -> 0..MaxRetains] /\ held[c] + 1 \in 0..MaxRetains
      BY <1>3, BoundsAreNumbers DEF RepositoryInv, RepositoryShape
    <2>. QED
      BY <1>3, <2>1
  <1>8. RepositoryShape'
    BY <1>3, <1>6, <1>7 DEF RepositoryInv, RepositoryShape
  <1>9. InOrder' /\ OneOfEachName' /\ Links' /\ Nested' /\ Finalizing'
    BY <1>3, <1>4 DEF RepositoryInv, InOrder, OneOfEachName, Links, Nested, Finalizing
  <1>10. Counts'
    <2>1. ASSUME NEW f \in Live
          PROVE  refcount'[f] = Cardinality(References(ri_dependencies, f)) + Users(f)'
      <3>1. refcount[f] = Cardinality(References(ri_dependencies, f)) + Users(f)
        BY DEF RepositoryInv, Counts
      <3>2. Cardinality(References(ri_dependencies, f)) \in Nat
        BY ReferencesFinite, DependenciesLinked
      <3>3. /\ Users(f) = (IF ri_name[f] \in opened THEN 1 ELSE 0) + held[ri_name[f]]
            /\ Users(f)' = (IF ri_name[f] \in opened THEN 1 ELSE 0) + held'[ri_name[f]]
        BY <1>3 DEF Users
      <3>4. f \in Made /\ ri_name[f] \in RepositoryNames
        BY ElementOfSeq DEF Live, Made, RepositoryInv, RepositoryShape
      <3>5. CASE f = e
        <4>1. Users(f)' = Users(f) + 1 /\ Users(f) \in Nat
          BY <1>2, <1>7, <3>3, <3>5
        <4>2. refcount'[f] = refcount[f] + 1
          BY <1>6, <3>5
        <4>. QED
          BY <3>1, <3>2, <4>1, <4>2
      <3>6. CASE f # e
        <4>1. ri_name[f] # c
          BY <1>2, <3>6 DEF RepositoryInv, OneOfEachName
        <4>. QED
          BY <1>6, <1>7, <3>1, <3>3, <3>4, <3>6, <4>1
      <3>. QED
        BY <3>5, <3>6
    <2>. QED
      BY <1>3, <1>4, <2>1 DEF Counts
  <1>11. LoadedIsUsed'
    <2>1. ASSUME NEW f \in Made PROVE f \in Loaded <=> refcount'[f] > 0
      <3>1. f \in Loaded <=> refcount[f] > 0
        BY DEF RepositoryInv, LoadedIsUsed
      <3>. QED
        BY <1>5, <1>6, <3>1
    <2>. QED
      BY <1>4, <2>1 DEF LoadedIsUsed
  <1>12. UsedIsLoaded'
    <2>1. ASSUME initialized, NEW d \in RepositoryNames, d \in opened \/ held'[d] > 0
          PROVE  \E f \in Loaded : ri_name[f] = d
      <3>1. CASE d = c
        BY <1>2, <1>5, <3>1
      <3>2. CASE d # c
        BY <1>3, <1>7, <2>1, <3>2 DEF RepositoryInv, UsedIsLoaded
      <3>. QED
        BY <3>1, <3>2
    <2>. QED
      BY <1>3, <1>4, <2>1 DEF UsedIsLoaded
  <1>. QED
    BY <1>3, <1>8, <1>9, <1>10, <1>11, <1>12 DEF RepositoryInv

\* An entry for a new name, linked to what its framework has open.
LEMMA OpenAppends ==
    ASSUME RepositoryInv, ~Reload, ~SelfLinks, NEW c \in RepositoryNames,
           NEW deps \in DependencyLists(c), Open(c, deps), NEW e, e = Len(ri_name) + 1
    PROVE  \E l \in Seq(Nat) :
              /\ Len(l) <= MaxDependencies
              /\ \A k \in 1..Len(l) : l[k] \in Loaded
              /\ ri_dependencies' = Append(ri_dependencies, l)
              /\ refcount' \in Seq(Nat) /\ Len(refcount') = e
              /\ refcount'[e] = 1
              /\ \A f \in Made : refcount'[f] = refcount[f]
                                   + Cardinality({k \in 1..Len(l) : l[k] = f})
  <1>1. /\ initialized /\ item = None /\ destructors = <<>>
        /\ find_component(repository, c) = None
    BY DEF Open, Idle
  <1>2. /\ deps \in Seq(opened) /\ Len(deps) \in Nat /\ Len(deps) <= MaxDependencies
        /\ \A k \in 1..Len(deps) : deps[k] \in opened
    <2>1. opened \cup (IF SelfLinks THEN {c} ELSE {}) = opened
      OBVIOUS
    <2>2. PICK m \in 0..MaxDependencies : deps \in [1..m -> opened]
      BY <2>1 DEF DependencyLists, BoundedSeq, SeqOf
    <2>. QED
      BY <2>2, BoundsAreNumbers
  <1> DEFINE find(n) == LET f == find_component(repository, n) IN IF f = None THEN e ELSE f
  <1>3. PICK l : l = [k \in 1..Len(deps) |-> find(deps[k])]
    OBVIOUS
  <1>4. ASSUME NEW n \in opened PROVE find(n) \in Loaded
    <2>1. n \in RepositoryNames
      BY DEF RepositoryInv, RepositoryShape
    <2>2. PICK f \in Loaded : ri_name[f] = n
      BY <1>1, <2>1 DEF RepositoryInv, UsedIsLoaded
    <2>3. f \in Live /\ f # None
      BY DEF Loaded, Live, Made, None
    <2>4. find_component(repository, n) = f
      BY <2>2, <2>3, EntryFound
    <2>. QED
      BY <2>3, <2>4
  <1>5. /\ l \in Seq(Nat) /\ Len(l) = Len(deps) /\ Len(l) <= MaxDependencies
        /\ \A k \in 1..Len(l) : l[k] \in Loaded
    <2>1. \A k \in 1..Len(deps) : find(deps[k]) \in Loaded
      BY <1>2, <1>4
    <2> HIDE DEF find
    <2>2. Loaded \subseteq Nat
      BY DEF Loaded, Made
    <2>3. l \in [1..Len(deps) -> Nat] /\ \A k \in 1..Len(deps) : l[k] \in Loaded
      BY <1>3, <2>1, <2>2
    <2>4. l \in Seq(Nat) /\ Len(l) = Len(deps)
      BY <1>2, <2>3
    <2>. QED
      BY <1>2, <2>3, <2>4
  <1>6. /\ refcount' = Referenced(Append(refcount, 1), l)
        /\ ri_dependencies' = [Append(ri_dependencies, <<>>) EXCEPT ![e] = @ \o l]
    BY <1>1, <1>3 DEF Open
  <1>7. ri_dependencies' = Append(ri_dependencies, l)
    <2>1. /\ ri_dependencies \in Seq(Seq(Nat)) /\ Len(ri_dependencies) + 1 = e
      BY DEF RepositoryInv, RepositoryShape
    <2>2. Append(ri_dependencies, <<>>)[e] \o l = l
      BY <1>5, <2>1, ConcatEmptySeq
    <2>3. [Append(ri_dependencies, <<>>) EXCEPT ![e] = l] = Append(ri_dependencies, l)
      <3>1. PICK t : t = Append(ri_dependencies, <<>>)
        OBVIOUS
      <3>2. PICK u : u = Append(ri_dependencies, l)
        OBVIOUS
      <3>3. PICK v : v = [t EXCEPT ![e] = l]
        OBVIOUS
      <3>4. /\ t \in Seq(Seq(Nat)) /\ Len(t) = e
            /\ \A f \in 1..Len(ri_dependencies) : t[f] = ri_dependencies[f]
        BY <2>1, <3>1, Appended, EmptySeq
      <3>5. /\ u \in Seq(Seq(Nat)) /\ Len(u) = e /\ u[e] = l
            /\ \A f \in 1..Len(ri_dependencies) : u[f] = ri_dependencies[f]
        BY <1>5, <2>1, <3>2, Appended
      <3>6. e \in 1..e /\ 1..e = (1..Len(ri_dependencies)) \cup {e}
        BY <2>1
      <3>7. /\ v \in Seq(Seq(Nat)) /\ Len(v) = e /\ v[e] = l
            /\ \A f \in 1..e : f # e => v[f] = t[f]
        <4>1. [t EXCEPT ![e] = l] \in Seq(Seq(Nat))
          BY <1>5, <3>4, <3>6, ExceptSeq
        <4>. QED
          BY <3>3, <3>4, <3>6, <4>1
      <3>8. \A f \in 1..e : v[f] = u[f]
        BY <3>4, <3>5, <3>6, <3>7
      <3>9. v = u
        BY <3>5, <3>7, <3>8, SeqEqual
      <3>. QED
        BY <3>1, <3>2, <3>3, <3>9
    <2>. QED
      BY <1>6, <2>2, <2>3
  <1>8. ASSUME NEW f
        PROVE  Cardinality({k \in 1..Len(l) : l[k] = f}) \in Nat
    <2>1. IsFiniteSet(1..Len(l)) /\ {k \in 1..Len(l) : l[k] = f} \in SUBSET (1..Len(l))
      BY <1>5, FS_Interval
    <2>. QED
      BY <2>1, FS_Subset, FS_CardinalityType
  <1>9. PICK more : more = Append(refcount, 1)
    OBVIOUS
  <1>10. /\ more \in Seq(Nat) /\ Len(more) = e /\ more[e] = 1 /\ e \in Nat
         /\ \A f \in Made : more[f] = refcount[f]
    BY <1>9, Appended DEF RepositoryInv, RepositoryShape, Made
  <1>11. refcount' = [f \in 1..e |-> more[f] + Cardinality({k \in 1..Len(l) : l[k] = f})]
    <2>1. DOMAIN more = 1..e /\ DOMAIN l = 1..Len(l)
      BY <1>5, <1>10
    <2>. QED
      BY <1>6, <1>9, <2>1 DEF Referenced
  <1>12. refcount' \in Seq(Nat) /\ Len(refcount') = e
    <2>1. \A f \in 1..e : more[f] + Cardinality({k \in 1..Len(l) : l[k] = f}) \in Nat
      <3>1. \A f \in 1..e : more[f] \in Nat
        BY <1>10, ElementOfSeq
      <3>. QED
        <4>1. ASSUME NEW f \in 1..e
              PROVE  more[f] + Cardinality({k \in 1..Len(l) : l[k] = f}) \in Nat
          <5>1. Cardinality({k \in 1..Len(l) : l[k] = f}) \in Nat
            BY <1>8
          <5>. QED
            BY <3>1, <5>1
        <4>. QED
          BY <4>1
    <2>2. refcount' \in [1..e -> Nat]
      BY <1>11, <2>1
    <2>. QED
      BY <1>10, <2>2
  <1>13. refcount'[e] = 1
    <2>1. e \in 1..e /\ e \notin Made
      BY <1>10 DEF Made
    <2>2. {k \in 1..Len(l) : l[k] = e} = {}
      BY <1>5, <2>1 DEF Loaded
    <2>3. Cardinality({k \in 1..Len(l) : l[k] = e}) = 0
      BY <2>2, FS_EmptySet
    <2>. QED
      BY <1>10, <1>11, <2>1, <2>3
  <1>14. ASSUME NEW f \in Made
         PROVE  refcount'[f] = refcount[f] + Cardinality({k \in 1..Len(l) : l[k] = f})
    <2>1. f \in 1..e
      BY <1>10 DEF Made, RepositoryInv, RepositoryShape
    <2>. QED
      BY <1>10, <1>11, <2>1
  <1>. QED
    BY <1>5, <1>7, <1>12, <1>13, <1>14

LEMMA NextOpen ==
    ASSUME RepositoryInv, ~Reload, ~SelfLinks, NEW c \in RepositoryNames,
           NEW deps \in DependencyLists(c), Open(c, deps)
    PROVE  RepositoryInv'
  <1>1. PICK e : e = Len(ri_name) + 1
    OBVIOUS
  <1>2. PICK l \in Seq(Nat) :
           /\ Len(l) <= MaxDependencies
           /\ \A k \in 1..Len(l) : l[k] \in Loaded
           /\ ri_dependencies' = Append(ri_dependencies, l)
           /\ refcount' \in Seq(Nat) /\ Len(refcount') = e
           /\ refcount'[e] = 1
           /\ \A f \in Made : refcount'[f] = refcount[f]
                                + Cardinality({k \in 1..Len(l) : l[k] = f})
    BY <1>1, OpenAppends
  <1>3. /\ initialized /\ item = None /\ destructors = <<>>
        /\ find_component(repository, c) = None /\ c \notin opened
        /\ Len(ri_name) < MaxEntries
        /\ ri_name' = Append(ri_name, c) /\ repository' = Append(repository, e)
        /\ ri_state' = Append(ri_state, "open") /\ opened' = opened \cup {c}
        /\ UNCHANGED <<initialized, destructors, item, finding, held, dangling>>
    BY <1>1 DEF Open, Idle
  <1>4. /\ e \in Nat /\ e >= 1 /\ e \notin Made /\ \A f \in Made : f \in Nat /\ f < e
        /\ 1..e = Made \cup {e}
    BY <1>1 DEF Made, RepositoryInv, RepositoryShape
  <1>5. /\ ri_name' \in Seq(RepositoryNames) /\ Len(ri_name') = e /\ ri_name'[e] = c
        /\ \A f \in Made : ri_name'[f] = ri_name[f]
    BY <1>1, <1>3, Appended DEF RepositoryInv, RepositoryShape, Made
  <1>6. /\ ri_state' \in Seq({"open", "closing", "freed"}) /\ Len(ri_state') = e
        /\ ri_state'[e] = "open" /\ \A f \in Made : ri_state'[f] = ri_state[f]
    <2>1. /\ ri_state \in Seq({"open", "closing", "freed"}) /\ Len(ri_state) + 1 = e
          /\ Len(ri_state) = Len(ri_name)
      BY <1>1 DEF RepositoryInv, RepositoryShape
    <2>. QED
      BY <1>3, <2>1, Appended DEF Made
  <1>7. /\ ri_dependencies' \in Seq(Seq(Nat)) /\ Len(ri_dependencies') = e
        /\ ri_dependencies'[e] = l
        /\ \A f \in Made : ri_dependencies'[f] = ri_dependencies[f]
    <2>1. /\ ri_dependencies \in Seq(Seq(Nat)) /\ Len(ri_dependencies) + 1 = e
          /\ Len(ri_dependencies) = Len(ri_name)
      BY <1>1 DEF RepositoryInv, RepositoryShape
    <2>. QED
      BY <1>2, <2>1, Appended DEF Made
  <1>8. Made' = Made \cup {e}
    BY <1>4, <1>5 DEF Made
  <1>9. Live' = Live \cup {e} /\ Loaded' = Loaded \cup {e} /\ Closing' = Closing
    BY <1>6, <1>8 DEF Live, Loaded, Closing
  <1>10. Live \subseteq Made /\ Loaded \subseteq Made
    BY DEF Live, Loaded
  <1>11. /\ repository' \in Seq(Nat) /\ ToSet(repository') = Live'
         /\ \A i, j \in 1..Len(repository') : i < j => repository'[i] < repository'[j]
    <2>1. /\ repository \in Seq(Nat) /\ ToSet(repository) = Live
          /\ \A i, j \in 1..Len(repository) : i < j => repository[i] < repository[j]
          /\ Len(repository) \in Nat
      BY DEF RepositoryInv, RepositoryShape, InOrder
    <2>2. PICK r : r = repository'
      OBVIOUS
    <2>3. /\ r \in Seq(Nat) /\ Len(r) = Len(repository) + 1 /\ r[Len(repository) + 1] = e
          /\ \A k \in 1..Len(repository) : r[k] = repository[k]
          /\ ToSet(r) = ToSet(repository) \cup {e}
      <3>1. r = Append(repository, e)
        BY <1>3, <2>2
      <3>. QED
        <4>1. LET t == Append(repository, e) IN
              /\ t \in Seq(Nat) /\ Len(t) = Len(repository) + 1
              /\ t[Len(repository) + 1] = e
              /\ \A k \in 1..Len(repository) : t[k] = repository[k]
              /\ ToSet(t) = ToSet(repository) \cup {e}
          <5>1. e \in Nat /\ repository \in Seq(Nat)
            BY <1>4, <2>1
          <5>. QED
            BY <5>1, Appended
        <4>. QED
          BY <3>1, <4>1
    <2>4. \A k \in 1..Len(repository) : repository[k] < e
      BY <1>4, <1>10, <2>1, SetOfSequence
    <2>5. ASSUME NEW i \in 1..Len(r), NEW j \in 1..Len(r), i < j PROVE r[i] < r[j]
      <3>1. i \in 1..Len(repository)
        BY <2>1, <2>3, <2>5
      <3>2. j \in 1..Len(repository) \/ j = Len(repository) + 1
        BY <2>1, <2>3
      <3>. QED
        BY <2>1, <2>3, <2>4, <2>5, <3>1, <3>2
    <2>. QED
      BY <1>9, <2>1, <2>2, <2>3, <2>5
  <1>12. held[c] = 0 /\ \A f \in Live : ri_name[f] # c
    <2>1. \A f \in Live : ri_name[f] # c
      <3>1. \A f \in Live : f # None
        BY DEF Live, Made, None
      <3>. QED
        BY <1>3, <3>1, EntryFound
    <2>2. held[c] \in Nat
      BY BoundsAreNumbers DEF RepositoryInv, RepositoryShape
    <2>3. Loaded \subseteq Live
      BY DEF Loaded, Live
    <2>. QED
      <3>1. ASSUME held[c] > 0 PROVE \E f \in Loaded : ri_name[f] = c
        BY <1>3, <3>1 DEF RepositoryInv, UsedIsLoaded
      <3>2. ~(held[c] > 0)
        BY <2>1, <2>3, <3>1
      <3>. QED
        BY <2>1, <2>2, <3>2
  <1>13. RepositoryShape'
    <2>1. e <= MaxEntries
      BY <1>1, <1>3, BoundsAreNumbers DEF RepositoryInv, RepositoryShape
    <2>. QED
      BY <1>2, <1>3, <1>5, <1>6, <1>7, <1>11, <2>1 DEF RepositoryInv, RepositoryShape
  <1>14. InOrder'
    BY <1>11 DEF InOrder
  <1>15. OneOfEachName'
    BY <1>4, <1>5, <1>9, <1>10, <1>12 DEF RepositoryInv, OneOfEachName
  <1>16. Links'
    <2>1. ASSUME NEW f \in Made
          PROVE  /\ Len(ri_dependencies'[f]) <= MaxDependencies
                 /\ \A k \in 1..Len(ri_dependencies'[f]) :
                      ri_dependencies'[f][k] < f /\ ri_dependencies'[f][k] \in Loaded'
                 /\ ri_state'[f] = "freed" => ri_dependencies'[f] = <<>>
      <3>1. ri_dependencies'[f] = ri_dependencies[f] /\ ri_state'[f] = ri_state[f]
        BY <1>6, <1>7
      <3>. QED
        BY <1>9, <3>1, DependenciesLinked
    <2>2. \A k \in 1..Len(l) : l[k] < e /\ l[k] \in Loaded'
      BY <1>2, <1>4, <1>9, <1>10
    <2>. QED
      BY <1>2, <1>6, <1>7, <1>8, <2>1, <2>2 DEF Links
  <1>17. Nested'
    BY <1>3, <1>9 DEF RepositoryInv, Nested
  <1>18. Counts'
    <2>1. ASSUME NEW f
          PROVE  /\ Cardinality({k \in 1..Len(l) : l[k] = f}) \in Nat
                 /\ Cardinality(References(ri_dependencies', f))
                      = Cardinality(References(ri_dependencies, f))
                          + Cardinality({k \in 1..Len(l) : l[k] = f})
      <3>1. PICK old \in Seq(Seq(Nat)) : old = ri_dependencies
        BY DependenciesLinked
      <3>2. /\ Cardinality({k \in 1..Len(l) : l[k] = f}) \in Nat
            /\ Cardinality(References(Append(old, l), f))
                 = Cardinality(References(old, f))
                     + Cardinality({k \in 1..Len(l) : l[k] = f})
        BY <1>2, ReferencesAdded
      <3>. QED
        BY <1>2, <3>1, <3>2
    <2>2. ASSUME NEW f \in Live
          PROVE  refcount'[f] = Cardinality(References(ri_dependencies', f)) + Users(f)'
      <3>1. refcount[f] = Cardinality(References(ri_dependencies, f)) + Users(f)
        BY DEF RepositoryInv, Counts
      <3>2. f \in Made /\ ri_name[f] # c /\ ri_name[f] \in RepositoryNames
        BY <1>10, <1>12, ElementOfSeq DEF Made, RepositoryInv, RepositoryShape
      <3>3. Users(f)' = Users(f) /\ Users(f) \in Nat
        <4>1. ri_name'[f] = ri_name[f] /\ held[ri_name[f]] \in Nat
          BY <1>5, <3>2, BoundsAreNumbers DEF RepositoryInv, RepositoryShape
        <4>. QED
          BY <1>3, <3>2, <4>1 DEF Users
      <3>4. Cardinality(References(ri_dependencies, f)) \in Nat
        BY ReferencesFinite, DependenciesLinked
      <3>5. refcount'[f] = refcount[f] + Cardinality({k \in 1..Len(l) : l[k] = f})
        BY <1>2, <3>2
      <3>. QED
        BY <2>1, <3>1, <3>3, <3>4, <3>5
    <2>3. refcount'[e] = Cardinality(References(ri_dependencies', e)) + Users(e)'
      <3>1. References(ri_dependencies, e) = {}
        <4>1. SUFFICES ASSUME NEW r \in References(ri_dependencies, e) PROVE FALSE
          OBVIOUS
        <4>2. PICK f \in Made, j \in 1..MaxDependencies :
                 /\ j <= Len(ri_dependencies[f])
                 /\ ri_dependencies[f][Len(ri_dependencies[f]) + 1 - j] = e
          BY DependenciesLinked DEF References, Made
        <4>3. Len(ri_dependencies[f]) \in Nat
          BY DependenciesLinked
        <4>4. Len(ri_dependencies[f]) + 1 - j \in 1..Len(ri_dependencies[f])
          BY <4>2, <4>3, BoundsAreNumbers
        <4>5. e \in Loaded
          BY <4>2, <4>4, DependenciesLinked
        <4>. QED
          BY <1>4, <1>10, <4>5
      <3>2. {k \in 1..Len(l) : l[k] = e} = {}
        BY <1>2, <1>4, <1>10
      <3>3. Cardinality(References(ri_dependencies', e)) = 0
        BY <2>1, <3>1, <3>2, FS_EmptySet
      <3>4. Users(e)' = 1
        BY <1>3, <1>5, <1>12 DEF Users
      <3>. QED
        BY <1>2, <3>3, <3>4
    <2>. QED
      BY <1>9, <2>2, <2>3 DEF Counts
  <1>19. LoadedIsUsed'
    <2>1. ASSUME NEW f \in Made PROVE f \in Loaded' <=> refcount'[f] > 0
      <3>1. f \in Loaded <=> refcount[f] > 0
        BY DEF RepositoryInv, LoadedIsUsed
      <3>2. f \in Loaded' <=> f \in Loaded
        BY <1>4, <1>9
      <3>3. refcount[f] \in Nat
        BY ElementOfSeq DEF Made, RepositoryInv, RepositoryShape
      <3>4. CASE f \in Loaded
        <4>1. Cardinality({k \in 1..Len(l) : l[k] = f}) \in Nat
          BY <1>2, ReferencesAdded, DependenciesLinked
        <4>2. refcount'[f] = refcount[f] + Cardinality({k \in 1..Len(l) : l[k] = f})
          BY <1>2
        <4>. QED
          BY <3>1, <3>2, <3>3, <3>4, <4>1, <4>2
      <3>5. CASE f \notin Loaded
        <4>1. {k \in 1..Len(l) : l[k] = f} = {}
          BY <1>2, <3>5
        <4>2. Cardinality({k \in 1..Len(l) : l[k] = f}) = 0
          BY <4>1, FS_EmptySet
        <4>3. refcount'[f] = refcount[f] + Cardinality({k \in 1..Len(l) : l[k] = f})
          BY <1>2
        <4>. QED
          BY <3>1, <3>2, <3>3, <3>5, <4>2, <4>3
      <3>. QED
        BY <3>4, <3>5
    <2>2. e \in Loaded' /\ refcount'[e] > 0
      BY <1>2, <1>9
    <2>. QED
      BY <1>8, <2>1, <2>2 DEF LoadedIsUsed
  <1>20. UsedIsLoaded'
    <2>1. ASSUME NEW d \in RepositoryNames, d \in opened' \/ held[d] > 0
          PROVE  \E f \in Loaded' : ri_name'[f] = d
      <3>1. CASE d = c
        BY <1>5, <1>9, <3>1
      <3>2. CASE d # c
        <4>1. PICK f \in Loaded : ri_name[f] = d
          BY <1>3, <2>1, <3>2 DEF RepositoryInv, UsedIsLoaded
        <4>2. f \in Loaded' /\ ri_name'[f] = d
          BY <1>5, <1>9, <1>10, <4>1
        <4>. QED
          BY <4>2
      <3>. QED
        BY <3>1, <3>2
    <2>. QED
      BY <1>3, <2>1 DEF UsedIsLoaded
  <1>21. Finalizing'
    BY <1>3 DEF Finalizing
  <1>. QED
    BY <1>3, <1>13, <1>14, <1>15, <1>16, <1>17, <1>18, <1>19, <1>20, <1>21
    DEF RepositoryInv

-----------------------------------------------------------------------------
(* The theorem *)

LEMMA RepositoryInitInv == ASSUME RepositoryAtFirst PROVE RepositoryInv
  <1>1. Made = {} /\ Live = {} /\ Loaded = {} /\ Closing = {}
    BY DEF RepositoryAtFirst, Made, Live, Loaded, Closing
  <1>2. RepositoryShape
    <2>1. held \in [RepositoryNames -> 0..MaxRetains]
      BY BoundsAreNumbers DEF RepositoryAtFirst
    <2>2. /\ ri_name \in Seq(RepositoryNames)
          /\ ri_state \in Seq({"open", "closing", "freed"})
          /\ refcount \in Seq(Nat) /\ ri_dependencies \in Seq(Seq(Nat))
          /\ repository \in Seq(Nat) /\ destructors \in Seq(Nat)
      BY EmptySeq DEF RepositoryAtFirst
    <2>3. /\ Len(ri_name) = 0 /\ Len(ri_state) = 0 /\ Len(refcount) = 0
          /\ Len(ri_dependencies) = 0 /\ 0 <= MaxEntries
      BY EmptySeq, BoundsAreNumbers DEF RepositoryAtFirst
    <2>4. initialized \in BOOLEAN /\ finding \in BOOLEAN /\ opened \subseteq RepositoryNames
      BY DEF RepositoryAtFirst
    <2>. QED
      BY <2>1, <2>2, <2>3, <2>4 DEF RepositoryShape
  <1>3. InOrder /\ Nested
    BY <1>1 DEF RepositoryAtFirst, InOrder, Nested, ToSet
  <1>4. OneOfEachName /\ Links /\ Counts /\ LoadedIsUsed
    BY <1>1 DEF OneOfEachName, Links, Counts, LoadedIsUsed
  <1>5. UsedIsLoaded /\ Finalizing
    BY DEF RepositoryAtFirst, UsedIsLoaded, Finalizing
  <1>. QED
    BY <1>2, <1>3, <1>4, <1>5 DEF RepositoryAtFirst, RepositoryInv

LEMMA RepositoryStutter ==
    ASSUME RepositoryInv, UNCHANGED repositoryVars PROVE RepositoryInv'
  <1>1. /\ UNCHANGED <<entries, destructors, dangling>>
        /\ UNCHANGED <<initialized, item, opened, finding, held>>
        /\ UNCHANGED <<repository, ri_name, ri_state, refcount>>
    BY DEF repositoryVars, entries
  <1>2. \A f \in Live : Users(f)' = Users(f)
    BY <1>1 DEF Users
  <1>3. Live' = Live /\ Loaded' = Loaded
    BY <1>1 DEF Live, Loaded, Made
  <1>4. UsedIsLoaded' /\ Finalizing'
    BY <1>1, <1>3 DEF RepositoryInv, UsedIsLoaded, Finalizing
  <1>. QED
    BY <1>1, <1>2, <1>4, UsersChange DEF RepositoryInv, RepositoryShape

LEMMA RepositoryNextInv ==
    ASSUME RepositoryInv, [RepositoryNext]_repositoryVars,
           ~Reload, ~SelfLinks, ~FinalizeAnytime
    PROVE  RepositoryInv'
  <1>1. CASE RepositoryInit
    BY <1>1, NextRepositoryInit
  <1>2. CASE Finalize
    BY <1>2, NextFinalize
  <1>3. ASSUME NEW c \in RepositoryNames, NEW deps \in DependencyLists(c), Open(c, deps)
        PROVE  RepositoryInv'
    BY <1>3, NextOpen
  <1>4. ASSUME NEW c \in RepositoryNames, RetainComponent(c)
        PROVE  RepositoryInv'
    BY <1>4, NextRetainComponent
  <1>5. ASSUME NEW c \in RepositoryNames, ReleaseOpened(c)
        PROVE  RepositoryInv'
    BY <1>5, NextReleaseOpened
  <1>6. ASSUME NEW c \in RepositoryNames, ReleaseHeld(c)
        PROVE  RepositoryInv'
    BY <1>6, NextReleaseHeld
  <1>7. CASE DestructDependency
    BY <1>7, NextDestructDependency
  <1>8. CASE DestructEnd
    BY <1>8, NextDestructEnd
  <1>9. CASE FinalizeRelease
    BY <1>9, NextFinalizeRelease
  <1>10. CASE FinalizePassEnd
    BY <1>10, NextFinalizePassEnd
  <1>11. CASE UNCHANGED repositoryVars
    BY <1>11, RepositoryStutter
  <1>. QED
    BY <1>1, <1>2, <1>3, <1>4, <1>5, <1>6, <1>7, <1>8, <1>9, <1>10, <1>11
    DEF RepositoryNext, RepositoryCall, RepositoryStep

LEMMA RepositoryInvSound == ASSUME RepositoryInv PROVE RepositoryIsSound
  <1>1. RepositoryTypeOK
    <2>1. \A e \in Made : ri_dependencies[e] \in Seq(Made)
      <3>1. ASSUME NEW e \in Made PROVE ri_dependencies[e] \in Seq(Made)
        <4>1. /\ ri_dependencies[e] \in Seq(Nat)
              /\ \A k \in 1..Len(ri_dependencies[e]) : ri_dependencies[e][k] \in Made
          BY DependenciesLinked DEF Loaded
        <4>. QED
          BY <4>1
      <3>. QED
        BY <3>1
    <2>2. ToSet(repository) \subseteq Made /\ ToSet(destructors) \subseteq Made
      BY DEF RepositoryInv, InOrder, Nested, Live, Closing
    <2>3. item \in Made \cup {None, End}
      BY DEF RepositoryInv, Finalizing, Live
    <2>4. /\ ri_name \in [Made -> RepositoryNames]
          /\ ri_state \in [Made -> {"open", "closing", "freed"}]
          /\ refcount \in [Made -> Nat]
      <3>1. /\ ri_name \in Seq(RepositoryNames)
            /\ ri_state \in Seq({"open", "closing", "freed"}) /\ refcount \in Seq(Nat)
            /\ Len(ri_state) = Len(ri_name) /\ Len(refcount) = Len(ri_name)
        BY DEF RepositoryInv, RepositoryShape
      <3>2. \A S : \A q \in Seq(S) : q \in [1..Len(q) -> S]
        BY LenProperties
      <3>. QED
        BY <3>1, <3>2 DEF Made
    <2>5. /\ initialized \in BOOLEAN /\ finding \in BOOLEAN /\ dangling \in BOOLEAN
          /\ Len(ri_name) <= MaxEntries /\ opened \subseteq RepositoryNames
          /\ held \in [RepositoryNames -> 0..MaxRetains]
      BY DEF RepositoryInv, RepositoryShape
    <2>. QED
      BY <2>1, <2>2, <2>3, <2>4, <2>5 DEF RepositoryTypeOK, Made
  <1>2. DependenciesAreOpen
    <2>1. ASSUME NEW e \in Made, NEW d \in ToSet(ri_dependencies[e])
          PROVE  d \in Made /\ ri_state[d] = "open"
      <3>1. PICK k \in 1..Len(ri_dependencies[e]) : ri_dependencies[e][k] = d
        BY DependenciesLinked, SetOfSequence
      <3>. QED
        BY <3>1, DependenciesLinked DEF Loaded
    <2>. QED
      BY <2>1 DEF DependenciesAreOpen, IsOpen, Made
  <1>3. UsedIsOpen
    BY DEF RepositoryInv, UsedIsLoaded, UsedIsOpen, IsOpen, Loaded, Made
  <1>4. NothingLeaks
    <2>1. SUFFICES ASSUME Idle, opened = {}, \A c \in RepositoryNames : held[c] = 0
                   PROVE  repository = <<>>
      BY DEF NothingLeaks
    <2>2. ASSUME NEW e \in Live PROVE Users(e) = 0
      <3>1. ri_name[e] \in RepositoryNames
        BY ElementOfSeq DEF Live, Made, RepositoryInv, RepositoryShape
      <3>. QED
        BY <2>1, <3>1 DEF Users, Idle
    <2>. QED
      BY <2>1, <2>2, UnusedIsGone DEF Idle
  <1>. QED
    BY <1>1, <1>2, <1>3, <1>4 DEF RepositoryIsSound, RepositoryInv, NoUseAfterFree

THEOREM RepositorySound ==
    ASSUME ~Reload, ~SelfLinks, ~FinalizeAnytime
    PROVE  RepositorySpec => []RepositoryIsSound
  <1>1. RepositoryAtFirst => RepositoryInv
    BY RepositoryInitInv
  <1>2. RepositoryInv /\ [RepositoryNext]_repositoryVars => RepositoryInv'
    BY RepositoryNextInv
  <1>3. RepositoryInv => RepositoryIsSound
    BY RepositoryInvSound
  <1>. QED
    BY <1>1, <1>2, <1>3, PTL DEF RepositorySpec

(***************************************************************************)
(* The search for components                                               *)
(***************************************************************************)
FindStates == {"UNVISITED", "CHECKING_CYCLE", "FAILED_TO_LOAD", "LOADED"}
FrameRecords == [file : Files, line : Nat, deps : Seq(Files), loaded : BOOLEAN]

\* The k-th of n calls.  One that waits, or one whose dependency has been
\* loaded for it, is at a line that names a file; and only calls that could
\* open the .ompi_info file are at a line.
FrameOK(r, k, n, lines) ==
    /\ r.line <= Len(lines) + 1
    /\ r.line \in 1..Len(lines) => k <= MaxOpenFiles
    /\ r.loaded \/ k < n => r.line \in 1..Len(lines) /\ lines[r.line] \in Files

FindShape ==
    /\ depends \in [Files -> Seq(Files \cup {Missing})]
    /\ kind \in [Files -> {"good", "broken", "static"}]
    /\ file_status \in [Files -> FindStates]
    /\ found_components \in Seq(Files)
    /\ links \in SUBSET (Files \X Files)
    /\ cur \in 1..(NumFiles + 1)
    /\ ret \in {"none", "OCOMS_SUCCESS"}
    /\ frames \in Seq(FrameRecords)
    /\ \A k \in DOMAIN frames :
          FrameOK(frames[k], k, Len(frames), depends[frames[k].file])

StaticFiles == {f \in Files : kind[f] = "static" /\ use_component(f)}
CanLoad(f, fs) ==
    /\ use_component(f) /\ kind[f] = "good"
    /\ \A d \in ToSet(depends[f]) \ {f} : d \in fs /\ d < f

\* The k-th call.  All calls are for the file visited last; the lines that one which
\* could open the .ompi_info file is past are satisfied.
FrameInOrder(r, k) ==
    /\ r.file = cur - 1 /\ use_component(r.file)
    /\ file_status[r.file] = "CHECKING_CYCLE" /\ ~r.loaded
    /\ r.line # 0 => kind[r.file] # "static"
    /\ k <= MaxOpenFiles =>
       \A i \in DOMAIN depends[r.file] : i < r.line =>
          /\ depends[r.file][i] \in ToSet(r.deps)
          /\ depends[r.file][i] \in LoadedFiles \cup {r.file}

\* A call that waits for another one is at a dependency not looked at yet.
Waits(r) ==
    /\ r.line \in 1..Len(depends[r.file])
    /\ depends[r.file][r.line] \in Files
    /\ file_status[depends[r.file][r.line]] = "UNVISITED"

FramesInOrder ==
    \A k \in DOMAIN frames :
       FrameInOrder(frames[k], k) /\ (k < Len(frames) => Waits(frames[k]))
VisitedSoFar == \A f \in Files : f >= cur <=> file_status[f] = "UNVISITED"
DecidedSoFar ==
    \A f \in Files : f < cur /\ (frames = <<>> \/ f # cur - 1) =>
       (f \in LoadedFiles <=> CanLoad(f, LoadedFiles))
FoundSoFar ==
    /\ ToSet(found_components) = StaticFiles \cup LoadedFiles
    /\ IsInjective(found_components)
    /\ \A f \in LoadedFiles : kind[f] = "good"
    /\ \A f \in LoadedFiles : \A d \in ToSet(depends[f]) : <<f, d>> \in links /\ d \in LoadedFiles
ReturnedInOrder == Done => frames = <<>> /\ cur = NumFiles + 1

InVisitedOrder ==
    FramesInOrder /\ VisitedSoFar /\ DecidedSoFar /\ FoundSoFar /\ ReturnedInOrder

FindInv == FindShape /\ InVisitedOrder

\* The innermost call.
LEMMA TopFrame ==
    ASSUME FindShape, frames # <<>>
    PROVE  /\ Len(frames) \in Nat \ {0} /\ DOMAIN frames = 1..Len(frames)
           /\ top = frames[Len(frames)] /\ top \in FrameRecords
           /\ FrameOK(top, Len(frames), Len(frames), depends[top.file])
           /\ depends[top.file] \in Seq(Files \cup {Missing})
           /\ top.file \in Files
  <1>1. frames \in Seq(FrameRecords)
    BY DEF FindShape
  <1>2. Len(frames) \in Nat \ {0} /\ DOMAIN frames = 1..Len(frames)
    BY <1>1
  <1>3. top = frames[Len(frames)]
    BY DEF top, Last
  <1>4. top \in FrameRecords
    BY <1>1, <1>2, <1>3
  <1>5. top.file \in Files
    BY <1>4 DEF FrameRecords
  <1>6. FrameOK(top, Len(frames), Len(frames), depends[top.file])
    <2>1. PICK k \in DOMAIN frames : k = Len(frames)
      BY <1>2
    <2>2. FrameOK(frames[k], k, Len(frames), depends[frames[k].file])
      BY DEF FindShape
    <2>. QED
      BY <2>1, <2>2, <1>3
  <1>. QED
    BY <1>2, <1>3, <1>4, <1>5, <1>6 DEF FindShape

\* The top frame changes, the others stay, and so does their shape.
LEMMA TopChanges ==
    ASSUME FindShape, frames # <<>>, NEW r \in FrameRecords, r.file = top.file,
           FrameOK(r, Len(frames), Len(frames), depends[r.file])
    PROVE  LET fs == [frames EXCEPT ![Len(frames)] = r] IN
             /\ fs \in Seq(FrameRecords) /\ Len(fs) = Len(frames) /\ fs[Len(fs)] = r
             /\ \A k \in DOMAIN fs : FrameOK(fs[k], k, Len(fs), depends[fs[k].file])
  <1>. DEFINE fs == [frames EXCEPT ![Len(frames)] = r]
  <1>1. frames \in Seq(FrameRecords)
    BY DEF FindShape
  <1>2. Len(frames) \in Nat \ {0} /\ DOMAIN frames = 1..Len(frames)
    BY TopFrame
  <1>3. fs \in Seq(FrameRecords) /\ Len(fs) = Len(frames) /\ DOMAIN fs = 1..Len(frames)
    BY <1>1, <1>2
  <1>4. ASSUME NEW k \in DOMAIN fs
        PROVE  FrameOK(fs[k], k, Len(fs), depends[fs[k].file])
    <2>1. CASE k = Len(frames)
      <3>1. fs[k] = r
        BY <2>1, <1>2
      <3>. HIDE DEF fs
      <3>. QED
        BY <3>1, <2>1, <1>3
    <2>2. CASE k # Len(frames)
      <3>1. fs[k] = frames[k]
        BY <2>2, <1>2, <1>3
      <3>2. k \in DOMAIN frames
        BY <1>2, <1>3
      <3>. HIDE DEF fs
      <3>3. FrameOK(frames[k], k, Len(frames), depends[frames[k].file])
        BY <3>2 DEF FindShape
      <3>. QED
        BY <3>1, <3>3, <1>3
    <2>. QED
      BY <2>1, <2>2
  <1>5. fs[Len(fs)] = r
    BY <1>2, <1>3
  <1>. QED
    BY <1>3, <1>4, <1>5

\* Types and the shape of the call stack.
LEMMA FindInitShape ==
    ASSUME FindInit PROVE FindShape
  <1>. USE FindAssumption
  <1>1. depends \in [Files -> Seq(Files \cup {Missing})]
    BY DEF FindInit
  <1>2. frames = <<>> /\ cur \in 1..(NumFiles + 1) /\ ret = "none" /\ links = {}
    BY DEF FindInit
  <1>3. file_status \in [Files -> FindStates] /\ kind \in [Files -> {"good", "broken", "static"}]
    BY DEF FindInit, FindStates
  <1>4. found_components \in Seq(Files)
    <2>1. found_components \in BoundedSeq(Files, NumFiles)
      BY DEF FindInit, InStaticOrder
    <2>2. PICK m \in 0..NumFiles : found_components \in [1..m -> Files]
      BY <2>1 DEF BoundedSeq, SeqOf
    <2>. QED
      BY <2>2
  <1>5. frames \in Seq(FrameRecords) /\ DOMAIN frames = {}
    BY <1>2
  <1>6. \A k \in DOMAIN frames : FrameOK(frames[k], k, Len(frames), depends[frames[k].file])
    BY <1>5
  <1>7. links \in SUBSET (Files \X Files) /\ ret \in {"none", "OCOMS_SUCCESS"}
    BY <1>2
  <1>. QED
    BY <1>1, <1>2, <1>3, <1>4, <1>5, <1>6, <1>7 DEF FindShape

LEMMA FailShape ==
    ASSUME FindShape, frames # <<>>, Fail PROVE FindShape'
  <1>1. top.file \in Files
    BY TopFrame
  <1>2. file_status' \in [Files -> FindStates] /\ frames' = <<>>
    BY <1>1 DEF Fail, FindShape, FindStates
  <1>3. frames' \in Seq(FrameRecords) /\ DOMAIN frames' = {}
    BY <1>2
  <1>. QED
    BY <1>2, <1>3 DEF Fail, FindShape, disk

LEMMA FindShapeStep ==
    ASSUME FindShape, FindNext PROVE FindShape'
  <1>. USE FindAssumption
  <1>1. ASSUME VisitFile PROVE FindShape'
    <2>1. cur \in Files /\ cur' \in 1..(NumFiles + 1)
      BY <1>1 DEF VisitFile, FindShape, Files
    <2>2. file_status' \in [Files -> FindStates]
      BY <1>1, <2>1 DEF VisitFile, FindShape, FindStates
    <2>3. Frame(cur) \in FrameRecords
      BY <2>1 DEF Frame, FrameRecords
    <2>4. frames' = <<Frame(cur)>> \/ frames' = <<>>
      BY <1>1 DEF VisitFile
    <2>5. frames' \in Seq(FrameRecords)
          /\ \A k \in DOMAIN frames' : k = 1 /\ Len(frames') = 1 /\ frames'[k] = Frame(cur)
      <3>1. PICK r : r = Frame(cur)
        OBVIOUS
      <3>2. <<r>> \in Seq(FrameRecords) /\ DOMAIN <<r>> = {1} /\ Len(<<r>>) = 1 /\ <<r>>[1] = r
        BY <2>3, <3>1
      <3>3. CASE frames' = <<r>>
        BY <3>1, <3>2, <3>3
      <3>4. CASE frames' = <<>>
        BY <3>4
      <3>. QED
        BY <2>4, <3>1, <3>3, <3>4
    <2>6. depends[cur] \in Seq(Files \cup {Missing}) /\ depends' = depends
      BY <2>1, <1>1 DEF FindShape, VisitFile, disk
    <2>7. FrameOK(Frame(cur), 1, 1, depends[cur]) /\ Frame(cur).file = cur
      BY <2>6 DEF FrameOK, Frame
    <2>8. \A k \in DOMAIN frames' : FrameOK(frames'[k], k, Len(frames'), depends'[frames'[k].file])
      BY <2>5, <2>6, <2>7
    <2>. QED
      BY <1>1, <2>1, <2>2, <2>5, <2>8 DEF VisitFile, FindShape, disk
  <1>2. ASSUME OpenBegin PROVE FindShape'
    <2>0. frames # <<>>
      BY <1>2 DEF OpenBegin
    <2>1. CASE Fail
      BY <2>0, <2>1, FailShape
    <2>2. CASE ~Fail
      <3>. DEFINE n == IF Len(frames) > MaxOpenFiles THEN Len(depends[top.file]) + 1 ELSE 1
                  r == [top EXCEPT !.line = n]
      <3>1. /\ frames' = [frames EXCEPT ![Len(frames)] = r]
            /\ UNCHANGED <<disk, file_status, found_components, links, cur, ret>>
        BY <1>2, <2>2, TopFrame DEF OpenBegin
      <3>2. /\ Len(frames) \in Nat \ {0} /\ top \in FrameRecords
            /\ FrameOK(top, Len(frames), Len(frames), depends[top.file])
            /\ depends[top.file] \in Seq(Files \cup {Missing}) /\ top.line = 0
        BY <1>2, <2>0, TopFrame DEF OpenBegin
      <3>0. n \in Nat /\ n \in {1, Len(depends[top.file]) + 1}
        BY <3>2
      <3>3. /\ r \in FrameRecords /\ r.file = top.file /\ r.line = n
            /\ r.loaded = top.loaded
        <4>. HIDE DEF n
        <4>. QED
          BY <3>0, <3>2 DEF FrameRecords
      <3>4. ~top.loaded
        BY <3>2 DEF FrameOK
      <3>5. FrameOK(r, Len(frames), Len(frames), depends[r.file])
        <4>. HIDE DEF r
        <4>. QED
          BY <3>2, <3>3, <3>4 DEF FrameOK
      <3>. HIDE DEF r
      <3>6. /\ frames' \in Seq(FrameRecords)
            /\ \A k \in DOMAIN frames' : FrameOK(frames'[k], k, Len(frames'), depends[frames'[k].file])
        BY <2>0, <3>1, <3>3, <3>5, TopChanges
      <3>. QED
        BY <3>1, <3>6 DEF FindShape, disk
    <2>. QED
      BY <2>1, <2>2
  <1>3. ASSUME DependencySatisfied PROVE FindShape'
    <2>0. frames # <<>> /\ AtLine
      BY <1>3 DEF DependencySatisfied, AtLine
    <2>1. /\ Len(frames) \in Nat \ {0} /\ top \in FrameRecords
          /\ FrameOK(top, Len(frames), Len(frames), depends[top.file])
          /\ depends[top.file] \in Seq(Files \cup {Missing})
          /\ top.file \in Files
      BY <2>0, TopFrame
    <2>2. Dependency \in Files
      <3>1. CASE top.loaded
        BY <3>1, <2>1 DEF FrameOK, Dependency
      <3>2. CASE Dependency = top.file
        BY <3>2, <2>1
      <3>3. CASE StatusOf(Dependency) = "LOADED"
        <4>1. Dependency \in Files \cup {Missing}
          BY <2>0, <2>1 DEF AtLine, Dependency
        <4>2. Dependency # Missing
          BY <3>3 DEF StatusOf
        <4>. QED
          BY <4>1, <4>2
      <3>. QED
        BY <1>3, <3>1, <3>2, <3>3 DEF DependencySatisfied
    <2>. DEFINE r == [top EXCEPT !.line = top.line + 1, !.deps = Append(top.deps, Dependency),
                                 !.loaded = FALSE]
    <2>3. frames' = [frames EXCEPT ![Len(frames)] = r]
      BY <1>3 DEF DependencySatisfied, NextLine
    <2>4. /\ top.deps \in Seq(Files) /\ top.line \in Nat /\ Append(top.deps, Dependency) \in Seq(Files)
      BY <2>1, <2>2 DEF FrameRecords
    <2>5. /\ r \in FrameRecords /\ r.file = top.file /\ r.line = top.line + 1 /\ ~r.loaded
      <3>1. PICK ds : ds = Append(top.deps, Dependency)
        OBVIOUS
      <3>2. PICK n : n = top.line + 1
        OBVIOUS
      <3>3. ds \in Seq(Files) /\ n \in Nat
        BY <2>4, <3>1, <3>2
      <3>4. r = [top EXCEPT !.line = n, !.deps = ds, !.loaded = FALSE]
        BY <3>1, <3>2
      <3>. HIDE DEF r
      <3>5. r \in FrameRecords /\ r.file = top.file /\ r.line = n /\ ~r.loaded
        BY <2>1, <3>3, <3>4 DEF FrameRecords
      <3>. QED
        BY <3>2, <3>5
    <2>6. FrameOK(r, Len(frames), Len(frames), depends[r.file])
      <3>. HIDE DEF r
      <3>. QED
        BY <2>0, <2>1, <2>4, <2>5 DEF FrameOK, AtLine
    <2>. HIDE DEF r
    <2>7. /\ frames' \in Seq(FrameRecords)
          /\ \A k \in DOMAIN frames' : FrameOK(frames'[k], k, Len(frames'), depends[frames'[k].file])
      BY <2>0, <2>3, <2>5, <2>6, TopChanges
    <2>8. file_status' \in [Files -> FindStates]
      BY <1>3, <2>1 DEF DependencySatisfied, Marked, FindShape, FindStates
    <2>. QED
      BY <1>3, <2>7, <2>8 DEF FindShape, disk, DependencySatisfied
  <1>4. ASSUME DependencyFails PROVE FindShape'
    BY <1>4, FailShape DEF DependencyFails, AtLine
  <1>5. ASSUME DependencyUnvisited PROVE FindShape'
    <2>0. frames # <<>> /\ AtLine
      BY <1>5 DEF DependencyUnvisited, AtLine
    <2>1. /\ Len(frames) \in Nat \ {0} /\ top \in FrameRecords
          /\ top = frames[Len(frames)]
          /\ depends[top.file] \in Seq(Files \cup {Missing})
          /\ top.file \in Files /\ DOMAIN frames = 1..Len(frames)
      BY <2>0, TopFrame
    <2>2. Dependency \in Files
      <3>1. Dependency \in Files \cup {Missing}
        BY <2>0, <2>1 DEF AtLine, Dependency
      <3>2. Dependency # Missing
        BY <1>5 DEF StatusOf, DependencyUnvisited
      <3>. QED
        BY <3>1, <3>2
    <2>. DEFINE r == Frame(top.file)
    <2>3. frames' = Append(frames, r)
      BY <1>5 DEF DependencyUnvisited
    <2>4. r \in FrameRecords /\ r.file = top.file /\ r.line = 0 /\ ~r.loaded
      BY <2>1 DEF Frame, FrameRecords
    <2>. HIDE DEF r
    <2>5. frames \in Seq(FrameRecords)
      BY DEF FindShape
    <2>6. /\ frames' \in Seq(FrameRecords) /\ Len(frames') = Len(frames) + 1
          /\ DOMAIN frames' = 1..(Len(frames) + 1)
          /\ frames'[Len(frames) + 1] = r
          /\ \A k \in 1..Len(frames) : frames'[k] = frames[k]
      BY <2>3, <2>4, <2>5
    <2>7. ASSUME NEW k \in DOMAIN frames'
          PROVE  FrameOK(frames'[k], k, Len(frames'), depends[frames'[k].file])
      <3>1. CASE k = Len(frames) + 1
        BY <3>1, <2>1, <2>4, <2>6 DEF FrameOK
      <3>2. CASE k = Len(frames)
        <4>1. FrameOK(top, k, k, depends[top.file])
          BY <3>2, <2>0, TopFrame
        <4>2. top.line \in 1..Len(depends[top.file]) /\ depends[top.file][top.line] \in Files
          BY <2>0, <2>2 DEF AtLine, Dependency
        <4>3. FrameOK(top, k, k + 1, depends[top.file])
          BY <4>1, <4>2 DEF FrameOK
        <4>4. frames'[k] = top /\ Len(frames') = k + 1
          BY <3>2, <2>1, <2>6
        <4>. QED
          BY <4>3, <4>4
      <3>3. CASE k < Len(frames)
        <4>1. k \in 1..Len(frames) /\ k < Len(frames) + 1 /\ k \in DOMAIN frames
          BY <3>3, <2>1, <2>6
        <4>2. FrameOK(frames[k], k, Len(frames), depends[frames[k].file])
          BY <4>1 DEF FindShape
        <4>3. FrameOK(frames[k], k, Len(frames) + 1, depends[frames[k].file])
          BY <4>1, <4>2, <3>3 DEF FrameOK
        <4>. QED
          BY <4>1, <4>3, <2>6
      <3>. QED
        BY <3>1, <3>2, <3>3, <2>1, <2>6
    <2>8. file_status' \in [Files -> FindStates]
      BY <1>5, <2>1 DEF DependencyUnvisited, Marked, FindShape, FindStates
    <2>. QED
      BY <1>5, <2>6, <2>7, <2>8 DEF FindShape, disk, DependencyUnvisited
  <1>6. ASSUME LoadFails PROVE FindShape'
    BY <1>6, FailShape DEF LoadFails, AtLoad
  <1>7. ASSUME Load PROVE FindShape'
    <2>0. frames # <<>>
      BY <1>7 DEF Load, AtLoad
    <2>1. /\ Len(frames) \in Nat \ {0} /\ top \in FrameRecords /\ top.file \in Files
          /\ top.deps \in Seq(Files)
      BY <2>0, TopFrame DEF FrameRecords
    <2>2. file_status' \in [Files -> FindStates] /\ found_components' \in Seq(Files)
      BY <1>7, <2>1 DEF Load, FindShape, FindStates
    <2>3. links' \in SUBSET (Files \X Files)
      <3>1. ToSet(top.deps) \subseteq Files
        BY <2>1 DEF ToSet
      <3>. QED
        BY <1>7, <2>1, <3>1 DEF Load, FindShape
    <2>. DEFINE n == Len(frames) - 1
    <2>4. frames \in Seq(FrameRecords)
      BY DEF FindShape
    <2>5. /\ n \in Nat /\ Front(frames) \in Seq(FrameRecords) /\ Len(Front(frames)) = n
          /\ \A k \in 1..n : Front(frames)[k] = frames[k] /\ k \in DOMAIN frames
      <3>1. n \in Nat /\ n <= Len(frames) /\ Front(frames) = SubSeq(frames, 1, n)
        BY <2>1 DEF Front
      <3>. HIDE DEF n
      <3>2. /\ SubSeq(frames, 1, n) \in Seq(FrameRecords)
            /\ Len(SubSeq(frames, 1, n)) = n
            /\ \A k \in 1..n : SubSeq(frames, 1, n)[k] = frames[k]
        BY <3>1, <2>4
      <3>. QED
        BY <3>1, <3>2, <2>4
    <2>6. CASE Front(frames) = <<>>
      <3>1. frames' = <<>>
        BY <1>7, <2>6 DEF Load
      <3>2. frames' \in Seq(FrameRecords) /\ DOMAIN frames' = {}
        BY <3>1
      <3>. QED
        BY <1>7, <2>2, <2>3, <3>2 DEF FindShape, disk, Load
    <2>7. CASE Front(frames) # <<>>
      <3>0. n >= 1
        BY <2>5, <2>7
      <3>. DEFINE r == [frames[n] EXCEPT !.loaded = TRUE]
      <3>1. frames' = [Front(frames) EXCEPT ![n].loaded = TRUE]
        BY <1>7, <2>7, <2>5 DEF Load
      <3>2. frames' = [Front(frames) EXCEPT ![n] = r]
        <4>1. Front(frames)[n] = frames[n]
          BY <3>0, <2>5
        <4>2. frames' = [Front(frames) EXCEPT ![n] = [Front(frames)[n] EXCEPT !.loaded = TRUE]]
          BY <3>1
        <4>. QED
          BY <4>1, <4>2
      <3>3. frames[n] \in FrameRecords /\ n \in DOMAIN frames
        BY <3>0, <2>4, <2>5
      <3>4. r \in FrameRecords /\ r.file = frames[n].file /\ r.line = frames[n].line /\ r.loaded
        BY <3>3 DEF FrameRecords
      <3>5. FrameOK(frames[n], n, n + 1, depends[frames[n].file])
        BY <3>3, <2>1 DEF FindShape
      <3>. HIDE DEF r
      <3>6. FrameOK(r, n, n, depends[r.file])
        BY <3>4, <3>5, <2>5 DEF FrameOK
      <3>7. /\ frames' \in Seq(FrameRecords) /\ Len(frames') = n /\ DOMAIN frames' = 1..n
            /\ frames'[n] = r /\ \A k \in 1..n : k # n => frames'[k] = frames[k]
        BY <3>0, <3>2, <3>4, <2>5
      <3>8. ASSUME NEW k \in DOMAIN frames'
            PROVE  FrameOK(frames'[k], k, Len(frames'), depends[frames'[k].file])
        <4>1. CASE k = n
          BY <4>1, <3>6, <3>7
        <4>2. CASE k # n
          <5>1. k \in DOMAIN frames /\ k < n /\ k \in 1..n
            BY <4>2, <3>7, <2>5
          <5>2. FrameOK(frames[k], k, n + 1, depends[frames[k].file])
            BY <5>1, <2>1 DEF FindShape
          <5>3. FrameOK(frames[k], k, n, depends[frames[k].file])
            BY <5>1, <5>2, <2>5 DEF FrameOK
          <5>. QED
            BY <4>2, <5>1, <5>3, <3>7
        <4>. QED
          BY <4>1, <4>2
      <3>. HIDE DEF n
      <3>. QED
        BY <1>7, <2>2, <2>3, <3>7, <3>8 DEF FindShape, disk, Load
    <2>. QED
      BY <2>6, <2>7
  <1>8. ASSUME FindReturn PROVE FindShape'
    BY <1>8 DEF FindReturn, FindShape, disk
  <1>. QED
    BY <1>1, <1>2, <1>3, <1>4, <1>5, <1>6, <1>7, <1>8 DEF FindNext

\* What holds as long as the same files are loaded.
LEMMA CanLoadStays ==
    ASSUME UNCHANGED disk, NEW f \in Files, LoadedFiles' = LoadedFiles
    PROVE  CanLoad(f, LoadedFiles)' <=> CanLoad(f, LoadedFiles)
  BY DEF CanLoad, disk, use_component

LEMMA FoundStays ==
    ASSUME FoundSoFar, UNCHANGED <<disk, found_components, links>>, LoadedFiles' = LoadedFiles
    PROVE  FoundSoFar'
  <1>1. StaticFiles' = StaticFiles
    BY DEF StaticFiles, disk, use_component
  <1>. QED
    BY <1>1 DEF FoundSoFar, disk

\* The innermost call is for the file visited last.
LEMMA InOrderTop ==
    ASSUME FindShape, InVisitedOrder, frames # <<>>
    PROVE  /\ Len(frames) \in Nat \ {0} /\ DOMAIN frames = 1..Len(frames)
           /\ top = frames[Len(frames)] /\ FrameInOrder(top, Len(frames)) /\ top.file \in Files
           /\ top \in FrameRecords /\ top.line \in Nat /\ cur \in Nat /\ cur = top.file + 1
           /\ file_status[top.file] = "CHECKING_CYCLE" /\ ret = "none"
           /\ top.file \notin LoadedFiles
  <1>1. /\ Len(frames) \in Nat \ {0} /\ DOMAIN frames = 1..Len(frames)
        /\ top = frames[Len(frames)] /\ top \in FrameRecords /\ top.file \in Files
    BY TopFrame
  <1>2. FrameInOrder(top, Len(frames))
    <2>1. PICK k \in DOMAIN frames : k = Len(frames)
      BY <1>1
    <2>2. FrameInOrder(frames[k], k)
      BY DEF InVisitedOrder, FramesInOrder
    <2>. QED
      BY <2>1, <2>2, <1>1
  <1>3. cur \in Nat /\ top.file = cur - 1 /\ file_status[top.file] = "CHECKING_CYCLE"
    BY <1>2, FindAssumption DEF FrameInOrder, FindShape
  <1>4. ret = "none"
    BY DEF InVisitedOrder, ReturnedInOrder, Done
  <1>. QED
    BY <1>1, <1>2, <1>3, <1>4 DEF FrameRecords, LoadedFiles, Files

\* A file that one of the calls waits on a dependency of could not be loaded, and
\* that dependency is not the file itself.
LEMMA CallerWaits ==
    ASSUME FindShape, InVisitedOrder, frames # <<>>, Len(frames) > 1
    PROVE  \E i \in DOMAIN depends[top.file] :
              /\ depends[top.file][i] \in Files \ {top.file}
              /\ depends[top.file][i] \notin LoadedFiles
  <1>1. /\ Len(frames) \in Nat \ {0} /\ DOMAIN frames = 1..Len(frames)
        /\ FrameInOrder(top, Len(frames)) /\ top.file \in Files
        /\ file_status[top.file] = "CHECKING_CYCLE" /\ top.file = cur - 1
    BY InOrderTop DEF FrameInOrder
  <1>2. PICK k \in DOMAIN frames : k = Len(frames) - 1
    BY <1>1
  <1>3. FrameInOrder(frames[k], k) /\ Waits(frames[k])
    BY <1>1, <1>2 DEF InVisitedOrder, FramesInOrder
  <1>4. PICK r : r = frames[k]
    OBVIOUS
  <1>5. r.file = top.file /\ Waits(r)
    BY <1>1, <1>3, <1>4 DEF FrameInOrder
  <1>6. depends[top.file] \in Seq(Files \cup {Missing})
    BY <1>1 DEF FindShape
  <1>7. /\ r.line \in DOMAIN depends[top.file] /\ depends[top.file][r.line] \in Files
        /\ file_status[depends[top.file][r.line]] = "UNVISITED"
    BY <1>5, <1>6 DEF Waits
  <1>. QED
    BY <1>1, <1>7 DEF LoadedFiles

\* The file fails, and could not be loaded.
LEMMA FailInOrder ==
    ASSUME FindShape, InVisitedOrder, frames # <<>>, Fail, ~CanLoad(top.file, LoadedFiles)
    PROVE  InVisitedOrder'
  <1>0. /\ top.file \in Files /\ cur = top.file + 1 /\ cur \in Nat
        /\ file_status[top.file] = "CHECKING_CYCLE" /\ ret = "none"
        /\ top.file \notin LoadedFiles
    BY InOrderTop
  <1>1. /\ file_status' = [file_status EXCEPT ![top.file] = "FAILED_TO_LOAD"]
        /\ frames' = <<>> /\ cur' = cur /\ ret' = ret
        /\ UNCHANGED disk /\ UNCHANGED <<found_components, links>>
    BY DEF Fail
  <1>2. file_status \in [Files -> FindStates]
    BY DEF FindShape
  <1>3. LoadedFiles' = LoadedFiles
    BY <1>0, <1>1, <1>2 DEF LoadedFiles
  <1>4. FramesInOrder'
    <2>1. DOMAIN frames' = {}
      BY <1>1
    <2>. QED
      BY <2>1 DEF FramesInOrder
  <1>5. VisitedSoFar'
    <2>. SUFFICES ASSUME NEW f \in Files PROVE f >= cur <=> file_status'[f] = "UNVISITED"
      BY <1>1 DEF VisitedSoFar
    <2>1. f >= cur <=> file_status[f] = "UNVISITED"
      BY DEF InVisitedOrder, VisitedSoFar
    <2>. QED
      BY <2>1, <1>0, <1>1, <1>2
  <1>6. DecidedSoFar'
    <2>. SUFFICES ASSUME NEW f \in Files, f < cur
                  PROVE  f \in LoadedFiles <=> CanLoad(f, LoadedFiles)'
      BY <1>1, <1>3 DEF DecidedSoFar
    <2>1. CanLoad(f, LoadedFiles)' <=> CanLoad(f, LoadedFiles)
      BY <1>1, <1>3, CanLoadStays
    <2>2. CASE f = top.file
      BY <2>1, <2>2, <1>0
    <2>3. CASE f # top.file
      BY <2>1, <2>3, <1>0 DEF InVisitedOrder, DecidedSoFar, Files
    <2>. QED
      BY <2>2, <2>3
  <1>7. FoundSoFar'
    BY <1>1, <1>3, FoundStays DEF InVisitedOrder
  <1>8. ReturnedInOrder'
    BY <1>0, <1>1 DEF ReturnedInOrder, Done
  <1>. QED
    BY <1>4, <1>5, <1>6, <1>7, <1>8 DEF InVisitedOrder

LEMMA VisitInOrder ==
    ASSUME FindShape, InVisitedOrder, VisitFile
    PROVE  InVisitedOrder'
  <1>. USE FindAssumption
  <1>1. frames = <<>> /\ cur \in Files /\ cur \in Nat /\ cur' = cur + 1 /\ cur <= NumFiles
    BY DEF VisitFile, FindShape, Files
  <1>2. file_status[cur] = "UNVISITED"
    BY <1>1 DEF InVisitedOrder, VisitedSoFar
  <1>3. /\ file_status' = [file_status EXCEPT ![cur] = "CHECKING_CYCLE"]
        /\ frames' = IF use_component(cur) THEN <<Frame(cur)>> ELSE <<>>
        /\ UNCHANGED disk /\ UNCHANGED <<found_components, links, ret>>
    BY <1>2 DEF VisitFile
  <1>4. file_status \in [Files -> FindStates]
    BY DEF FindShape
  <1>5. LoadedFiles' = LoadedFiles /\ cur \notin LoadedFiles
    BY <1>1, <1>2, <1>3, <1>4 DEF LoadedFiles
  <1>6. FramesInOrder'
    <2>1. CASE use_component(cur)
      <3>1. PICK r : r = Frame(cur)
        OBVIOUS
      <3>2. /\ r.file = cur /\ r.line = 0 /\ ~r.loaded
        BY <3>1 DEF Frame
      <3>3. frames' = <<r>> /\ Len(frames') = 1 /\ frames'[1] = r /\ DOMAIN frames' = {1}
        BY <1>3, <2>1, <3>1
      <3>5. r.file = cur' - 1 /\ use_component(r.file)'
        BY <1>1, <3>2, <1>3, <2>1 DEF use_component, disk
      <3>6. file_status'[r.file] = "CHECKING_CYCLE"
        BY <1>1, <1>3, <1>4, <3>2
      <3>7. \A i \in DOMAIN depends'[r.file] : ~(i < r.line)
        <4>1. depends'[r.file] \in Seq(Files \cup {Missing})
          BY <3>2, <1>1, <1>3 DEF FindShape, disk
        <4>. QED
          BY <4>1, <3>2
      <3>8. FrameInOrder(r, 1)'
        BY <3>2, <3>5, <3>6, <3>7 DEF FrameInOrder
      <3>9. FrameInOrder(frames[1], 1)'
        BY <3>3, <3>8 DEF FrameInOrder
      <3>. QED
        BY <3>3, <3>9 DEF FramesInOrder
    <2>2. CASE ~use_component(cur)
      <3>1. frames' = <<>> /\ DOMAIN frames' = {}
        BY <2>2, <1>3
      <3>. QED
        BY <3>1 DEF FramesInOrder
    <2>. QED
      BY <2>1, <2>2
  <1>7. VisitedSoFar'
    <2>. SUFFICES ASSUME NEW f \in Files PROVE f >= cur + 1 <=> file_status'[f] = "UNVISITED"
      BY <1>1 DEF VisitedSoFar
    <2>1. f >= cur <=> file_status[f] = "UNVISITED"
      BY DEF InVisitedOrder, VisitedSoFar
    <2>2. f \in Nat
      BY DEF Files
    <2>. QED
      BY <2>1, <2>2, <1>1, <1>3, <1>4
  <1>8. DecidedSoFar'
    <2>. SUFFICES ASSUME NEW f \in Files, f < cur + 1, frames' = <<>> \/ f # cur
                  PROVE  f \in LoadedFiles <=> CanLoad(f, LoadedFiles)'
      <3>1. cur' - 1 = cur
        BY <1>1
      <3>. QED
        BY <1>1, <1>5, <3>1 DEF DecidedSoFar
    <2>1. CanLoad(f, LoadedFiles)' <=> CanLoad(f, LoadedFiles)
      BY <1>3, <1>5, CanLoadStays
    <2>2. CASE f = cur
      <3>1. ~use_component(cur)
        BY <2>2, <1>3
      <3>. QED
        BY <2>1, <2>2, <3>1, <1>5 DEF CanLoad
    <2>3. CASE f # cur
      <3>1. f < cur /\ f \in Nat
        BY <2>3, <1>1 DEF Files
      <3>. QED
        BY <2>1, <3>1, <1>1 DEF InVisitedOrder, DecidedSoFar
    <2>. QED
      BY <2>2, <2>3
  <1>9. FoundSoFar'
    BY <1>3, <1>5, FoundStays DEF InVisitedOrder
  <1>10. ReturnedInOrder'
    <2>1. ret = "none"
      BY <1>1 DEF InVisitedOrder, ReturnedInOrder, Done
    <2>. QED
      BY <2>1, <1>3 DEF ReturnedInOrder, Done
  <1>. QED
    BY <1>6, <1>7, <1>8, <1>9, <1>10 DEF InVisitedOrder

\* The calls change, and nothing else.
LEMMA CallsGoOn ==
    ASSUME FindShape, InVisitedOrder, frames # <<>>, frames' # <<>>,
           UNCHANGED disk, UNCHANGED <<file_status, found_components, links, cur, ret>>,
           \A k \in DOMAIN frames' :
              FrameInOrder(frames'[k], k) /\ (k < Len(frames') => Waits(frames'[k]))
    PROVE  InVisitedOrder'
  <1>0. ret = "none"
    BY InOrderTop
  <1>1. LoadedFiles' = LoadedFiles
    BY DEF LoadedFiles
  <1>2. FramesInOrder'
    <2>. SUFFICES ASSUME NEW k \in DOMAIN frames'
                  PROVE  /\ FrameInOrder(frames[k], k)'
                         /\ k < Len(frames') => Waits(frames[k])'
      BY DEF FramesInOrder
    <2>1. PICK r : r = frames'[k]
      OBVIOUS
    <2>2. FrameInOrder(r, k) /\ (k < Len(frames') => Waits(r))
      BY <2>1
    <2>3. UNCHANGED <<depends, kind, include>>
      BY DEF disk
    <2>4. FrameInOrder(frames[k], k)'
      BY <2>1, <2>2, <2>3, <1>1 DEF FrameInOrder, use_component
    <2>5. k < Len(frames') => Waits(frames[k])'
      BY <2>1, <2>2, <2>3 DEF Waits
    <2>. QED
      BY <2>4, <2>5
  <1>3. VisitedSoFar'
    BY DEF InVisitedOrder, VisitedSoFar
  <1>4. DecidedSoFar'
    BY <1>1, CanLoadStays DEF InVisitedOrder, DecidedSoFar
  <1>5. FoundSoFar'
    BY <1>1, FoundStays DEF InVisitedOrder
  <1>6. ReturnedInOrder'
    BY <1>0 DEF ReturnedInOrder, Done
  <1>. QED
    BY <1>2, <1>3, <1>4, <1>5, <1>6 DEF InVisitedOrder

\* The innermost call goes on, and nothing else changes.
LEMMA GoesOn ==
    ASSUME FindShape, InVisitedOrder, frames # <<>>,
           UNCHANGED disk, UNCHANGED <<file_status, found_components, links, cur, ret>>,
           NEW r, frames' = [frames EXCEPT ![Len(frames)] = r], FrameInOrder(r, Len(frames))
    PROVE  InVisitedOrder'
  <1>1. /\ Len(frames) \in Nat \ {0} /\ DOMAIN frames = 1..Len(frames)
    BY InOrderTop
  <1>2. /\ frames' # <<>> /\ DOMAIN frames' = DOMAIN frames /\ Len(frames') = Len(frames)
        /\ frames'[Len(frames)] = r
        /\ \A k \in DOMAIN frames : k # Len(frames) => frames'[k] = frames[k]
    <2>1. PICK S : S = FrameRecords \cup {r}
      OBVIOUS
    <2>2. frames \in Seq(S) /\ r \in S
      <3>1. frames \in Seq(FrameRecords) /\ FrameRecords \subseteq S
        BY <2>1 DEF FindShape
      <3>. QED
        BY <2>1, <3>1
    <2>3. frames' \in Seq(S) /\ Len(frames') = Len(frames)
      BY <2>2, <1>1
    <2>. QED
      BY <1>1, <2>2, <2>3
  <1>3. ASSUME NEW k \in DOMAIN frames'
        PROVE  FrameInOrder(frames'[k], k) /\ (k < Len(frames') => Waits(frames'[k]))
    <2>1. CASE k = Len(frames)
      BY <2>1, <1>1, <1>2
    <2>2. CASE k # Len(frames)
      BY <2>2, <1>2 DEF InVisitedOrder, FramesInOrder
    <2>. QED
      BY <2>1, <2>2
  <1>. QED
    BY <1>2, <1>3, CallsGoOn

LEMMA OpenInOrder ==
    ASSUME FindShape, InVisitedOrder, OpenBegin
    PROVE  InVisitedOrder'
  <1>0. frames # <<>>
    BY DEF OpenBegin
  <1>1. /\ Len(frames) \in Nat /\ FrameInOrder(top, Len(frames)) /\ top.file \in Files
        /\ top \in FrameRecords /\ top.file \notin LoadedFiles
    BY <1>0, InOrderTop
  <1>2. CASE top.file \in ToSet(found_components) /\ Fail
    <2>1. top.file \in StaticFiles
      BY <1>1, <1>2 DEF InVisitedOrder, FoundSoFar
    <2>2. ~CanLoad(top.file, LoadedFiles)
      BY <2>1 DEF StaticFiles, CanLoad
    <2>. QED
      BY <1>0, <1>2, <2>2, FailInOrder
  <1>3. CASE top.file \notin ToSet(found_components)
    <2>0. PICK n : n = IF Len(frames) > MaxOpenFiles THEN Len(depends[top.file]) + 1 ELSE 1
      OBVIOUS
    <2>. DEFINE r == [top EXCEPT !.line = n]
    <2>1. /\ frames' = [frames EXCEPT ![Len(frames)] = r]
          /\ UNCHANGED disk /\ UNCHANGED <<file_status, found_components, links, cur, ret>>
      <3>1. top = frames[Len(frames)]
        BY <1>0, TopFrame
      <3>2. /\ frames' = [frames EXCEPT ![Len(frames)].line = n]
            /\ UNCHANGED disk /\ UNCHANGED <<file_status, found_components, links, cur, ret>>
        BY <1>3, <2>0 DEF OpenBegin
      <3>. QED
        BY <3>1, <3>2
    <2>2. r.file = top.file /\ r.line = n /\ r.loaded = top.loaded /\ r.deps = top.deps
      BY <1>1 DEF FrameRecords
    <2>. HIDE DEF r
    <2>3. kind[top.file] # "static"
      BY <1>1, <1>3 DEF InVisitedOrder, FoundSoFar, StaticFiles, FrameInOrder
    <2>4. Len(frames) <= MaxOpenFiles => \A i \in DOMAIN depends[r.file] : ~(i < r.line)
      <3>1. depends[r.file] \in Seq(Files \cup {Missing})
        BY <2>2, <1>1 DEF FindShape
      <3>2. Len(frames) <= MaxOpenFiles => n = 1
        BY <2>0, <1>1, FindAssumption
      <3>. QED
        BY <3>1, <3>2, <2>2
    <2>5. FrameInOrder(r, Len(frames))
      BY <1>1, <2>2, <2>3, <2>4 DEF FrameInOrder
    <2>. QED
      BY <1>0, <2>1, <2>5, GoesOn
  <1>. QED
    BY <1>2, <1>3 DEF OpenBegin

LEMMA SatisfiedInOrder ==
    ASSUME FindShape, InVisitedOrder, DependencySatisfied
    PROVE  InVisitedOrder'
  <1>0. frames # <<>> /\ top.line \in 1..Len(depends[top.file])
    BY DEF DependencySatisfied, AtLine
  <1>1. /\ FrameInOrder(top, Len(frames)) /\ top.file \in Files /\ top \in FrameRecords
        /\ file_status[top.file] = "CHECKING_CYCLE" /\ top.line \in Nat
    BY <1>0, InOrderTop
  <1>2. ~top.loaded /\ depends[top.file] \in Seq(Files \cup {Missing})
    BY <1>1 DEF FrameInOrder, FindShape
  <1>. DEFINE d == Dependency
              r == [top EXCEPT !.line = top.line + 1, !.deps = Append(top.deps, d), !.loaded = FALSE]
  <1>3. /\ frames' = [frames EXCEPT ![Len(frames)] = r]
        /\ file_status' = Marked
        /\ UNCHANGED disk /\ UNCHANGED <<found_components, links, cur, ret>>
    BY <1>2 DEF DependencySatisfied, NextLine
  <1>4. file_status' = file_status
    <2>1. file_status \in [Files -> FindStates]
      BY DEF FindShape
    <2>. QED
      BY <2>1, <1>1, <1>3 DEF Marked
  <1>5. /\ d \in Files /\ d \in LoadedFiles \cup {top.file} /\ d = depends[top.file][top.line]
    <2>1. CASE d = top.file
      BY <2>1, <1>1 DEF Dependency
    <2>2. CASE d # top.file
      <3>1. StatusOf(d) = "LOADED"
        BY <2>2, <1>2 DEF DependencySatisfied
      <3>2. d # Missing /\ file_status[d] = "LOADED"
        BY <3>1 DEF StatusOf
      <3>3. d \in Files \cup {Missing}
        BY <1>0, <1>2 DEF Dependency
      <3>. QED
        BY <3>2, <3>3 DEF LoadedFiles, Dependency
    <2>. QED
      BY <2>1, <2>2
  <1>. HIDE DEF d
  <1>6. PICK ds : ds = Append(top.deps, d)
    OBVIOUS
  <1>7. top.deps \in Seq(Files) /\ ToSet(ds) = ToSet(top.deps) \cup {d}
    <2>1. top.deps \in Seq(Files)
      BY <1>1 DEF FrameRecords
    <2>. QED
      BY <2>1, <1>5, <1>6, Appended
  <1>8. r.file = top.file /\ r.line = top.line + 1 /\ ~r.loaded /\ r.deps = ds
    BY <1>1, <1>6 DEF FrameRecords
  <1>. HIDE DEF r
  <1>9. ASSUME Len(frames) <= MaxOpenFiles, NEW i \in DOMAIN depends[r.file], i < r.line
        PROVE  depends[r.file][i] \in ToSet(r.deps) /\ depends[r.file][i] \in LoadedFiles \cup {r.file}
    <2>1. i \in Nat /\ i \in DOMAIN depends[top.file]
      BY <1>2, <1>8
    <2>2. CASE i < top.line
      BY <2>1, <2>2, <1>1, <1>7, <1>8, <1>9 DEF FrameInOrder
    <2>3. CASE i = top.line
      BY <2>3, <1>5, <1>7, <1>8
    <2>. QED
      BY <2>1, <2>2, <2>3, <1>1, <1>8, <1>9
  <1>10. FrameInOrder(r, Len(frames))
    <2>1. top.line # 0
      BY <1>0
    <2>. QED
      BY <1>1, <1>8, <1>9, <2>1 DEF FrameInOrder
  <1>. QED
    BY <1>0, <1>3, <1>4, <1>10, GoesOn

LEMMA FailsInOrder ==
    ASSUME FindShape, InVisitedOrder, DependencyFails
    PROVE  InVisitedOrder'
  <1>0. frames # <<>> /\ top.line \in 1..Len(depends[top.file]) /\ Fail
        /\ Dependency # top.file /\ StatusOf(Dependency) \in {"FAILED_TO_LOAD", "CHECKING_CYCLE"}
    BY DEF DependencyFails, AtLine
  <1>1. Dependency \in ToSet(depends[top.file]) \ {top.file}
    <2>1. depends[top.file] \in Seq(Files \cup {Missing})
      BY <1>0, TopFrame
    <2>. QED
      BY <2>1, <1>0 DEF Dependency, ToSet
  <1>2. Dependency \notin LoadedFiles
    <2>1. CASE Dependency = Missing
      BY <2>1, FindAssumption DEF LoadedFiles
    <2>2. CASE Dependency # Missing
      BY <2>2, <1>0 DEF LoadedFiles, StatusOf
    <2>. QED
      BY <2>1, <2>2
  <1>3. ~CanLoad(top.file, LoadedFiles)
    BY <1>1, <1>2 DEF CanLoad
  <1>. QED
    BY <1>0, <1>3, FailInOrder

\* The call for a dependency not looked at yet is for the file itself.
LEMMA UnvisitedInOrder ==
    ASSUME FindShape, InVisitedOrder, DependencyUnvisited
    PROVE  InVisitedOrder'
  <1>0. /\ frames # <<>> /\ top.line \in 1..Len(depends[top.file])
        /\ StatusOf(Dependency) = "UNVISITED"
        /\ file_status' = Marked
        /\ UNCHANGED disk /\ UNCHANGED <<found_components, links, cur, ret>>
    BY DEF DependencyUnvisited, AtLine
  <1>1. /\ Len(frames) \in Nat \ {0} /\ DOMAIN frames = 1..Len(frames)
        /\ top = frames[Len(frames)] /\ FrameInOrder(top, Len(frames)) /\ top.file \in Files
        /\ file_status[top.file] = "CHECKING_CYCLE"
        /\ depends[top.file] \in Seq(Files \cup {Missing})
    BY <1>0, InOrderTop, TopFrame
  <1>2. file_status' = file_status
    <2>1. file_status \in [Files -> FindStates]
      BY DEF FindShape
    <2>. QED
      BY <2>1, <1>0, <1>1 DEF Marked
  <1>3. Waits(top)
    <2>1. Dependency # Missing /\ file_status[Dependency] = "UNVISITED"
      BY <1>0 DEF StatusOf
    <2>2. Dependency \in Files \cup {Missing}
      BY <1>0, <1>1 DEF Dependency
    <2>. QED
      BY <1>0, <2>1, <2>2 DEF Waits, Dependency
  <1>. DEFINE r == Frame(top.file)
  <1>4. frames' = Append(frames, r)
    BY DEF DependencyUnvisited
  <1>5. r \in FrameRecords /\ r.file = top.file /\ r.line = 0 /\ ~r.loaded
    BY <1>1 DEF Frame, FrameRecords
  <1>. HIDE DEF r
  <1>6. FrameInOrder(r, Len(frames) + 1)
    <2>1. \A i \in DOMAIN depends[r.file] : ~(i < r.line)
      BY <1>1, <1>5
    <2>. QED
      BY <1>1, <1>5, <2>1 DEF FrameInOrder
  <1>7. /\ frames' # <<>> /\ DOMAIN frames' = 1..(Len(frames) + 1)
        /\ Len(frames') = Len(frames) + 1 /\ frames'[Len(frames) + 1] = r
        /\ \A k \in 1..Len(frames) : frames'[k] = frames[k]
    <2>1. frames \in Seq(FrameRecords)
      BY DEF FindShape
    <2>. QED
      BY <2>1, <1>4, <1>5
  <1>8. ASSUME NEW k \in DOMAIN frames'
        PROVE  FrameInOrder(frames'[k], k) /\ (k < Len(frames') => Waits(frames'[k]))
    <2>1. CASE k = Len(frames) + 1
      BY <2>1, <1>1, <1>6, <1>7
    <2>2. CASE k = Len(frames)
      BY <2>2, <1>1, <1>3, <1>7
    <2>3. CASE k < Len(frames)
      <3>1. k \in DOMAIN frames /\ k \in 1..Len(frames)
        BY <2>3, <1>1, <1>7
      <3>. QED
        BY <2>3, <3>1, <1>7 DEF InVisitedOrder, FramesInOrder
    <2>. QED
      BY <2>1, <2>2, <2>3, <1>1, <1>7
  <1>. QED
    BY <1>0, <1>2, <1>7, <1>8, CallsGoOn

LEMMA LoadFailsInOrder ==
    ASSUME FindShape, InVisitedOrder, LoadFails
    PROVE  InVisitedOrder'
  <1>1. frames # <<>> /\ Fail /\ (kind[top.file] = "broken" \/ OutOfFiles)
    BY DEF LoadFails, AtLoad
  <1>2. CASE kind[top.file] = "broken"
    <2>1. ~CanLoad(top.file, LoadedFiles)
      BY <1>2 DEF CanLoad
    <2>. QED
      BY <1>1, <2>1, FailInOrder
  <1>3. CASE OutOfFiles
    <2>1. Len(frames) \in Nat /\ Len(frames) > 1
      BY <1>1, <1>3, InOrderTop, FindAssumption DEF OutOfFiles
    <2>2. PICK i \in DOMAIN depends[top.file] :
             /\ depends[top.file][i] \in Files \ {top.file}
             /\ depends[top.file][i] \notin LoadedFiles
      BY <1>1, <2>1, CallerWaits
    <2>3. depends[top.file] \in Seq(Files \cup {Missing})
      BY <1>1, TopFrame
    <2>4. ~CanLoad(top.file, LoadedFiles)
      BY <2>2, <2>3 DEF CanLoad, ToSet
    <2>. QED
      BY <1>1, <2>4, FailInOrder
  <1>. QED
    BY <1>1, <1>2, <1>3

LEMMA LoadInOrder ==
    ASSUME FindShape, InVisitedOrder, Load
    PROVE  InVisitedOrder'
  <1>0. PICK f \in Files : f = top.file
    BY TopFrame DEF Load, AtLoad
  <1>1. /\ frames # <<>> /\ Len(frames) \in Nat \ {0} /\ FrameInOrder(top, Len(frames))
        /\ top \in FrameRecords /\ file_status[f] = "CHECKING_CYCLE" /\ top.line \in Nat /\ f \notin LoadedFiles
        /\ ret = "none" /\ cur \in Nat /\ f + 1 = cur
    BY <1>0, InOrderTop DEF Load, AtLoad
  <1>2. depends[f] \in Seq(Files \cup {Missing}) /\ file_status \in [Files -> FindStates]
        /\ kind \in [Files -> {"good", "broken", "static"}]
    BY DEF FindShape
  <1>3. top.line > Len(depends[f]) /\ kind[f] # "broken" /\ Len(frames) <= MaxOpenFiles
    BY <1>0, <1>1, FindAssumption DEF Load, AtLoad, OutOfFiles
  <1>4. kind[f] = "good" /\ use_component(f)
    BY <1>0, <1>1, <1>2, <1>3 DEF FrameInOrder
  <1>5. \A d \in ToSet(depends[f]) : d \in ToSet(top.deps) /\ d \in LoadedFiles \cup {f}
    <2>. SUFFICES ASSUME NEW i \in DOMAIN depends[f]
                  PROVE  depends[f][i] \in ToSet(top.deps) /\ depends[f][i] \in LoadedFiles \cup {f}
      BY DEF ToSet
    <2>1. i \in Nat /\ i < top.line
      BY <1>1, <1>2, <1>3
    <2>. QED
      BY <2>1, <1>0, <1>1, <1>3 DEF FrameInOrder
  <1>6. /\ found_components' = Append(found_components, f)
        /\ links' = links \cup {<<f, d>> : d \in {c \in ToSet(top.deps) :
                                                    c = f \/ file_status[c] = "LOADED"}}
        /\ file_status' = [file_status EXCEPT ![f] = "LOADED"]
        /\ UNCHANGED disk /\ UNCHANGED <<cur, ret>>
    BY <1>0 DEF Load
  <1>7. frames' = <<>>
    <2>0. Len(frames) = 1
      <3>1. ASSUME Len(frames) > 1 PROVE FALSE
        <4>1. PICK i \in DOMAIN depends[f] :
                 depends[f][i] \in Files \ {f} /\ depends[f][i] \notin LoadedFiles
          BY <1>0, <1>1, <3>1, CallerWaits
        <4>. QED
          BY <4>1, <1>2, <1>5 DEF ToSet
      <3>2. PICK n \in Nat : n = Len(frames) /\ n # 0
        BY <1>1
      <3>. QED
        BY <3>1, <3>2
    <2>1. frames \in Seq(FrameRecords)
      BY DEF FindShape
    <2>2. Front(frames) = SubSeq(frames, 1, 0)
      BY <2>0 DEF Front
    <2>3. Front(frames) = <<>>
      BY <2>1, <2>2
    <2>. QED
      BY <2>3 DEF Load
  <1>8. LoadedFiles' = LoadedFiles \cup {f}
    BY <1>2, <1>6 DEF LoadedFiles
  <1>9. FramesInOrder'
    <2>1. DOMAIN frames' = {}
      BY <1>7
    <2>. QED
      BY <2>1 DEF FramesInOrder
  <1>10. VisitedSoFar'
    <2>. SUFFICES ASSUME NEW g \in Files PROVE g >= cur <=> file_status'[g] = "UNVISITED"
      BY <1>6 DEF VisitedSoFar
    <2>1. g >= cur <=> file_status[g] = "UNVISITED"
      BY DEF InVisitedOrder, VisitedSoFar
    <2>. QED
      BY <2>1, <1>1, <1>2, <1>6
  <1>11. DecidedSoFar'
    <2>. SUFFICES ASSUME NEW g \in Files, g < cur
                  PROVE  g \in LoadedFiles \cup {f} <=> CanLoad(g, LoadedFiles)'
      BY <1>6, <1>8 DEF DecidedSoFar
    <2>0. CanLoad(g, LoadedFiles)' <=> CanLoad(g, LoadedFiles \cup {f})
      BY <1>6, <1>8 DEF CanLoad, use_component, disk
    <2>1. CASE g = f
      <3>1. ASSUME NEW d \in ToSet(depends[f]) \ {f} PROVE d \in LoadedFiles /\ d < f
        <4>1. d \in LoadedFiles /\ d \in Files
          BY <1>5 DEF LoadedFiles
        <4>2. ~(d >= cur)
          BY <4>1 DEF InVisitedOrder, VisitedSoFar, LoadedFiles
        <4>3. d \in Nat /\ f \in Nat
          BY <4>1 DEF Files
        <4>. QED
          BY <4>1, <4>2, <4>3, <1>1
      <3>. QED
        BY <2>0, <2>1, <3>1, <1>4 DEF CanLoad
    <2>2. CASE g # f
      <3>1. g < f /\ g \in Nat /\ f \in Nat /\ g # cur - 1
        BY <2>2, <1>1 DEF Files
      <3>2. ~(f < g)
        BY <3>1
      <3>3. CanLoad(g, LoadedFiles \cup {f}) <=> CanLoad(g, LoadedFiles)
        BY <3>2 DEF CanLoad
      <3>4. g \in LoadedFiles <=> CanLoad(g, LoadedFiles)
        BY <3>1 DEF InVisitedOrder, DecidedSoFar
      <3>. QED
        BY <2>0, <2>2, <3>3, <3>4
    <2>. QED
      BY <2>1, <2>2
  <1>12. FoundSoFar'
    <2>1. found_components \in Seq(Files)
      BY DEF FindShape
    <2>2. f \notin ToSet(found_components)
      BY <1>1, <1>4 DEF InVisitedOrder, FoundSoFar, StaticFiles
    <2>3. /\ found_components' \in Seq(Files)
          /\ Len(found_components') = Len(found_components) + 1
          /\ found_components'[Len(found_components')] = f
          /\ \A k \in 1..Len(found_components) : found_components'[k] = found_components[k]
      BY <2>1, <1>6
    <2>4. ToSet(found_components') = ToSet(found_components) \cup {f}
      BY <2>1, <2>3 DEF ToSet
    <2>5. StaticFiles' = StaticFiles
      BY <1>6 DEF StaticFiles, disk, use_component
    <2>6. IsInjective(found_components')
      <3>. SUFFICES ASSUME NEW a \in DOMAIN found_components', NEW b \in DOMAIN found_components',
                           found_components'[a] = found_components'[b]
                    PROVE  a = b
        BY DEF IsInjective
      <3>1. \A k \in 1..Len(found_components) : found_components[k] # f
        BY <2>1, <2>2 DEF ToSet
      <3>2. \A k, l \in 1..Len(found_components) :
              found_components[k] = found_components[l] => k = l
        BY <2>1 DEF InVisitedOrder, FoundSoFar, IsInjective
      <3>. QED
        BY <2>1, <2>3, <3>1, <3>2
    <2>7. \A g \in LoadedFiles \cup {f} : kind'[g] = "good"
      BY <1>4, <1>6 DEF InVisitedOrder, FoundSoFar, disk
    <2>8. ASSUME NEW g \in LoadedFiles \cup {f}, NEW d \in ToSet(depends[g])
          PROVE  <<g, d>> \in links' /\ d \in LoadedFiles \cup {f}
      <3>1. CASE g = f
        <4>1. d \in ToSet(top.deps) /\ (d = f \/ d \in LoadedFiles)
          BY <3>1, <2>8, <1>5
        <4>2. d = f \/ file_status[d] = "LOADED"
          BY <4>1 DEF LoadedFiles
        <4>. QED
          BY <3>1, <4>1, <4>2, <1>6
      <3>2. CASE g # f
        BY <3>2, <2>8, <1>6 DEF InVisitedOrder, FoundSoFar
      <3>. QED
        BY <3>1, <3>2
    <2>9. depends' = depends
      BY <1>6 DEF disk
    <2>10. ToSet(found_components)' = StaticFiles' \cup LoadedFiles'
      BY <2>4, <2>5, <1>8 DEF InVisitedOrder, FoundSoFar
    <2>. QED
      BY <2>6, <2>7, <2>8, <2>9, <2>10, <1>8 DEF FoundSoFar
  <1>13. ReturnedInOrder'
    BY <1>1, <1>6 DEF ReturnedInOrder, Done
  <1>. QED
    BY <1>9, <1>10, <1>11, <1>12, <1>13 DEF InVisitedOrder

LEMMA ReturnInOrder ==
    ASSUME FindShape, InVisitedOrder, FindReturn
    PROVE  InVisitedOrder'
  <1>1. /\ frames = <<>> /\ cur = NumFiles + 1
        /\ UNCHANGED disk /\ UNCHANGED <<file_status, found_components, links, cur, frames>>
    BY FindAssumption DEF FindReturn, FindShape
  <1>2. LoadedFiles' = LoadedFiles
    BY <1>1 DEF LoadedFiles
  <1>3. FramesInOrder'
    <2>1. DOMAIN frames' = {}
      BY <1>1
    <2>. QED
      BY <2>1 DEF FramesInOrder
  <1>4. VisitedSoFar'
    BY <1>1 DEF InVisitedOrder, VisitedSoFar
  <1>5. DecidedSoFar'
    BY <1>1, <1>2, CanLoadStays DEF InVisitedOrder, DecidedSoFar
  <1>6. FoundSoFar'
    BY <1>1, <1>2, FoundStays DEF InVisitedOrder
  <1>7. ReturnedInOrder'
    BY <1>1 DEF ReturnedInOrder
  <1>. QED
    BY <1>3, <1>4, <1>5, <1>6, <1>7 DEF InVisitedOrder

LEMMA FindStart ==
    ASSUME FindInit PROVE FindInv
  <1>. USE FindAssumption
  <1>1. FindShape
    BY FindInitShape
  <1>2. /\ frames = <<>> /\ cur = 1 /\ ret = "none" /\ LoadedFiles = {}
        /\ file_status = [f \in Files |-> "UNVISITED"]
        /\ found_components \in InStaticOrder(StaticFiles)
    BY DEF FindInit, LoadedFiles, StaticFiles
  <1>3. ToSet(found_components) = StaticFiles /\ IsInjective(found_components)
    <2>1. /\ ToSet(found_components) = StaticFiles
          /\ \A i, j \in DOMAIN found_components : i < j => found_components[i] < found_components[j]
      BY <1>2 DEF InStaticOrder
    <2>2. found_components \in Seq(Files)
      BY <1>1 DEF FindShape
    <2>3. \A i \in DOMAIN found_components : i \in Nat /\ found_components[i] \in Nat
      BY <2>2 DEF Files
    <2>4. ASSUME NEW i \in DOMAIN found_components, NEW j \in DOMAIN found_components,
                 found_components[i] = found_components[j]
          PROVE  i = j
      <3>1. i < j => found_components[i] < found_components[j]
        BY <2>1
      <3>2. j < i => found_components[j] < found_components[i]
        BY <2>1
      <3>. QED
        BY <2>3, <2>4, <3>1, <3>2
    <2>. QED
      BY <2>1, <2>4 DEF IsInjective
  <1>4. FramesInOrder
    <2>1. DOMAIN frames = {}
      BY <1>2
    <2>. QED
      BY <2>1 DEF FramesInOrder
  <1>5. VisitedSoFar
    BY <1>2 DEF VisitedSoFar, Files
  <1>6. DecidedSoFar
    BY <1>2 DEF DecidedSoFar, Files
  <1>7. FoundSoFar
    BY <1>2, <1>3 DEF FoundSoFar
  <1>8. ReturnedInOrder
    BY <1>2 DEF ReturnedInOrder, Done
  <1>. QED
    BY <1>1, <1>4, <1>5, <1>6, <1>7, <1>8 DEF FindInv, InVisitedOrder

LEMMA FindStep ==
    ASSUME FindInv, [FindNext]_findVars PROVE FindInv'
  <1>1. CASE FindNext
    <2>1. FindShape'
      BY <1>1, FindShapeStep DEF FindInv
    <2>2. FindShape /\ InVisitedOrder
      BY DEF FindInv
    <2>3. InVisitedOrder'
      <3>1. CASE VisitFile
        BY <2>2, <3>1, VisitInOrder
      <3>2. CASE OpenBegin
        BY <2>2, <3>2, OpenInOrder
      <3>3. CASE DependencySatisfied
        BY <2>2, <3>3, SatisfiedInOrder
      <3>4. CASE DependencyFails
        BY <2>2, <3>4, FailsInOrder
      <3>5. CASE DependencyUnvisited
        BY <2>2, <3>5, UnvisitedInOrder
      <3>6. CASE LoadFails
        BY <2>2, <3>6, LoadFailsInOrder
      <3>7. CASE Load
        BY <2>2, <3>7, LoadInOrder
      <3>8. CASE FindReturn
        BY <2>2, <3>8, ReturnInOrder
      <3>. QED
        BY <1>1, <3>1, <3>2, <3>3, <3>4, <3>5, <3>6, <3>7, <3>8 DEF FindNext
    <2>. QED
      BY <2>1, <2>3 DEF FindInv
  <1>2. CASE UNCHANGED findVars
    <2>1. FindShape'
      BY <1>2 DEF findVars, disk, FindInv, FindShape
    <2>2. LoadedFiles' = LoadedFiles
      BY <1>2 DEF findVars, LoadedFiles
    <2>3. /\ InVisitedOrder /\ UNCHANGED disk
          /\ UNCHANGED <<file_status, found_components, links, cur, frames, ret>>
      BY <1>2 DEF findVars, FindInv
    <2>4. FramesInOrder'
      BY <2>3, <2>2 DEF InVisitedOrder, FramesInOrder, FrameInOrder, Waits, disk, use_component
    <2>5. VisitedSoFar' /\ ReturnedInOrder'
      BY <2>3 DEF InVisitedOrder, VisitedSoFar, ReturnedInOrder, Done
    <2>6. DecidedSoFar'
      BY <2>3, <2>2, CanLoadStays DEF InVisitedOrder, DecidedSoFar
    <2>7. FoundSoFar'
      BY <2>3, <2>2, FoundStays DEF InVisitedOrder
    <2>. QED
      BY <2>1, <2>4, <2>5, <2>6, <2>7 DEF FindInv, InVisitedOrder
  <1>. QED
    BY <1>1, <1>2

LEMMA FindMeans ==
    ASSUME FindInv PROVE FindLoadsTheLoadable
  <1>. USE FindAssumption
  <1>0. FindShape
    BY DEF FindInv
  <1>1. FindTypeOK
    <2>1. frames \in Seq(FrameRecords) /\ Len(frames) \in Nat /\ DOMAIN frames = 1..Len(frames)
      BY <1>0 DEF FindShape
    <2>2. Len(frames) <= MaxOpenFiles + 1
      <3>1. CASE Len(frames) <= 1
        BY <2>1, <3>1
      <3>2. CASE Len(frames) > 1
        <4>1. PICK k \in DOMAIN frames : k = Len(frames) - 1
          BY <2>1, <3>2
        <4>2. FrameOK(frames[k], k, Len(frames), depends[frames[k].file])
          BY <1>0 DEF FindShape
        <4>3. k < Len(frames) /\ k \in Nat
          BY <2>1, <4>1
        <4>4. k <= MaxOpenFiles
          BY <4>2, <4>3 DEF FrameOK
        <4>. QED
          BY <2>1, <4>1, <4>4
      <3>. QED
        BY <2>1, <3>1, <3>2
    <2>3. ASSUME NEW k \in 1..Len(frames)
          PROVE  /\ frames[k].file \in Files
                 /\ frames[k].line \in 0..(Len(depends[frames[k].file]) + 1)
                 /\ frames[k].deps \in Seq(Files)
      <3>1. frames[k] \in FrameRecords
        BY <2>1
      <3>2. frames[k].file \in Files /\ frames[k].line \in Nat /\ frames[k].deps \in Seq(Files)
        BY <3>1 DEF FrameRecords
      <3>3. FrameOK(frames[k], k, Len(frames), depends[frames[k].file])
        BY <2>1, <1>0 DEF FindShape
      <3>4. depends[frames[k].file] \in Seq(Files \cup {Missing})
        BY <3>2, <1>0 DEF FindShape
      <3>5. frames[k].line <= Len(depends[frames[k].file]) + 1
        BY <3>3 DEF FrameOK
      <3>. QED
        BY <3>2, <3>4, <3>5
    <2>. QED
      BY <1>0, <2>2, <2>3 DEF FindTypeOK, FindShape, FindStates
  <1>2. ASSUME Done
        PROVE  /\ LoadedFiles = {f \in Files : /\ use_component(f) /\ kind[f] = "good"
                                              /\ \A d \in ToSet(depends[f]) \ {f} :
                                                    d \in LoadedFiles /\ d < f}
               /\ IsInjective(found_components)
    <2>1. InVisitedOrder /\ frames = <<>> /\ cur = NumFiles + 1
      BY <1>2 DEF FindInv, InVisitedOrder, ReturnedInOrder
    <2>2. \A f \in Files : f < cur
      BY <2>1 DEF Files
    <2>3. \A f \in Files : f \in LoadedFiles <=> CanLoad(f, LoadedFiles)
      BY <2>1, <2>2 DEF InVisitedOrder, DecidedSoFar
    <2>4. \A f \in LoadedFiles : f \in Files
      BY DEF LoadedFiles
    <2>. QED
      BY <2>1, <2>3, <2>4 DEF InVisitedOrder, FoundSoFar, CanLoad
  <1>3. LoadedAreLinked
    <2>. SUFFICES ASSUME NEW f \in Files, file_status[f] = "LOADED"
                  PROVE  LinkedToAll(f)
      BY DEF LoadedAreLinked
    <2>1. FoundSoFar /\ f \in LoadedFiles
      BY DEF FindInv, InVisitedOrder, LoadedFiles
    <2>. QED
      BY <2>1 DEF FoundSoFar, LinkedToAll
  <1>. QED
    BY <1>1, <1>2, <1>3 DEF FindLoadsTheLoadable, LoadsTheLoadable

\* ocoms_mca_base_component_find, for any files, dependencies and include parameter:
\* the files it has loaded when it returns are exactly those that are wanted, are not
\* broken or linked in statically, and have all their dependencies loaded from files
\* that come before them in found_files; no component is on the list twice; and at any
\* time the dependencies of a loaded file are on the list and linked to it in the
\* repository.
THEOREM LoadableIsLoaded == FindSpec => []FindLoadsTheLoadable
  <1>1. FindInit => FindInv
    BY FindStart
  <1>2. FindInv /\ [FindNext]_findVars => FindInv'
    BY FindStep
  <1>3. FindInv => FindLoadsTheLoadable
    BY FindMeans
  <1>. QED
    BY <1>1, <1>2, <1>3, PTL DEF FindSpec

=============================================================================
