------------------------ MODULE ComponentRepository ------------------------
(***************************************************************************)
(* The repository of dynamically loaded MCA components                     *)
(* (ocoms/mca/base/mca_base_component_repository.c): a list of reference   *)
(* counted entries, each with the handle of the loaded file and references *)
(* to the entries it depends on.  Releasing the last reference runs the    *)
(* destructor, which closes the handle and then releases the dependencies, *)
(* so destructors nest: the variable is the call stack of destructors.     *)
(*                                                                         *)
(* The users are a framework, which opens the components it does not have  *)
(* yet (open_component), releases them, those not selected first, and may  *)
(* open them again once it is closed; and callers of retain_component, who *)
(* release what they retained.                                             *)
(***************************************************************************)
EXTENDS Integers, Sequences, FiniteSets, SequencesExt

CONSTANTS RepositoryNames,  \* the (type, name) pairs
          MaxEntries,       \* bound on repository items allocated in a behaviour
          MaxRetains,       \* bound on retain_component references to one name
          MaxDependencies,  \* bound on the dependencies one file names
          Reload,           \* a framework may open a component that is still in
                            \* the repository because somebody else retains it
          SelfLinks,        \* a file may name itself as a dependency
          FinalizeAnytime   \* finalize may find entries with more, or with
                            \* fewer, references of users than the one that
                            \* opening them took

ASSUME RepositoryAssumption ==
    /\ {MaxEntries, MaxRetains, MaxDependencies} \subseteq Nat
    /\ {Reload, SelfLinks, FinalizeAnytime} \subseteq BOOLEAN

Entries == 1..MaxEntries
None == 0                   \* no entry: find_component's NULL
End == MaxEntries + 1       \* ocoms_list_get_end(&repository)

VARIABLES
    initialized,
    repository,      \* the list
    ri_name,         \* ri_type and the component's name, of every entry so far
    ri_state,        \* "open": its handle is, "closing": its destructor runs,
                     \* "freed": its memory is gone
    refcount,
    ri_dependencies,
    destructors,     \* the entries whose destructors run, the innermost last
    item,            \* finalize's loop variable, None when it is not running
    opened, finding, \* the framework: what it has, and whether it may open more
    held,            \* references retained by others, per name
    dangling         \* a freed entry was released

repositoryVars == <<initialized, repository, ri_name, ri_state, refcount,
          ri_dependencies, destructors, item, opened, finding, held, dangling>>
entries == <<repository, ri_name, ri_state, refcount, ri_dependencies>>
holders == <<opened, finding, held>>

RepositoryAtFirst ==
    /\ initialized = FALSE
    /\ repository = <<>> /\ ri_name = <<>> /\ ri_state = <<>>
    /\ refcount = <<>> /\ ri_dependencies = <<>>
    /\ destructors = <<>> /\ item = None
    /\ opened = {} /\ finding = TRUE /\ held = [c \in RepositoryNames |-> 0]
    /\ dangling = FALSE

\* No call is in progress.
Idle == destructors = <<>> /\ item = None

\* find_component: the first entry of that name.
find_component(list, c) ==
    LET found == {k \in DOMAIN list : ri_name[list[k]] = c} IN
    IF found = {} THEN None
    ELSE list[CHOOSE k \in found : \A j \in found : k <= j]

\* Where an entry is in the list.
PlaceOf(e) == CHOOSE k \in DOMAIN repository : repository[k] = e

-----------------------------------------------------------------------------
(* ocoms_mca_base_component_repository_init; a component list that outlived *)
(* a finalize is not used any more when the repository comes back.          *)
RepositoryInit ==
    /\ Idle /\ ~initialized
    /\ opened = {} /\ \A c \in RepositoryNames : held[c] = 0
    /\ initialized' = TRUE
    /\ repository' = <<>>
    /\ UNCHANGED <<ri_name, ri_state, refcount, ri_dependencies, destructors, item,
                   holders, dangling>>

\* Mutant: the links are made and no reference is taken.
Unreferenced(counts, linked) == counts

\* The OBJ_RETAIN of ocoms_mca_base_component_repository_link, for every link.
Referenced(counts, linked) ==
    [e \in DOMAIN counts |->
        counts[e] + Cardinality({k \in DOMAIN linked : linked[k] = e})]

\* The dependencies a file being opened may name: components of the framework
\* that are loaded already.
DependencyLists(c) ==
    BoundedSeq(opened \cup (IF SelfLinks THEN {c} ELSE {}), MaxDependencies)

(* open_component: ..._retain appends a new entry, then ..._link looks up   *)
(* both ends of every dependency by name and takes a reference.             *)
Open(c, deps) ==
    /\ Idle /\ initialized
    /\ finding /\ c \notin opened
    /\ Reload \/ find_component(repository, c) = None
    /\ Len(ri_name) < MaxEntries
    /\ LET e == Len(ri_name) + 1
           find(n) == LET f == find_component(repository, n) IN IF f = None THEN e ELSE f
           linked == [k \in 1..Len(deps) |-> find(deps[k])]
       IN
       /\ ri_name' = Append(ri_name, c)
       /\ repository' = Append(repository, e)
       /\ ri_state' = Append(ri_state, "open")
       /\ refcount' = Referenced(Append(refcount, 1), linked)
       /\ ri_dependencies' =
             [Append(ri_dependencies, <<>>) EXCEPT ![find(c)] = @ \o linked]
    /\ opened' = opened \cup {c}
    /\ UNCHANGED <<initialized, destructors, item, finding, held, dangling>>

\* ocoms_mca_base_component_repository_retain_component
RetainComponent(c) ==
    /\ Idle /\ initialized
    /\ held[c] < MaxRetains
    /\ find_component(repository, c) # None
    /\ refcount' = [refcount EXCEPT ![find_component(repository, c)] = @ + 1]
    /\ held' = [held EXCEPT ![c] = @ + 1]
    /\ UNCHANGED <<initialized, repository, ri_name, ri_state, ri_dependencies,
                   destructors, item, opened, finding, dangling>>

-----------------------------------------------------------------------------
\* OBJ_RELEASE(e), the caller having left its dependency lists as deps: the
\* last reference enters ri_destructor, which closes the handle first.
Drop(e, deps) ==
    /\ ri_dependencies' = deps
    /\ IF ri_state[e] = "freed"
       THEN dangling' = TRUE /\ UNCHANGED <<refcount, ri_state, destructors>>
       ELSE /\ refcount' = [refcount EXCEPT ![e] = @ - 1]
            /\ IF refcount[e] = 1
               THEN /\ ri_state' = [ri_state EXCEPT ![e] = "closing"]
                    /\ destructors' = Append(destructors, e)
               ELSE UNCHANGED <<ri_state, destructors>>
            /\ UNCHANGED dangling

\* ocoms_mca_base_component_repository_release
Release(c) ==
    /\ IF initialized /\ find_component(repository, c) # None
       THEN Drop(find_component(repository, c), ri_dependencies)
       ELSE UNCHANGED <<ri_state, refcount, ri_dependencies, destructors, dangling>>
    /\ UNCHANGED <<initialized, repository, ri_name, item>>

\* ... called by the framework that opened the component
\* (ocoms_mca_base_component_unload) ...
ReleaseOpened(c) ==
    /\ Idle
    /\ c \in opened
    /\ Release(c)
    /\ opened' = opened \ {c}
    /\ finding' = (opened' = {})
    /\ UNCHANGED held

\* ... and by those who retained it.
ReleaseHeld(c) ==
    /\ Idle
    /\ held[c] > 0
    /\ Release(c)
    /\ held' = [held EXCEPT ![c] = @ - 1]
    /\ UNCHANGED <<opened, finding>>

\* The loop of ri_destructor, through di_destructor: release the next
\* dependency, whose own destructor may run before this one goes on.
DestructDependency ==
    /\ destructors # <<>>
    /\ LET e == Last(destructors) IN
       /\ ri_dependencies[e] # <<>>
       /\ Drop(Head(ri_dependencies[e]),
               [ri_dependencies EXCEPT ![e] = Tail(@)])
    /\ UNCHANGED <<initialized, repository, ri_name, item, holders>>

\* The end of ri_destructor: the entry leaves the list and is freed.
DestructEnd ==
    /\ destructors # <<>>
    /\ LET e == Last(destructors) IN
       /\ ri_dependencies[e] = <<>>
       /\ repository' = RemoveAt(repository, PlaceOf(e))
       /\ ri_state' = [ri_state EXCEPT ![e] = "freed"]
    /\ destructors' = Front(destructors)
    /\ UNCHANGED <<initialized, ri_name, refcount, ri_dependencies, item, holders,
                   dangling>>

-----------------------------------------------------------------------------
(* ocoms_mca_base_component_repository_finalize: passes over the list until *)
(* it is empty, releasing every entry once per pass.                        *)

FirstItem == IF repository = <<>> THEN End ELSE repository[1]

NextItem(e) ==
    IF PlaceOf(e) = Len(repository) THEN End ELSE repository[PlaceOf(e) + 1]

\* Every entry is the only one of its name, open in a framework, and nobody
\* has retained it.
OneUserEach ==
    \A e \in ToSet(repository) :
       /\ ri_name[e] \in opened /\ held[ri_name[e]] = 0
       /\ \A f \in ToSet(repository) \ {e} : ri_name[f] # ri_name[e]

Finalize ==
    /\ Idle /\ initialized
    /\ FinalizeAnytime \/ OneUserEach
    /\ item' = FirstItem
    /\ UNCHANGED <<initialized, entries, destructors, holders, dangling>>

\* item moves on before the entry is released: the release may free it.
FinalizeRelease ==
    /\ destructors = <<>>
    /\ item \notin {None, End}
    /\ IF ri_state[item] = "freed"
       THEN dangling' = TRUE /\ item' = End /\ UNCHANGED <<entries, destructors>>
       ELSE /\ item' = NextItem(item)
            /\ Drop(item, ri_dependencies)
            /\ UNCHANGED <<repository, ri_name>>
    /\ UNCHANGED <<initialized, holders>>

FinalizePassEnd ==
    /\ destructors = <<>>
    /\ item = End
    /\ IF repository = <<>>
       THEN item' = None /\ initialized' = FALSE
       ELSE item' = FirstItem /\ UNCHANGED initialized
    /\ UNCHANGED <<entries, destructors, holders, dangling>>

-----------------------------------------------------------------------------
RepositoryCall ==
    \/ RepositoryInit \/ Finalize
    \/ \E c \in RepositoryNames :
          \/ \E deps \in DependencyLists(c) : Open(c, deps)
          \/ RetainComponent(c) \/ ReleaseOpened(c) \/ ReleaseHeld(c)

RepositoryStep ==
    DestructDependency \/ DestructEnd \/ FinalizeRelease \/ FinalizePassEnd

RepositoryNext == RepositoryCall \/ RepositoryStep

RepositorySpec == RepositoryAtFirst /\ [][RepositoryNext]_repositoryVars

\* A call that has begun runs on; nobody has to make one.
FairRepositorySpec == RepositorySpec /\ WF_repositoryVars(RepositoryStep)

-----------------------------------------------------------------------------
RepositoryTypeOK ==
    LET made == 1..Len(ri_name) IN
    /\ initialized \in BOOLEAN
    /\ Len(ri_name) <= MaxEntries
    /\ ri_name \in [made -> RepositoryNames]
    /\ ri_state \in [made -> {"open", "closing", "freed"}]
    /\ refcount \in [made -> Nat]
    /\ \A e \in made : ri_dependencies[e] \in Seq(made)
    /\ ToSet(repository) \subseteq made /\ ToSet(destructors) \subseteq made
    /\ item \in made \cup {None, End}
    /\ opened \subseteq RepositoryNames /\ finding \in BOOLEAN
    /\ held \in [RepositoryNames -> 0..MaxRetains]
    /\ dangling \in BOOLEAN

IsOpen(e) == ri_state[e] = "open"

\* "closing a component that is depended on by other components actually causes
\* missing symbols": a loaded component's dependencies are loaded.  The
\* destructor of an entry must not close what another still needs.
DependenciesAreOpen ==
    \A e \in 1..Len(ri_name) : IsOpen(e) =>
       \A d \in ToSet(ri_dependencies[e]) :
          \E f \in 1..Len(ri_name) : IsOpen(f) /\ ri_name[f] = ri_name[d]

\* An entry that has been freed is never released again: not by a dependency
\* that still points to it, not by finalize through the item it saved.
NoUseAfterFree == ~dangling

\* What a user has is loaded: as long as a framework has a component open, or
\* somebody retains it, its file is not closed.
UsedIsOpen ==
    initialized /\ item = None =>
       \A c \in RepositoryNames :
          c \in opened \/ held[c] > 0 =>
             \E e \in 1..Len(ri_name) : IsOpen(e) /\ ri_name[e] = c

\* Nothing stays loaded that no user needs, directly or through dependencies.
NothingLeaks ==
    initialized /\ Idle /\ opened = {} /\ (\A c \in RepositoryNames : held[c] = 0)
       => repository = <<>>

\* The above together.
RepositoryIsSound ==
    /\ RepositoryTypeOK /\ DependenciesAreOpen /\ NoUseAfterFree
    /\ UsedIsOpen /\ NothingLeaks

\* Calls return: destructors do not chase dependencies for ever, and finalize's
\* passes empty the list.
DestructorsEnd == []<>Idle
=============================================================================
