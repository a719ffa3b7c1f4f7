----------------------------- MODULE Framework -----------------------------
(***************************************************************************)
(* The life of one MCA framework (ocoms/mca/base/mca_base_framework.c and  *)
(* mca_base_components_{register,open,close,select}.c): registered,        *)
(* opened by any number of users, its components found, filtered, opened   *)
(* and closed, one of them selected.                                       *)
(*                                                                         *)
(* The calls do not overlap, so each is one action.  What a call may find  *)
(* on the way (a file that does not load, a component whose register, open *)
(* or query function declines) is chosen with \E; f stands for the state   *)
(* of the framework in the middle of a call.  Finding components is module *)
(* ComponentFind, unloading one is module ComponentRepository.  The        *)
(* framework has no register, open and close functions of its own.         *)
(***************************************************************************)
EXTENDS Integers, FiniteSets, FiniteSetsExt

CONSTANTS NumComponents,     \* in the order of the component lists
          MaxUsers,          \* bound on framework_refcnt
          MaxPriority,
          InitialFlags       \* values of framework_flags it may be declared with

Components == 1..NumComponents
NoComponent == 0             \* NULL

ASSUME ConstantsAssumption ==
    /\ {NumComponents, MaxUsers, MaxPriority} \subseteq Nat
    /\ InitialFlags \subseteq SUBSET {"NOREGISTER", "REGISTERED"}

VARIABLES
    selection,    \* what the selection parameter says
    framework,    \* the framework: see States
    users,        \* opens that succeeded and were not followed by a close
    selected,     \* what the last ocoms_mca_base_select returned
    accidents     \* history: what has gone wrong that the code does not mend

vars == <<selection, framework, users, selected, accidents>>

\* flags, refcnt and components are fields of ocoms_mca_base_framework_t; group
\* is whether its group of variables is there.  loaded, params and opened are
\* the components in memory, with registered variables, and with an open
\* function that has succeeded and a close function that has not been called
\* since.  known are those whose variables were ever registered and grouped
\* those whose variables are in their group: register_variable puts a variable
\* into a group when its name is new, and not when it is registered again.
States ==
    [flags : SUBSET {"NOREGISTER", "REGISTERED"},
     refcnt : 0..(MaxUsers + 1),
     group : BOOLEAN,
     components : SUBSET Components,
     loaded : SUBSET Components,
     params : SUBSET Components,
     known : SUBSET Components,
     grouped : SUBSET Components,
     opened : SUBSET Components]

\* A selection names components to include or to exclude, or is malformed (a
\* negation inside); no names means all.  0 stands for a name nobody has.
SelectionsOf(n) ==
    [include_mode : BOOLEAN, names : SUBSET (0..n), valid : BOOLEAN]

Init ==
    /\ selection \in {s \in SelectionsOf(NumComponents) :
                        s.valid \/ s.names = {}}
    /\ framework \in {[flags |-> g, refcnt |-> 0, group |-> FALSE,
                       components |-> {}, loaded |-> {}, params |-> {},
                       known |-> {}, grouped |-> {}, opened |-> {}] : g \in InitialFlags}
    /\ users = 0
    /\ selected = [component |-> NoComponent, module |-> NoComponent]
    /\ accidents = {}

Wanted ==
    IF selection.names = {} THEN Components
    ELSE IF selection.include_mode THEN selection.names \cap Components
    ELSE Components \ selection.names

IsRegistered(f) == "REGISTERED" \in f.flags
NoRegister(f) == "NOREGISTER" \in f.flags

-----------------------------------------------------------------------------
(* ocoms_mca_base_framework_register *)

\* Mutant: the variables stay registered.
UnloadKeepingVariables(f, cs) ==
    [f EXCEPT !.components = @ \ cs, !.loaded = @ \ cs]

\* ocoms_mca_base_component_unload: out of memory, its group deregistered.
Unload(f, cs) ==
    [f EXCEPT !.components = @ \ cs, !.loaded = @ \ cs,
              !.params = @ \ (cs \cap f.grouped), !.grouped = @ \ cs]

\* Mutant: off the list, and not unloaded.
CloseInMemory(f, cs) ==
    [f EXCEPT !.components = @ \ cs, !.params = @ \ (cs \cap f.grouped),
              !.grouped = @ \ cs, !.opened = @ \ cs]

\* ocoms_mca_base_component_close
Close(f, cs) == [Unload(f, cs) EXCEPT !.opened = @ \ cs]

\* ocoms_mca_base_framework_components_register: find the wanted components,
\* some of which load, and call their register functions, some of which
\* succeed; the others are unloaded.
ComponentsRegistered(f, wanted) ==
    {Unload([f EXCEPT !.components = c[1], !.loaded = @ \cup c[2], !.params = @ \cup c[2],
                      !.grouped = @ \cup (c[2] \ f.known), !.known = @ \cup c[2]],
            c[2] \ c[1]) :
       c \in {d \in (SUBSET wanted) \X (SUBSET wanted) : d[1] \subseteq d[2]}}

\* Mutant: the early return for a framework that is registered is missing.
RegisteredAgain(f, all) ==
    IF NoRegister(f) THEN {[f EXCEPT !.flags = @ \cup {"REGISTERED"}]}
    ELSE {[g EXCEPT !.group = TRUE, !.flags = @ \cup {"REGISTERED"}] :
            g \in IF all THEN ComponentsRegistered(f, Components)
                 ELSE IF selection.valid THEN ComponentsRegistered(f, Wanted)
                 ELSE {}}

\* What ocoms_mca_base_framework_register may leave behind when it succeeds.
\* all is MCA_BASE_REGISTER_ALL, which ignores the selection.
Registered(f, all) ==
    IF IsRegistered(f) THEN {f}
    ELSE IF NoRegister(f) THEN {[f EXCEPT !.flags = @ \cup {"REGISTERED"}]}
    ELSE {[g EXCEPT !.group = TRUE, !.flags = @ \cup {"REGISTERED"}] :
            g \in IF all THEN ComponentsRegistered(f, Components)
                 ELSE IF selection.valid THEN ComponentsRegistered(f, Wanted)
                 ELSE {}}

\* ... and when it fails: on one of its variables, or on a malformed selection,
\* which is found out when the variables are there.
RegisterFailed(f, all) ==
    IF IsRegistered(f) \/ NoRegister(f) THEN {}
    ELSE {f, [f EXCEPT !.group = TRUE]}

Register(all) ==
    /\ framework' \in Registered(framework, all) \cup RegisterFailed(framework, all)
    /\ UNCHANGED <<selection, users, selected, accidents>>

-----------------------------------------------------------------------------
(* ocoms_mca_base_framework_open *)

\* ocoms_mca_base_component_find, called here for a framework that registers
\* nothing.
Found(f) ==
    IF NoRegister(f)
    THEN {[f EXCEPT !.components = cs, !.loaded = @ \cup cs] : cs \in SUBSET Wanted}
    ELSE {f}

\* ocoms_mca_base_components_filter unloads what is not wanted.  It fails when
\* a requested component is not there; that is not checked after a find.
Filtered(f) == Unload(f, f.components \ Wanted)
FilterFails(f) ==
    /\ selection.include_mode /\ ~NoRegister(f)
    /\ ~(selection.names \subseteq f.components)

\* open_components: the ones that decline are closed, all the same.
ComponentsOpened(f, cs) ==
    Close([f EXCEPT !.opened = @ \cup cs], f.components \ cs)

\* Mutant: counted when it is registered and again when it is opened.
CountedTwice(f) == [f EXCEPT !.refcnt = @ + 2]

\* framework_refcnt++ comes first.
Counted(f) == [f EXCEPT !.refcnt = @ + 1]

\* The framework is open already, or believed to be.
OpenAgain ==
    /\ framework.refcnt > 0 /\ users < MaxUsers
    /\ framework.refcnt <= MaxUsers
    /\ framework' = Counted(framework)
    /\ users' = users + 1
    /\ UNCHANGED <<selection, selected, accidents>>

\* The count stays.
OpenRegisterFails ==
    /\ framework.refcnt = 0
    /\ framework' \in RegisterFailed(Counted(framework), FALSE)
    /\ accidents' = accidents \cup {"open_failed_counted"}
    /\ UNCHANGED <<selection, users, selected>>

\* The selection is malformed, or something requested is missing: refcnt = 0.
OpenFails ==
    /\ framework.refcnt = 0
    /\ \E f \in Registered(framework, FALSE) : \E g \in Found(f) :
          \/ ~selection.valid /\ framework' = f
          \/ selection.valid /\ FilterFails(Filtered(g)) /\ framework' = Filtered(g)
    /\ UNCHANGED <<selection, users, selected, accidents>>

OpenFirst ==
    /\ framework.refcnt = 0 /\ users < MaxUsers
    /\ selection.valid
    /\ \E f \in Registered(framework, FALSE) : \E g \in Found(f) :
          /\ ~FilterFails(Filtered(g))
          /\ \E cs \in SUBSET Filtered(g).components :
                framework' = Counted(ComponentsOpened(Filtered(g), cs))
    /\ users' = users + 1
    /\ UNCHANGED <<selection, selected, accidents>>

-----------------------------------------------------------------------------
(* ocoms_mca_base_framework_close *)

\* The variables of the framework and its components go first.
Deregistered(f) ==
    [f EXCEPT !.group = FALSE, !.params = IF f.group THEN @ \ f.grouped ELSE @,
              !.grouped = IF f.group THEN {} ELSE @, !.flags = @ \ {"REGISTERED"}]

CloseAgain ==
    /\ users > 0 /\ framework.refcnt > 1
    /\ framework' = [framework EXCEPT !.refcnt = @ - 1]
    /\ users' = users - 1
    /\ UNCHANGED <<selection, selected, accidents>>

\* ocoms_mca_base_components_close of all components.
CloseLast ==
    /\ users > 0 /\ framework.refcnt = 1
    /\ framework' =
         [Deregistered(Close(framework, framework.components)) EXCEPT !.refcnt = 0]
    /\ users' = users - 1
    /\ UNCHANGED <<selection, selected, accidents>>

\* Registered, not open: the items of the list are taken for components, which
\* unloads none of them.
CloseUnopened ==
    /\ framework.refcnt = 0 /\ IsRegistered(framework)
    /\ framework' = [Deregistered(framework) EXCEPT !.components = {}]
    /\ accidents' = accidents \cup {"closed_unopened"}
    /\ UNCHANGED <<selection, users, selected>>

-----------------------------------------------------------------------------
(* ocoms_mca_base_select *)

\* What a component's query function returns: a module and its priority, no
\* module (NULL), or a priority, leaving module alone.  "skipped": it has none.
Answers ==
    [answer : {"module", "priority"}, priority : 0..MaxPriority]
    \cup [answer : {"none", "skipped"}, priority : {0}]

\* module after component c was asked, going through the list in order.
ModuleAfter(answers, c) ==
    LET set == {d \in DOMAIN answers :
                  d <= c /\ answers[d].answer \in {"module", "none"}} IN
    IF set = {} THEN NoComponent
    ELSE IF answers[Max(set)].answer = "module" THEN Max(set) ELSE NoComponent

\* The first of the components with the highest priority among those that left
\* a module behind.
Best(answers) ==
    LET asked == {c \in DOMAIN answers : /\ answers[c].answer # "skipped"
                                         /\ ModuleAfter(answers, c) # NoComponent}
        best == {c \in asked : \A d \in asked :
                    answers[c].priority >= answers[d].priority}
    IN IF asked = {} THEN NoComponent ELSE Min(best)

\* All the others are closed.
Select ==
    /\ users > 0
    /\ \E answers \in [framework.components -> Answers] :
          LET c == Best(answers) IN
          /\ selected' = [component |-> c,
                          module |-> IF c = NoComponent THEN NoComponent
                                     ELSE ModuleAfter(answers, c)]
          /\ framework' = Close(framework, framework.components \ {c})
    /\ UNCHANGED <<selection, users, accidents>>

-----------------------------------------------------------------------------
Next ==
    \/ \E all \in BOOLEAN : Register(all)
    \/ OpenAgain \/ OpenRegisterFails \/ OpenFails \/ OpenFirst
    \/ CloseAgain \/ CloseLast \/ CloseUnopened
    \/ Select

Spec == Init /\ [][Next]_vars

-----------------------------------------------------------------------------
TypeOK ==
    /\ framework \in States
    /\ users \in 0..MaxUsers
    /\ selected \in [component : Components \cup {NoComponent},
                     module : Components \cup {NoComponent}]
    /\ accidents \subseteq {"open_failed_counted", "closed_unopened"}

\* A user who was told that the framework is open finds it registered, and every
\* component on its list loaded, open and wanted.
OpenAsPromised ==
    users > 0 =>
       /\ framework.refcnt = users
       /\ IsRegistered(framework)
       /\ framework.opened = framework.components
       /\ framework.loaded = framework.components
       /\ framework.components \subseteq Wanted

\* An open that returns success leaves the caller with an open framework, until
\* it closes it, unless an open failed in its registration before.
OpenMeansOpen == accidents = {} => OpenAsPromised

\* Closed and unregistered, a framework leaves nothing behind: no component in
\* memory or open, no group of variables ("close the framework and all of its
\* components"); unless it was closed without having been open.
ClosedMeansUnloaded ==
    accidents = {} /\ framework.refcnt = 0 /\ ~IsRegistered(framework) =>
       framework.loaded = {} /\ framework.opened = {} /\ framework.grouped = {}

\* No file is unloaded while its component is open or has variables registered,
\* whose storage is in the file, whatever fails on the way; except for those a
\* component has registered again.
LoadedWhileUsed ==
    framework.opened \cup (framework.params \cap framework.grouped)
        \subseteq framework.loaded

\* The above together.
FrameworkIsSound == TypeOK /\ OpenMeansOpen /\ ClosedMeansUnloaded /\ LoadedWhileUsed
=============================================================================
