------------------------------- MODULE McaVar -------------------------------
(***************************************************************************)
(* The MCA variables and their groups (ocoms/mca/base/mca_base_var.c,      *)
(* mca_base_var_group.c, mca_base_var_enum.c): components register         *)
(* variables whose storage is their own, the system finds the initial      *)
(* value (override file, environment, files, default), synonyms stand for  *)
(* other variables, and a component that is unloaded takes its group of    *)
(* variables with it.                                                      *)
(*                                                                         *)
(* The calls come from one thread, so each is one action.  D stands for    *)
(* the state in the middle of a call: [vars, groups, store].  The hash     *)
(* tables from names to indices are FindVar and GroupFind.  A text is what *)
(* the user wrote: <<"num", n>>, <<"scaled", n, k>> (a number with the     *)
(* k-th of the suffixes k, m, g), <<"word", w>>, <<"path", seq>> (a path   *)
(* list, some elements of which begin with "~/") or EmptyText.  Names are   *)
(* strings, since the code joins them.                                     *)
(***************************************************************************)
EXTENDS Integers, Sequences, FiniteSets, SequencesExt

CONSTANTS
    VarComponents, \* the components; a framework is its base component
    FrameworkOf,   \* VarComponents -> framework names
    Declarations,  \* the registrations they make: see register_variable
    Enumerator,    \* a sequence of [value, string]: the enumerated values
    Settings,      \* what the user may have set: values of world
    SetValues,     \* type -> the values ocoms_mca_base_var_set_value is given
    MaxRegistrations   \* bound on the number of registrations

\* A declaration d is [owner, name, type, flags, default, synonymFor], the last
\* the name of the original or "".  A synonym has flags of its own, of
\* ocoms_mca_base_var_syn_flag_t: it does not go with a group.
ASSUME VarAssumption ==
    \A d \in Declarations :
       d.owner \in VarComponents /\ (d.synonymFor # "" => "DWG" \notin d.flags)

NoText == <<"none">>          \* no text, no such string
EmptyText == <<"empty">>      \* the empty text
NullText == <<"null">>        \* a NULL string

\* ocoms_mca_base_var_source_t, in its order
DEFAULT == 0
COMMAND_LINE == 1
ENV == 2
FILE == 3
SET == 4
OVERRIDE == 5

VARIABLES
    world,       \* what is given: [env, source : name -> text, file, override :
                 \*   Seq([key, text]), declared : SUBSET Declarations,
                 \*   beside : the memory behind a bool is not all zero]
    mcaVars,     \* ocoms_mca_base_vars
    groups,      \* ocoms_mca_base_var_groups
    store,       \* Declarations -> the value in the registrant's storage
    loaded,      \* the components that are in memory
    registered   \* history: how often a name was registered

varVars == <<world, mcaVars, groups, store, loaded, registered>>

VarNames == {d.name : d \in Declarations}

State == [vars |-> mcaVars, groups |-> groups, store |-> store]
Become(D) == mcaVars' = D.vars /\ groups' = D.groups /\ store' = D.store

-----------------------------------------------------------------------------
(* Enumerators and conversions *)

\* enum_value_from_string: by number or by name, the first that matches.
enum_value_from_string(text) ==
    LET i == SelectInSeq(Enumerator, LAMBDA e : \/ text = <<"num", e.value>>
                                                \/ text = <<"word", e.string>>)
    IN IF i = 0 THEN NoText ELSE <<"num", Enumerator[i].value>>

\* enum_string_from_value
enum_string_from_value(v) ==
    LET i == SelectInSeq(Enumerator, LAMBDA e : v = <<"num", e.value>>)
    IN IF i = 0 THEN NoText ELSE <<"word", Enumerator[i].string>>

\* ocoms_mca_base_var_enum_bool_vfs
enum_bool_vfs(text) ==
    CASE text[1] = "num" -> <<"num", IF text[2] = 0 THEN 0 ELSE 1>>
      [] text \in {<<"word", "true">>, <<"word", "t">>, <<"word", "enabled">>} -> <<"num", 1>>
      [] text \in {<<"word", "false">>, <<"word", "f">>, <<"word", "disabled">>} -> <<"num", 0>>
      [] OTHER -> NoText

\* int_from_string: without an enumerator a word is 0.
int_from_string(type, text) ==
    CASE text = EmptyText -> <<"num", 0>>
      [] text # EmptyText /\ type = "enum" -> enum_value_from_string(text)
      [] text # EmptyText /\ type = "bool" -> enum_bool_vfs(text)
      [] text # EmptyText /\ type = "int" /\ text[1] = "num" -> text
      [] text # EmptyText /\ type = "int" /\ text[1] = "scaled" ->
           <<"num", text[2] * 1024 ^ text[3]>>
      [] OTHER -> <<"num", 0>>

\* var_set_string.  Elements are <<"home", x>> for "~/x" and <<"plain", x>>.
\* The first one becomes x in the home directory; for a later one the text
\* is put together again from p, which is always NULL: what was before is lost.
var_set_string(text) ==
    LET path == text[2]
        expand(e) == IF e[1] = "home" THEN <<"in home", e[2]>> ELSE e
        later == {i \in 2..Len(path) : path[i][1] = "home"} IN
    IF text[1] # "path" THEN IF text = EmptyText THEN NullText ELSE text
    ELSE IF later = {} THEN <<"path", [path EXCEPT ![1] = expand(@)]>>
    ELSE <<"path", <<<<"plain", "">>, expand(path[Max(later)])>>
                     \o SubSeq(path, Max(later) + 1, Len(path))>>

\* var_set_from_string: the value, or None for OCOMS_ERR_VALUE_OUT_OF_BOUNDS
\* (for an int, what does not fit into 32 bits as an unsigned number).
var_set_from_string(type, text) ==
    IF type = "string" THEN var_set_string(text)
    ELSE LET v == int_from_string(type, text) IN
         IF v # NoText /\ type \in {"int", "enum"} /\ v[2] < 0 THEN NoText ELSE v

\* var_value_string, the way back.  The enumerator of a bool is given an int
\* read from its storage, the bytes behind the bool included.
var_value_string(type, v) ==
    CASE type = "enum" -> enum_string_from_value(v)
      [] type = "bool" ->
           <<"word", IF v = <<"num", 0>> /\ ~world.beside THEN "false" ELSE "true">>
      [] OTHER -> v

-----------------------------------------------------------------------------
(* Groups *)

\* ocoms_mca_base_var_generate_full_name4 of the parts that are not NULL
FullName(parts) == FoldLeft(LAMBDA name, part : name \o "_" \o part, Head(parts), Tail(parts))
GroupName(c) == FullName(<<FrameworkOf[c], c>>)
LongName(d) == FullName(<<FrameworkOf[d.owner], d.owner, d.name>>)

\* Joining is not injective: component b_c of framework a and component c of
\* framework a_b would share a group.  No two groups here have such names.
ASSUME NamesAssumption ==
    /\ \A c, e \in VarComponents : GroupName(c) = GroupName(e) => c = e
    /\ \A c, e \in VarComponents : GroupName(c) # FullName(<<FrameworkOf[e]>>)

\* group_find, also when it is asked for invalid groups: the index the hash
\* table has is the one registered last, and an invalid group is not found.
GroupFind(gs, name) ==
    LET i == SelectLastInSeq(gs, LAMBDA g : g.name = name) IN
    IF i # 0 /\ gs[i].valid THEN i ELSE 0

NewGroup(name) == [name |-> name, valid |-> TRUE, vars |-> <<>>, subgroups |-> <<>>]

\* group_register of a framework, and of a component with its parent first
GroupRegisterFramework(gs, f) ==
    IF GroupFind(gs, FullName(<<f>>)) # 0 THEN gs ELSE Append(gs, NewGroup(FullName(<<f>>)))
GroupRegister(gs, c) ==
    LET with == GroupRegisterFramework(gs, FrameworkOf[c])
        parent == GroupFind(with, FullName(<<FrameworkOf[c]>>)) IN
    IF GroupFind(gs, GroupName(c)) # 0 THEN gs
    ELSE Append([with EXCEPT ![parent].subgroups = Append(@, Len(with) + 1)],
                NewGroup(GroupName(c)))

\* ocoms_mca_base_var_group_add_var
GroupAddVar(gs, g, i) ==
    IF ~gs[g].valid \/ Contains(gs[g].vars, i) THEN gs
    ELSE [gs EXCEPT ![g].vars = Append(@, i)]

-----------------------------------------------------------------------------
(* Looking up the initial value *)

Is(v, flag) == flag \in v.flags

\* var_find_by_name, invalid variables included
FindVar(vs, name) == SelectInSeq(vs, LAMBDA v : v.name = name)

\* The storage of a variable is <<>>, NULL, or <<d>>, that of declaration d.
\* var_get with original set.
Original(vs, i) == IF Is(vs[i], "SYNONYM") THEN vs[i].synonymFor ELSE i

\* Assign text to variable o; [ret, D] as all the steps below.  A text for a
\* variable that was deregistered, found under a synonym's name, goes to NULL.
Assign(D, o, text) ==
    LET v == var_set_from_string(D.vars[o].type, text) IN
    IF v = NoText THEN [ret |-> "OUT_OF_BOUNDS", D |-> D]
    ELSE IF D.vars[o].storage = <<>> THEN [ret |-> "CRASH", D |-> D]
    ELSE [ret |-> "SUCCESS", D |-> [D EXCEPT !.store[D.vars[o].storage[1]] = v]]

Source(D, o, s) == [D EXCEPT !.vars[o].source = s]

\* var_set_from_env
var_set_from_env(D, i) ==
    LET n == D.vars[i].name
        o == Original(D.vars, i)
        source == CASE world.source[n] = "file" -> FILE
                    [] world.source[n] = "override" -> OVERRIDE
                    [] world.source[n] = "command" -> COMMAND_LINE
                    [] OTHER -> ENV IN
    CASE o # i /\ D.vars[o].source >= ENV -> [ret |-> "SUCCESS", D |-> D]
      [] ~(o # i /\ D.vars[o].source >= ENV)
         /\ (\/ world.env[n] = NoText
             \/ Is(D.vars[o], "DEFAULT_ONLY")
             \/ D.vars[o].source = OVERRIDE) -> [ret |-> "NOT_FOUND", D |-> D]
      [] OTHER -> Assign(Source(D, o, source), o, world.env[n])

\* var_set_from_file: entries match by the full and by the long name.
var_set_from_file(D, i, values) ==
    LET v == D.vars[i]
        o == Original(D.vars, i)
        k == SelectInSeq(values, LAMBDA e : e.key \in {v.name, v.long}) IN
    CASE o # i /\ D.vars[o].source >= FILE -> [ret |-> "SUCCESS", D |-> D]
      [] ~(o # i /\ D.vars[o].source >= FILE)
         /\ (\/ k = 0
             \/ Is(D.vars[o], "DEFAULT_ONLY")
             \/ Is(D.vars[o], "ENVIRONMENT_ONLY")
             \/ D.vars[o].source = OVERRIDE) -> [ret |-> "NOT_FOUND", D |-> D]
      [] OTHER -> Assign(Source(D, o, FILE), o, values[k].text)

\* What the first source that has the variable makes of it.
FirstFound(r, s) == IF r.ret # "NOT_FOUND" THEN r ELSE s
KeepDefault(D) == [ret |-> "SUCCESS", D |-> D]

\* Mutant: the files are looked at before the environment.
FilesBeforeEnv(D, i) ==
    FirstFound(var_set_from_file(D, i, world.file),
               FirstFound(var_set_from_env(D, i), KeepDefault(D)))
EnvBeforeFiles(D, i) ==
    FirstFound(var_set_from_env(D, i),
               FirstFound(var_set_from_file(D, i, world.file), KeepDefault(D)))

\* var_set_initial.  An override value that is out of bounds is forgotten, and
\* it is the variable the value is named after that becomes overridden.
Overridden(r, i) ==
    IF r.ret # "SUCCESS" THEN r.D
    ELSE [r.D EXCEPT !.vars[i].source = OVERRIDE,
                     !.vars[i].flags = (@ \cup {"OVERRIDE"}) \ {"SETTABLE"}]
var_set_initial(D, i) ==
    LET over == var_set_from_file(Source(D, i, DEFAULT), i, world.override) IN
    IF over.ret = "CRASH" THEN over ELSE EnvBeforeFiles(Overridden(over, i), i)

-----------------------------------------------------------------------------
(* Registering *)

\* The flags register_variable refuses, when it has registered the group.
Refused(d) == {"DEFAULT_ONLY", "SETTABLE"} \subseteq d.flags

\* The new entry of register_variable: read-only variables are not settable.
NewVar(d, g, o) ==
    [name |-> d.name, long |-> LongName(d),
     type |-> d.type, group |-> g, source |-> DEFAULT, synonymFor |-> o,
     synonyms |-> <<>>, storage |-> <<>>,
     flags |-> (d.flags \ (IF d.flags \cap {"READONLY", "DEFAULT_ONLY"} # {}
                           THEN {"SETTABLE"} ELSE {}))
               \cup (IF d.synonymFor = "" THEN {} ELSE {"SYNONYM"})]

\* register_variable up to var_set_initial.  A name that is known, whoever
\* registered it, keeps its entry: only the storage is the new one's, and it
\* gets into no group.
Entered(D, d) ==
    LET known == FindVar(D.vars, d.name)
        gs == GroupRegister(D.groups, d.owner)
        g == GroupFind(gs, GroupName(d.owner))
        o == FindVar(D.vars, d.synonymFor)
        i == Len(D.vars) + 1
        D1 == IF known # 0 THEN D
              ELSE [D EXCEPT !.vars = Append(@, NewVar(d, g, o)),
                             !.groups = GroupAddVar(gs, g, i)]
        j == IF known # 0 THEN known ELSE i IN
    [i |-> j,
     D |-> IF d.synonymFor # "" THEN [D1 EXCEPT !.vars[o].synonyms = Append(@, j)]
           ELSE [D1 EXCEPT !.vars[j].storage = <<d>>]]

\* The rest of it: a variable whose initial value is out of bounds is not valid.
Validated(r, i) ==
    IF r.ret # "SUCCESS" THEN r.D ELSE [r.D EXCEPT !.vars[i].flags = @ \cup {"VALID"}]
Initialized(e) == Validated(var_set_initial(e.D, e.i), e.i)

\* register_variable for a component that is in memory, which has put the
\* default into its storage.  A synonym is registered for a variable that is
\* no synonym itself; that one may have been deregistered, and the program
\* ends, without a step here, if there is a text to store for it.
RegisterVar(d) ==
    LET D == [State EXCEPT !.store[d] = d.default]
        o == FindVar(mcaVars, d.synonymFor)
        known == FindVar(mcaVars, d.name)
        sameType == mcaVars[known].type = d.type IN
    /\ d \in world.declared /\ d.owner \in loaded
    /\ SumFunction(registered) < MaxRegistrations
    /\ d.synonymFor # "" => o # 0 /\ ~Is(mcaVars[o], "SYNONYM")
    /\ registered' = [registered EXCEPT ![d.name] = @ + 1]
    /\ UNCHANGED <<world, loaded>>
    /\ \/ known # 0 /\ ~sameType /\ Become(D)
       \/ known = 0 /\ Refused(d) /\ Become([D EXCEPT !.groups = GroupRegister(groups, d.owner)])
       \/ /\ IF known # 0 THEN sameType ELSE ~Refused(d)
          /\ LET e == Entered(D, d) IN /\ var_set_initial(e.D, e.i).ret # "CRASH"
                                       /\ Become(Initialized(e))

\* ocoms_mca_base_var_set_value of variable i
SetValue(i, v) ==
    LET o == Original(mcaVars, i) IN
    /\ Is(mcaVars[o], "VALID") /\ Is(mcaVars[o], "SETTABLE")
    /\ mcaVars[o].type = "enum" => enum_string_from_value(v) # NoText
    /\ store' = [store EXCEPT ![mcaVars[o].storage[1]] =
                    IF mcaVars[o].type = "string" THEN var_set_string(v) ELSE v]
    /\ mcaVars' = [mcaVars EXCEPT ![o].source = SET]
    /\ UNCHANGED <<world, groups, loaded, registered>>

\* Mutant: the subgroups are left alone.
DeregisteredGroupsFlat(gs, g) == IF gs[g].valid THEN {g} ELSE {}

\* The groups ocoms_mca_base_var_group_deregister marks invalid: the group, if
\* it is valid, and its valid subgroups, which have no subgroups.
DeregisteredGroups(gs, g) ==
    IF ~gs[g].valid THEN {}
    ELSE {g} \cup {h \in ToSet(gs[g].subgroups) : gs[h].valid}

\* A variable that is deregistered; one that is no synonym loses its storage.
DeregisteredVar(v) ==
    IF Is(v, "SYNONYM") THEN [v EXCEPT !.flags = @ \ {"VALID"}]
    ELSE [v EXCEPT !.flags = @ \ {"VALID"}, !.storage = <<>>]

\* The variables that are ocoms_mca_base_var_deregister'ed, is; the string of
\* one that is no synonym is freed.
DeregisterVars(D, is) ==
    LET valid == {i \in is : Is(D.vars[i], "VALID")}
        plain == {i \in valid : ~Is(D.vars[i], "SYNONYM")}
        freed == {D.vars[i].storage[1] : i \in {j \in plain : D.vars[j].type = "string"}} IN
    [D EXCEPT
       !.vars = [i \in DOMAIN @ |-> IF i \in valid THEN DeregisteredVar(@[i]) ELSE @[i]],
       !.store = [d \in DOMAIN @ |-> IF d \in freed THEN NullText ELSE @[d]]]

\* What is left of a group.
NoGroup(g) == [g EXCEPT !.valid = FALSE, !.vars = <<>>, !.subgroups = <<>>]

\* ocoms_mca_base_var_group_deregister: the variables with MCA_BASE_VAR_FLAG_DWG
\* are deregistered and all three arrays of the group emptied.
GroupDeregister(D, g) ==
    LET gone == DeregisteredGroups(D.groups, g)
        is == {i \in UNION {ToSet(D.groups[h].vars) : h \in gone} : Is(D.vars[i], "DWG")} IN
    [DeregisterVars(D, is) EXCEPT
       !.groups = [h \in DOMAIN @ |-> IF h \in gone THEN NoGroup(@[h]) ELSE @[h]]]

\* ocoms_mca_base_component_unload: the group of the component, if it is found.
UnloadComponent(c) ==
    LET g == GroupFind(groups, GroupName(c)) IN
    /\ c \in loaded
    /\ Become(IF g = 0 THEN State ELSE GroupDeregister(State, g))
    /\ loaded' = loaded \ {c}
    /\ UNCHANGED <<world, registered>>

\* ocoms_mca_base_framework_close: the group of the framework, then each of
\* its components.
UnloadFramework(f) ==
    LET g == GroupFind(groups, FullName(<<f>>)) IN
    /\ \E c \in loaded : FrameworkOf[c] = f
    /\ Become(IF g = 0 THEN State ELSE GroupDeregister(State, g))
    /\ loaded' = {c \in loaded : FrameworkOf[c] # f}
    /\ UNCHANGED <<world, registered>>

LoadComponent(c) ==
    /\ c \notin loaded
    /\ loaded' = loaded \cup {c}
    /\ UNCHANGED <<world, mcaVars, groups, store, registered>>

\* ocoms_mca_base_var_deregister
Deregister(i) ==
    /\ Is(mcaVars[i], "VALID")
    /\ Become(DeregisterVars(State, {i}))
    /\ UNCHANGED <<world, loaded, registered>>

\* ocoms_mca_base_var_group_set_var_flag, as ocoms_mca_base_framework_open
\* calls it: the variables of the group are not settable any more.
LockGroup(g) ==
    LET os == {Original(mcaVars, i) : i \in ToSet(groups[g].vars)} IN
    /\ groups[g].valid
    /\ mcaVars' = [i \in DOMAIN mcaVars |->
                     IF i \notin os THEN mcaVars[i]
                     ELSE [mcaVars[i] EXCEPT !.flags = @ \ {"SETTABLE"}]]
    /\ UNCHANGED <<world, groups, store, loaded, registered>>

\* ocoms_mca_base_var_finalize, with the groups.  The next registration calls
\* ocoms_mca_base_var_init again.
FinalizeVars ==
    /\ mcaVars # <<>>
    /\ mcaVars' = <<>> /\ groups' = <<>>
    /\ store' = [d \in Declarations |->
                   IF d.type = "string" /\ \E i \in DOMAIN mcaVars : mcaVars[i].storage = <<d>>
                   THEN NullText ELSE store[d]]
    /\ UNCHANGED <<world, loaded, registered>>

-----------------------------------------------------------------------------
(* Passing the variables on to another process *)

\* Mutant: only what the user has set.
PassedOnUser(v) == v.source \notin {DEFAULT, SET} /\ ~Is(v, "INTERNAL")

\* What ocoms_mca_base_var_build_env puts into the environment ...
PassedOn(v) == v.source # DEFAULT /\ ~Is(v, "INTERNAL")

\* ... leaving out NULL strings.  It dereferences the storage of a string
\* variable, which is NULL for a synonym and a deregistered variable, and gives
\* up on the first variable whose value it cannot get.
BuildEnv ==
    LET is == {i \in DOMAIN mcaVars : PassedOn(mcaVars[i])}
        value(i) == store[mcaVars[Original(mcaVars, i)].storage[1]]
        listed == {i \in is : mcaVars[i].type = "string" => value(i) # NullText} IN
    IF \E i \in is : mcaVars[i].type = "string" /\ mcaVars[i].storage = <<>>
    THEN [ret |-> "crash"]
    ELSE IF \E i \in is : ~Is(mcaVars[Original(mcaVars, i)], "VALID")
    THEN [ret |-> "NOT_FOUND"]
    ELSE [ret |-> "SUCCESS",
          env |-> [n \in VarNames |->
                     IF \E i \in listed : mcaVars[i].name = n
                     THEN LET i == FindVar(mcaVars, n)
                          IN var_value_string(mcaVars[i].type, value(i))
                     ELSE NoText],
          source |-> [n \in VarNames |->
                     LET s == IF \E i \in listed : mcaVars[i].name = n
                              THEN mcaVars[FindVar(mcaVars, n)].source ELSE DEFAULT
                     IN CASE s = FILE -> "file"
                          [] s = OVERRIDE -> "override"
                          [] s = COMMAND_LINE -> "COMMAND_LINE"
                          [] OTHER -> "none"]]

VarInit ==
    /\ world \in Settings
    /\ mcaVars = <<>> /\ groups = <<>>
    /\ store = [d \in Declarations |-> d.default]
    /\ loaded = VarComponents
    /\ registered = [n \in VarNames |-> 0]

VarNext ==
    \/ \E d \in Declarations : RegisterVar(d)
    \/ \E i \in DOMAIN mcaVars :
          \/ Deregister(i)
          \/ \E v \in SetValues[mcaVars[i].type] : SetValue(i, v)
    \/ \E g \in DOMAIN groups : LockGroup(g)
    \/ \E c \in VarComponents : LoadComponent(c) \/ UnloadComponent(c)
    \/ \E f \in {FrameworkOf[c] : c \in VarComponents} : UnloadFramework(f)
    \/ FinalizeVars

VarSpec == VarInit /\ [][VarNext]_varVars

-----------------------------------------------------------------------------
(* Properties *)

\* The synonyms of name n that some component declares, and whether there is
\* a text for one.
SynonymsOf(n) == {d \in Declarations : d.synonymFor = n}
Mentioned(d) ==
    \/ world.env[d.name] # NoText
    \/ \E e \in ToSet(world.file \o world.override) : e.key \in {d.name, LongName(d)}

\* What the user has set variable v to, in the order of precedence the comment
\* on var_set_initial gives, each text taken only if it means a value.
WantedValue(v) ==
    LET entries(values) == SelectSeq(values, LAMBDA e : e.key \in {v.name, v.long})
        over == IF Is(v, "ENVIRONMENT_ONLY") THEN <<>> ELSE entries(world.override)
        file == IF Is(v, "ENVIRONMENT_ONLY") THEN <<>> ELSE entries(world.file)
        good(values) == values # <<>> /\ var_set_from_string(v.type, values[1].text) # NoText IN
    CASE Is(v, "DEFAULT_ONLY") -> v.storage[1].default
      [] ~Is(v, "DEFAULT_ONLY") /\ good(over) -> var_set_from_string(v.type, over[1].text)
      [] ~Is(v, "DEFAULT_ONLY") /\ ~good(over) /\ world.env[v.name] # NoText ->
            var_set_from_string(v.type, world.env[v.name])
      [] ~Is(v, "DEFAULT_ONLY") /\ ~good(over) /\ world.env[v.name] = NoText /\ good(file) ->
            var_set_from_string(v.type, file[1].text)
      [] OTHER -> v.storage[1].default

\* Whatever was registered, deregistered, locked and set in between, a valid
\* variable without synonyms has the value with the highest precedence; and a
\* call of set_value changes it only if the override file does not mention it.
ValueIsWanted ==
    \A i \in DOMAIN mcaVars : LET v == mcaVars[i] IN
       /\ Is(v, "VALID") /\ ~Is(v, "SYNONYM")
       /\ \A d \in SynonymsOf(v.name) : ~Mentioned(d)
       /\ v.source = SET => Is(v, "OVERRIDE")
       => store[v.storage[1]] = WantedValue(v)

\* A variable that can be used is backed by the storage of a component that is
\* in memory ("vars registered this this function will automatically be
\* unregistered / made unavailable when that component is closed").
StorageIsLoaded ==
    \A i \in DOMAIN mcaVars :
       LET v == mcaVars[i] IN
       Is(v, "VALID") /\ Is(v, "DWG") => v.storage[1].owner \in loaded

\* ... as long as no name was registered a second time.
FirstStorageIsLoaded ==
    (\A n \in VarNames : registered[n] <= 1) => StorageIsLoaded

\* What is not carried over: a NULL string, which is left out, a negative number,
\* which is written as such and refused by var_set_from_string, and a false bool
\* with other data behind it.
NotCarried(type, x) ==
    \/ x = NullText
    \/ type \in {"int", "enum"} /\ x[1] = "num" /\ x[2] < 0
    \/ type = "bool" /\ x = <<"num", 0>> /\ world.beside

\* A process started with the environment ocoms_mca_base_var_build_env returns,
\* and the same files, gets the same values, but for those named above.
EnvironmentCarriesValues ==
    LET e == BuildEnv
        child(v) == IF e.env[v.name] = NoText THEN WantedValue(v)
                    ELSE var_set_from_string(v.type, e.env[v.name]) IN
    e.ret = "SUCCESS" =>
       \A i \in DOMAIN mcaVars : LET v == mcaVars[i] IN
          Is(v, "VALID") /\ ~Is(v, "SYNONYM") /\ ~Is(v, "INTERNAL")
             /\ ~NotCarried(v.type, store[v.storage[1]])
          => store[v.storage[1]] = child(v)

=============================================================================
