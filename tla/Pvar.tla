-------------------------------- MODULE Pvar --------------------------------
(***************************************************************************)
(* MCA performance variables (ocoms/mca/base/mca_base_pvar.c): counters    *)
(* and levels that components export, and the handles through which tools  *)
(* start, stop, reset, read and write them.  A handle of a sum (counter,   *)
(* aggregate, timer) keeps its own total, from the differences between the *)
(* readings of the underlying variable, which wraps around at its width.   *)
(*                                                                         *)
(* The calls come from one thread, each is one action.  Indices start at 0 *)
(* as in registered_pvars; pvars[i + 1] is the variable with index i.      *)
(***************************************************************************)
EXTENDS Integers, Sequences, FiniteSets, SequencesExt

CONSTANTS
    PvarDeclarations,  \* [owner, name, class, continuous, readonly], by component
    Handles,           \* the handles of one session
    Modulus,           \* the largest value of the unsigned type, and one
    MaxPvars           \* bound on pvar_count

ASSUME PvarAssumption ==
    /\ Modulus \in Nat \ {0}
    /\ \A d \in PvarDeclarations : d.continuous \in BOOLEAN

VARIABLES
    pvars,       \* registered_pvars, [name, d, valid, group]: d the declaration
                 \*   in force, group the component whose group lists it
    underlying,  \* PvarDeclarations -> the value get_value returns
    handles,     \* Handles -> Unbound or [pvar, started, current, last]
    expected,    \* history: what a handle of a sum should read
    clobbered    \* history: a variable was redefined as another one

pvarVars == <<pvars, underlying, handles, expected, clobbered>>

Values == 0..(Modulus - 1)
Wrap(n) == n % Modulus

Unbound == [pvar |-> -1, started |-> FALSE, current |-> 0, last |-> 0]
Bound(h) == handles[h].pvar # -1

Sums == {"COUNTER", "AGGREGATE", "TIMER"}
Watermarks == {"HIGHWATERMARK", "LOWWATERMARK"}

\* ocoms_mca_base_pvar_is_sum, _is_watermark, and the variable of a handle
VarOf(h) == pvars[handles[h].pvar + 1]
IsSum(d) == d.class \in Sums
IsWatermark(d) == d.class \in Watermarks
Reading(h) == underlying[VarOf(h).d]

-----------------------------------------------------------------------------
(* Registering *)

\* ocoms_mca_base_pvar_find_by_name.  The hash table is filled in before
\* pvar_index is: it has index 0 for every name.
FindByName(n) == IF \E i \in DOMAIN pvars : pvars[i].name = n THEN 0 ELSE -1

\* ocoms_mca_base_pvar_register: a new variable is listed in the group of its
\* component.  A name that is known redefines the variable that is found, and
\* makes it valid; it gets into no group.
RegisterPvar(d) ==
    LET found == FindByName(d.name) IN
    /\ IF found = -1
       THEN /\ Len(pvars) < MaxPvars
            /\ pvars' = Append(pvars, [name |-> d.name, d |-> d, valid |-> TRUE, group |-> d.owner])
            /\ UNCHANGED clobbered
       ELSE /\ pvars' = [pvars EXCEPT ![found + 1].d = d, ![found + 1].valid = TRUE]
            /\ clobbered' = (clobbered \/ pvars[found + 1].d # d)
    /\ UNCHANGED <<underlying, handles, expected>>

\* ocoms_mca_base_pvar_mark_invalid of what the group of a component lists, by
\* ocoms_mca_base_var_group_deregister when it is unloaded; the list is emptied.
\* All are registered by ocoms_mca_base_component_pvar_register, which sets
\* MCA_BASE_PVAR_FLAG_IWG.
Unlisted == "none"
MarkInvalid(c) ==
    /\ \E i \in DOMAIN pvars : pvars[i].group = c
    /\ pvars' = [i \in DOMAIN pvars |->
                   IF pvars[i].group # c THEN pvars[i]
                   ELSE [pvars[i] EXCEPT !.valid = FALSE, !.group = Unlisted]]
    /\ UNCHANGED <<underlying, handles, expected, clobbered>>

\* The component counts on, whoever is looking.
Change(d, v) ==
    /\ v # underlying[d]
    /\ underlying' = [underlying EXCEPT ![d] = v]
    /\ expected' = [h \in Handles |->
                      IF Bound(h) /\ handles[h].started /\ VarOf(h).d = d
                      THEN Wrap(expected[h] + v - underlying[d]) ELSE expected[h]]
    /\ UNCHANGED <<pvars, handles, clobbered>>

-----------------------------------------------------------------------------
(* Handles *)

\* ocoms_mca_base_pvar_handle_alloc: a continuous variable is started, with
\* its reading as the base of a sum and as the first value of a watermark.
HandleAlloc(h, i) ==
    LET v == pvars[i + 1] IN
    /\ ~Bound(h) /\ v.valid
    /\ handles' = [handles EXCEPT ![h] =
         [pvar |-> i, started |-> v.d.continuous,
          current |-> IF v.d.continuous /\ IsWatermark(v.d) THEN underlying[v.d] ELSE 0,
          last |-> IF v.d.continuous /\ IsSum(v.d) THEN underlying[v.d] ELSE 0]]
    /\ expected' = [expected EXCEPT ![h] = 0]
    /\ UNCHANGED <<pvars, underlying, clobbered>>

\* The handle destructor, also called for all handles of a session that ends.
HandleFree(hs) ==
    /\ \E h \in hs : Bound(h)
    /\ handles' = [h \in Handles |-> IF h \in hs THEN Unbound ELSE handles[h]]
    /\ expected' = [h \in Handles |-> IF h \in hs THEN 0 ELSE expected[h]]
    /\ UNCHANGED <<pvars, underlying, clobbered>>

\* Mutant: last_value and tmp_value are not exchanged.
UpdatedOnce(h) ==
    [handles[h] EXCEPT !.current = Wrap(@ + Reading(h) - handles[h].last)]

\* ocoms_mca_base_pvar_handle_update of a valid variable
Updated(h) ==
    LET d == VarOf(h).d
        r == handles[h] IN
    CASE ~r.started \/ (d.continuous /\ ~IsSum(d) /\ ~IsWatermark(d)) -> r
      [] r.started /\ IsSum(d) ->
           [r EXCEPT !.current = Wrap(@ + Reading(h) - r.last), !.last = Reading(h)]
      [] r.started /\ d.class = "LOWWATERMARK" ->
           [r EXCEPT !.current = Min({@, Reading(h)})]
      [] r.started /\ d.class = "HIGHWATERMARK" ->
           [r EXCEPT !.current = Max({@, Reading(h)})]
      [] OTHER -> [r EXCEPT !.current = Reading(h)]

HandleUpdate(h) ==
    /\ Bound(h) /\ VarOf(h).valid
    /\ handles' = [handles EXCEPT ![h] = Updated(h)]
    /\ UNCHANGED <<pvars, underlying, expected, clobbered>>

\* ocoms_mca_base_pvar_update_all_handles
UpdateAllHandles(i) ==
    /\ pvars[i + 1].valid
    /\ handles' = [h \in Handles |->
                     IF handles[h].pvar = i THEN Updated(h) ELSE handles[h]]
    /\ UNCHANGED <<pvars, underlying, expected, clobbered>>

\* What ocoms_mca_base_pvar_handle_read_value returns, after its update.
ReadValue(h) ==
    LET d == VarOf(h).d IN
    IF IsSum(d) \/ IsWatermark(d) \/ ~handles[h].started THEN Updated(h).current
    ELSE Reading(h)

\* ocoms_mca_base_pvar_handle_write_value: the value of the handle, not of the
\* variable.  A continuous variable other than a sum or a watermark has none:
\* the code copies to NULL, and no handle is written here.
HandleWrite(h, v) ==
    /\ Bound(h) /\ VarOf(h).valid /\ ~VarOf(h).d.readonly
    /\ VarOf(h).d.continuous => IsSum(VarOf(h).d) \/ IsWatermark(VarOf(h).d)
    /\ handles' = [handles EXCEPT ![h] = [Updated(h) EXCEPT !.current = v]]
    /\ expected' = [expected EXCEPT ![h] = v]
    /\ UNCHANGED <<pvars, underlying, clobbered>>

\* Mutant: a sum goes on from where it was stopped.
StartedWhereStopped(h) == [handles[h] EXCEPT !.started = TRUE]

\* ocoms_mca_base_pvar_handle_start
Started(h) ==
    [handles[h] EXCEPT
       !.started = TRUE,
       !.last = IF IsSum(VarOf(h).d) THEN Reading(h) ELSE @,
       !.current = IF IsWatermark(VarOf(h).d) THEN Reading(h) ELSE @]

HandleStart(h) ==
    /\ Bound(h) /\ VarOf(h).valid
    /\ ~VarOf(h).d.continuous /\ ~handles[h].started
    /\ handles' = [handles EXCEPT ![h] = Started(h)]
    /\ UNCHANGED <<pvars, underlying, expected, clobbered>>

\* ocoms_mca_base_pvar_handle_stop
HandleStop(h) ==
    /\ Bound(h) /\ VarOf(h).valid
    /\ ~VarOf(h).d.continuous /\ handles[h].started
    /\ handles' = [handles EXCEPT ![h] = [Updated(h) EXCEPT !.started = FALSE]]
    /\ UNCHANGED <<pvars, underlying, expected, clobbered>>

\* ocoms_mca_base_pvar_handle_reset
HandleReset(h) ==
    LET d == VarOf(h).d
        r == handles[h] IN
    /\ Bound(h) /\ VarOf(h).valid
    /\ IsSum(d) \/ (IsWatermark(d) /\ r.started)
    /\ handles' = [handles EXCEPT ![h] =
         IF IsSum(d) THEN [r EXCEPT !.current = 0, !.last = IF r.started THEN Reading(h) ELSE @]
         ELSE [r EXCEPT !.current = Reading(h)]]
    /\ expected' = [expected EXCEPT ![h] = 0]
    /\ UNCHANGED <<pvars, underlying, clobbered>>

-----------------------------------------------------------------------------
PvarInit ==
    /\ pvars = <<>>
    /\ underlying = [d \in PvarDeclarations |-> 0]
    /\ handles = [h \in Handles |-> Unbound]
    /\ expected = [h \in Handles |-> 0]
    /\ clobbered = FALSE

PvarNext ==
    \/ \E d \in PvarDeclarations : RegisterPvar(d) \/ \E v \in Values : Change(d, v)
    \/ \E c \in {d.owner : d \in PvarDeclarations} : MarkInvalid(c)
    \/ \E h \in Handles :
          \/ \E i \in 0..(Len(pvars) - 1) : HandleAlloc(h, i)
          \/ HandleUpdate(h) \/ HandleStart(h) \/ HandleStop(h) \/ HandleReset(h)
          \/ \E v \in Values : HandleWrite(h, v)
          \/ HandleFree({h})
    \/ HandleFree(Handles)
    \/ \E i \in 0..(Len(pvars) - 1) : UpdateAllHandles(i)

PvarSpec == PvarInit /\ [][PvarNext]_pvarVars

-----------------------------------------------------------------------------
\* Through any starts, stops, resets, writes and updates, and with the variable
\* wrapping around, a handle of a sum reads what the variable has grown by
\* while the handle was running, since it was last reset or written; unless
\* one was registered again as another one.
SumsWhatHappened ==
    ~clobbered => \A h \in Handles :
       Bound(h) /\ VarOf(h).valid /\ IsSum(VarOf(h).d) => ReadValue(h) = expected[h]

\* A variable keeps the name, class and source it was registered with.
KeepsItsMeaning == \A i \in DOMAIN pvars : pvars[i].d.name = pvars[i].name
=============================================================================
