---------------------------- MODULE ObjectClass ----------------------------
(***************************************************************************)
(* The object system (ocoms/util/ocoms_object.{h,c}): class descriptors    *)
(* that are initialized when the first object is made, by whichever thread *)
(* comes first (checked, locked, checked again), and objects with an       *)
(* atomic reference count whose last release runs the destructors.         *)
(*                                                                         *)
(* A constructor or destructor is named by its class; cls_construct_array  *)
(* is a sequence of them, without its end marker.  The array is written    *)
(* and cls_initialized is set by plain stores, and the first check is a    *)
(* plain load: with StoreOrder FALSE a reader may see them in the other    *)
(* order, as compilers and the weakly ordered machines ocoms/sys supports  *)
(* allow; with TRUE it does not.                                           *)
(***************************************************************************)
EXTENDS Integers, Sequences, FiniteSets, SequencesExt

CONSTANTS ObjectThreads, Objects, Classes,
          BaseClass,        \* ocoms_object_t_class
          Parent,           \* cls_parent of every class
          HasConstruct, HasDestruct,  \* classes with a function of their own
          Nobody,           \* the holder of a free class_lock
          increment,        \* by which the array of classes grows
          StoreOrder

AllClasses == Classes \cup {BaseClass}

NoClass == "no class"        \* of an object that does not exist

ASSUME ObjectAssumption ==
    /\ BaseClass \notin Classes /\ Nobody \notin ObjectThreads
    /\ NoClass \notin Classes /\ 0 \notin Objects
    /\ Parent \in [Classes -> AllClasses]
    /\ HasConstruct \subseteq Classes /\ HasDestruct \subseteq Classes
    /\ increment \in Nat \ {0}
    /\ StoreOrder \in BOOLEAN

VARIABLES
    cls_initialized,
    cls_construct_array, cls_destruct_array,
    class_lock,
    classes, max_classes,    \* the arrays to free in the end; room for them
    finalized,               \* ocoms_class_finalize was called
    object_pc, cls, object,  \* per thread: where it is, for which class/object
    todo,                    \* stores of ocoms_class_initialize still to be seen
    obj_class, obj_reference_count,
    refs,                    \* references each thread has to each object
    constructed, destructed  \* the functions that were run on each object

desc == <<cls_initialized, cls_construct_array, cls_destruct_array>>
table == <<classes, max_classes, finalized>>
heap == <<obj_class, obj_reference_count, refs, constructed, destructed>>
objectVars == <<desc, class_lock, table, object_pc, cls, object, todo, heap>>

Garbage == <<"garbage">>     \* what malloc returns, or what free leaves

ObjectInit ==
    /\ cls_initialized = [c \in Classes |-> 0]
    /\ cls_construct_array = [c \in Classes |-> Garbage]
    /\ cls_destruct_array = [c \in Classes |-> Garbage]
    /\ class_lock = Nobody
    /\ classes = <<>> /\ max_classes = 0 /\ finalized = FALSE
    /\ object_pc = [t \in ObjectThreads |-> "idle"]
    /\ cls \in [ObjectThreads -> {NoClass}] /\ object \in [ObjectThreads -> {0}]
    /\ todo = [t \in ObjectThreads |-> {}]
    /\ obj_class = [o \in Objects |-> NoClass]
    /\ obj_reference_count = [o \in Objects |-> 0]
    /\ refs = [t \in ObjectThreads |-> [o \in Objects |-> 0]]
    /\ constructed = [o \in Objects |-> <<>>]
    /\ destructed = [o \in Objects |-> <<>>]

ObjectGoto(t, l, m) ==
    /\ object_pc[t] = l
    /\ object_pc' = [object_pc EXCEPT ![t] = m]

\* The class and its parents, the class first: what the loops of
\* ocoms_class_initialize walk.
Ancestry(c) ==
    LET up[n \in Nat] == IF n = 0 THEN <<c>>
                         ELSE IF Last(up[n - 1]) = BaseClass THEN up[n - 1]
                         ELSE Append(up[n - 1], Parent[Last(up[n - 1])])
    IN up[Cardinality(Classes)]

\* Constructors are written from the end of their array, so they run from the
\* outermost parent down; destructors run the other way.
Constructors(c) == Reverse(SelectSeq(Ancestry(c), LAMBDA k : k \in HasConstruct))
Destructors(c) == SelectSeq(Ancestry(c), LAMBDA k : k \in HasDestruct)

-----------------------------------------------------------------------------
(* ocoms_obj_new and OBJ_CONSTRUCT; o is memory nobody uses.                *)

New(t, o, c) ==
    /\ ~finalized
    /\ obj_class[o] = NoClass /\ \A s \in ObjectThreads : object[s] # o
    /\ ObjectGoto(t, "idle", IF cls_initialized[c] = 0 THEN "init_check" ELSE "construct")
    /\ cls' = [cls EXCEPT ![t] = c]
    /\ object' = [object EXCEPT ![t] = o]
    /\ UNCHANGED <<desc, class_lock, table, todo, heap>>

\* obj_class, obj_reference_count = 1 and ocoms_obj_run_constructors.
Construct(t) ==
    /\ ObjectGoto(t, "construct", "idle")
    /\ obj_class' = [obj_class EXCEPT ![object[t]] = cls[t]]
    /\ obj_reference_count' = [obj_reference_count EXCEPT ![object[t]] = 1]
    /\ refs' = [refs EXCEPT ![t][object[t]] = 1]
    /\ constructed' = [constructed EXCEPT ![object[t]] = cls_construct_array[cls[t]]]
    /\ destructed' = [destructed EXCEPT ![object[t]] = <<>>]
    /\ object' = [object EXCEPT ![t] = 0]
    /\ UNCHANGED <<desc, class_lock, table, cls, todo>>

-----------------------------------------------------------------------------
(* ocoms_class_initialize *)

\* The check before the lock...
InitCheck(t) ==
    /\ ObjectGoto(t, "init_check",
            IF cls_initialized[cls[t]] = 1 THEN "construct" ELSE "init_lock")
    /\ UNCHANGED <<desc, class_lock, table, cls, object, todo, heap>>

\* ... and the one after it.
InitLock(t) ==
    /\ class_lock = Nobody
    /\ class_lock' = t
    /\ ObjectGoto(t, "init_lock", "init_recheck")
    /\ UNCHANGED <<desc, table, cls, object, todo, heap>>

\* Mutant: no check after the lock.
InitUnchecked(t) ==
    /\ ObjectGoto(t, "init_recheck", "init_store")
    /\ todo' = [todo EXCEPT ![t] = {"fill", "publish"}]
    /\ UNCHANGED <<desc, class_lock, table, cls, object, heap>>

InitRecheck(t) ==
    /\ ObjectGoto(t, "init_recheck",
            IF cls_initialized[cls[t]] = 1 THEN "init_unlock" ELSE "init_store")
    /\ todo' = [todo EXCEPT ![t] =
                  IF cls_initialized[cls[t]] = 1 THEN {} ELSE {"fill", "publish"}]
    /\ UNCHANGED <<desc, class_lock, table, cls, object, heap>>

\* The arrays of constructors and destructors become visible.
InitFill(t) ==
    /\ object_pc[t] = "init_store" /\ "fill" \in todo[t]
    /\ cls_construct_array' =
         [cls_construct_array EXCEPT ![cls[t]] = Constructors(cls[t])]
    /\ cls_destruct_array' =
         [cls_destruct_array EXCEPT ![cls[t]] = Destructors(cls[t])]
    /\ todo' = [todo EXCEPT ![t] = @ \ {"fill"}]
    /\ UNCHANGED <<cls_initialized, class_lock, table, object_pc, cls, object, heap>>

\* Mutant: cls_initialized is set first.
InitPublishFirst(t) ==
    /\ object_pc[t] = "init_store" /\ "publish" \in todo[t]
    /\ cls_initialized' = [cls_initialized EXCEPT ![cls[t]] = 1]
    /\ todo' = [todo EXCEPT ![t] = @ \ {"publish"}]
    /\ UNCHANGED <<cls_construct_array, cls_destruct_array, class_lock, table,
                   object_pc, cls, object, heap>>

\* So does cls_initialized = 1, later in the code.
InitPublish(t) ==
    /\ object_pc[t] = "init_store" /\ "publish" \in todo[t]
    /\ StoreOrder => "fill" \notin todo[t]
    /\ cls_initialized' = [cls_initialized EXCEPT ![cls[t]] = 1]
    /\ todo' = [todo EXCEPT ![t] = @ \ {"publish"}]
    /\ UNCHANGED <<cls_construct_array, cls_destruct_array, class_lock, table,
                   object_pc, cls, object, heap>>

\* save_class, with expand_array when there is no room.
SaveClass(t) ==
    /\ todo[t] = {}
    /\ ObjectGoto(t, "init_store", "init_unlock")
    /\ classes' = Append(classes, cls[t])
    /\ max_classes' = IF Len(classes) >= max_classes
                      THEN max_classes + increment ELSE max_classes
    /\ UNCHANGED <<desc, class_lock, finalized, cls, object, todo, heap>>

\* Mutant: the lock is kept.
InitUnlockForgotten(t) ==
    /\ ObjectGoto(t, "init_unlock", "construct")
    /\ UNCHANGED <<desc, class_lock, table, cls, object, todo, heap>>

InitUnlock(t) ==
    /\ ObjectGoto(t, "init_unlock", "construct")
    /\ class_lock' = Nobody
    /\ UNCHANGED <<desc, table, cls, object, todo, heap>>

-----------------------------------------------------------------------------
(* OBJ_RETAIN and OBJ_RELEASE, by threads that have a reference.            *)

\* Mutant: the reference is not counted.
RetainUncounted(t, s, o) ==
    /\ object_pc[t] = "idle" /\ refs[t][o] > 0
    /\ refs[s][o] = 0
    /\ refs' = [refs EXCEPT ![s][o] = @ + 1]
    /\ UNCHANGED <<desc, class_lock, table, object_pc, cls, object, todo, obj_class,
                   obj_reference_count, constructed, destructed>>

\* Thread t takes a reference, for itself or to hand it to thread s.
Retain(t, s, o) ==
    /\ object_pc[t] = "idle" /\ refs[t][o] > 0
    /\ refs[s][o] = 0
    /\ obj_reference_count' = [obj_reference_count EXCEPT ![o] = @ + 1]
    /\ refs' = [refs EXCEPT ![s][o] = @ + 1]
    /\ UNCHANGED <<desc, class_lock, table, object_pc, cls, object, todo, obj_class,
                   constructed, destructed>>

\* Mutant: the destructors run when one reference is left.
ReleaseEarly(t, o) ==
    /\ refs[t][o] > 0
    /\ obj_reference_count' = [obj_reference_count EXCEPT ![o] = @ - 1]
    /\ refs' = [refs EXCEPT ![t][o] = @ - 1]
    /\ \/ /\ obj_reference_count[o] <= 2
          /\ ObjectGoto(t, "idle", "destruct")
          /\ object' = [object EXCEPT ![t] = o]
       \/ /\ obj_reference_count[o] > 2
          /\ ObjectGoto(t, "idle", "idle")
          /\ UNCHANGED object
    /\ UNCHANGED <<desc, class_lock, table, cls, todo, obj_class, constructed,
                   destructed>>

\* The atomic add tells the one that dropped the last reference.
Release(t, o) ==
    /\ refs[t][o] > 0
    /\ obj_reference_count' = [obj_reference_count EXCEPT ![o] = @ - 1]
    /\ refs' = [refs EXCEPT ![t][o] = @ - 1]
    /\ \/ /\ obj_reference_count[o] = 1
          /\ ObjectGoto(t, "idle", "destruct")
          /\ object' = [object EXCEPT ![t] = o]
       \/ /\ obj_reference_count[o] # 1
          /\ ObjectGoto(t, "idle", "idle")
          /\ UNCHANGED object
    /\ UNCHANGED <<desc, class_lock, table, cls, todo, obj_class, constructed,
                   destructed>>

\* ocoms_obj_run_destructors, and the memory is free for another object.
Destruct(t) ==
    /\ ObjectGoto(t, "destruct", "idle")
    /\ destructed' = [destructed EXCEPT ![object[t]] =
                        @ \o cls_destruct_array[obj_class[object[t]]]]
    /\ obj_class' = [obj_class EXCEPT ![object[t]] = NoClass]
    /\ object' = [object EXCEPT ![t] = 0]
    /\ UNCHANGED <<desc, class_lock, table, cls, todo, obj_reference_count,
                   refs, constructed>>

\* ocoms_class_finalize, "the ABSOLUTE LAST function to use the class
\* subsystem": the arrays are freed, and cls_initialized stays as it is.
ClassFinalize ==
    /\ ~finalized
    /\ \A t \in ObjectThreads : object_pc[t] = "idle"
    /\ \A o \in Objects : obj_class[o] = NoClass
    /\ finalized' = TRUE
    /\ cls_construct_array' =
         [c \in Classes |-> IF c \in ToSet(classes) THEN Garbage
                            ELSE cls_construct_array[c]]
    /\ cls_destruct_array' =
         [c \in Classes |-> IF c \in ToSet(classes) THEN Garbage
                            ELSE cls_destruct_array[c]]
    /\ classes' = <<>> /\ max_classes' = 0
    /\ UNCHANGED <<cls_initialized, class_lock, object_pc, cls, object, todo, heap>>

-----------------------------------------------------------------------------
ObjectStep(t) ==
    \/ InitCheck(t) \/ InitLock(t) \/ InitRecheck(t) \/ InitFill(t)
    \/ InitPublish(t) \/ SaveClass(t) \/ InitUnlock(t)
    \/ Construct(t) \/ Destruct(t)

ObjectCall(t) ==
    \E o \in Objects :
       \/ \E c \in Classes : New(t, o, c)
       \/ \E s \in ObjectThreads : Retain(t, s, o)
       \/ Release(t, o)

ObjectNext == (\E t \in ObjectThreads : ObjectStep(t) \/ ObjectCall(t)) \/ ClassFinalize

ObjectSpec == ObjectInit /\ [][ObjectNext]_objectVars

\* A thread inside a call goes on when it can.  The spinlock class_lock is
\* granted in no particular order.
ObjectFairSpec == ObjectSpec /\ \A t \in ObjectThreads : WF_objectVars(ObjectStep(t))

-----------------------------------------------------------------------------
ObjectTypeOK ==
    /\ cls_initialized \in [Classes -> {0, 1}]
    /\ class_lock \in ObjectThreads \cup {Nobody}
    /\ classes \in Seq(Classes) /\ max_classes \in Nat
    /\ object_pc \in [ObjectThreads ->
          {"idle", "init_check", "init_lock", "init_recheck", "init_store",
           "init_unlock", "construct", "destruct"}]
    /\ object \in [ObjectThreads -> Objects \cup {0}]
    /\ obj_class \in [Objects -> Classes \cup {NoClass}]
    /\ obj_reference_count \in [Objects -> Nat]
    /\ refs \in [ObjectThreads -> [Objects -> Nat]]

\* Every object was constructed by the constructors of its class and of all its
\* parents, the outermost first, even when several threads make the first
\* objects of a class at the same time.
ConstructedFully ==
    \A o \in Objects :
       obj_class[o] # NoClass => constructed[o] = Constructors(obj_class[o])

\* A class gets one pair of arrays, and the array of classes has a place for
\* each of them: none is leaked, none is freed twice in the end.
ClassesSavedOnce ==
    /\ \A j, k \in 1..Len(classes) : classes[j] = classes[k] => j = k
    /\ Len(classes) <= max_classes
    /\ ~finalized /\ class_lock = Nobody =>
          \A c \in Classes : cls_initialized[c] = 1 <=> c \in ToSet(classes)

\* The references threads have keep the object alive, and the last release
\* destructs it, once.
Holders(o) == {t \in ObjectThreads : refs[t][o] > 0}
CountsReferences ==
    \A o \in Objects :
       /\ obj_reference_count[o] = Cardinality(Holders(o))
       /\ obj_class[o] # NoClass /\ Holders(o) = {} =>
             Cardinality({t \in ObjectThreads :
                            object_pc[t] = "destruct" /\ object[t] = o}) = 1
       /\ Holders(o) # {} => obj_class[o] # NoClass /\ destructed[o] = <<>>

ObjectsAreSound ==
    ObjectTypeOK /\ ConstructedFully /\ ClassesSavedOnce /\ CountsReferences

\* No caller is left behind at the lock: every call returns.
ObjectCallsReturn == \A t \in ObjectThreads : object_pc[t] # "idle" ~> object_pc[t] = "idle"
=============================================================================
