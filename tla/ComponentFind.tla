--------------------------- MODULE ComponentFind ---------------------------
(***************************************************************************)
(* ocoms_mca_base_component_find (ocoms/mca/base/mca_base_component_find.c)*)
(* builds the list of a framework's components: the statically linked ones *)
(* first, then the files in the component path.  A file may come with an   *)
(* .ompi_info file that names the components it depends on; open_component *)
(* and check_dependency, which call each other, deal with those first.     *)
(* frames is their call stack.  Each call holds the .ompi_info file of the  *)
(* file it opens, so the descriptors of the process bound the stack; that  *)
(* many calls, of two buffers of BUFSIZ each, are taken to fit the memory  *)
(* for the stack.                                                          *)
(*                                                                         *)
(* The files are numbered in the order of found_files.  What is on the     *)
(* disk and what the user asked for is chosen once, in FindInit.           *)
(***************************************************************************)
EXTENDS Naturals, Sequences, SequencesExt

CONSTANTS NumFiles,
          Missing,           \* a component that there is no file for
          Disks,             \* what the .ompi_info files may say: for every
                             \* file, the sequence of its DEPENDENCY lines
          Selections,        \* the values of the framework's include
                             \* parameter: records of include_mode and names
          MaxOpenFiles       \* descriptors; with all in use neither fopen of
                             \* an .ompi_info file nor lt_dlopen succeeds

Files == 1..NumFiles

\* One file at least can be opened.
ASSUME FindAssumption ==
    /\ NumFiles \in Nat /\ MaxOpenFiles \in Nat \ {0}
    /\ Missing \notin Files
    /\ Disks \subseteq [Files -> Seq(Files \cup {Missing})]
    /\ Selections \subseteq
         [include_mode : BOOLEAN, names : SUBSET (Files \cup {Missing})]

VARIABLES
    depends,      \* the DEPENDENCY lines of every file
    kind,         \* "good", "broken": dlopen or a check of its struct fails,
                  \* "static": its component is also linked in statically
    include,
    file_status,  \* of every file
    found_components,
    links,        \* dependencies the repository knows: <<source, dependency>>
    cur,          \* the file find_dyn_components is at
    frames,       \* calls of open_component: the file, the line check_ompi_info
                  \* is at (0: not there yet), the dependencies collected, and
                  \* whether a call on behalf of that line has returned
    ret           \* what ocoms_mca_base_component_find returned

disk == <<depends, kind, include>>
findVars == <<disk, file_status, found_components, links, cur, frames, ret>>

\* use_component; no names means that everything is wanted.
use_component(c) ==
    \/ include.names = {}
    \/ include.include_mode <=> c \in include.names

\* The sequence of some files, in the order of the array of static components.
InStaticOrder(fs) ==
    {s \in BoundedSeq(Files, NumFiles) :
       ToSet(s) = fs /\ \A i, j \in DOMAIN s : i < j => s[i] < s[j]}

FindInit ==
    /\ depends \in Disks
    /\ kind \in [Files -> {"good", "broken", "static"}]
    /\ include \in Selections
    /\ file_status = [f \in Files |-> "UNVISITED"]
    /\ found_components \in InStaticOrder({f \in Files : kind[f] = "static" /\ use_component(f)})
    /\ links = {}
    /\ cur = 1
    /\ frames = <<>>
    /\ ret = "none"

Frame(f) == [file |-> f, line |-> 0, deps |-> <<>>, loaded |-> FALSE]

top == Last(frames)

\* Mutant: only the innermost call fails, and the file is not marked.
FailUnmarked ==
    /\ frames' = Front(frames)
    /\ UNCHANGED <<disk, file_status, found_components, links, cur, ret>>

\* open_component returns an error, and the file has failed.  Its caller is
\* check_dependency for the same file, which fails in turn, all the way down.
Fail ==
    /\ file_status' = [file_status EXCEPT ![top.file] = "FAILED_TO_LOAD"]
    /\ frames' = <<>>
    /\ UNCHANGED <<disk, found_components, links, cur, ret>>

-----------------------------------------------------------------------------
(* find_dyn_components: every file that no dependency has led to yet.       *)

VisitFile ==
    /\ frames = <<>> /\ cur <= NumFiles
    /\ cur' = cur + 1
    /\ LET wanted == file_status[cur] = "UNVISITED" /\ use_component(cur) IN
       /\ frames' = IF wanted THEN <<Frame(cur)>> ELSE <<>>
       /\ file_status' = IF file_status[cur] = "UNVISITED"
                         THEN [file_status EXCEPT ![cur] = "CHECKING_CYCLE"] ELSE file_status
    /\ UNCHANGED <<disk, found_components, links, ret>>

\* The beginning of open_component: the component may be there already, linked
\* in statically.  If not, the .ompi_info file is read from its first line,
\* unless it cannot be opened: then there are no dependencies to look at.
OpenBegin ==
    /\ frames # <<>> /\ top.line = 0
    /\ \/ /\ top.file \in ToSet(found_components)
          /\ Fail
       \/ /\ top.file \notin ToSet(found_components)
          /\ frames' = [frames EXCEPT ![Len(frames)].line =
                          IF Len(frames) > MaxOpenFiles
                          THEN Len(depends[top.file]) + 1 ELSE 1]
          /\ UNCHANGED <<disk, file_status, found_components, links, cur, ret>>

-----------------------------------------------------------------------------
(* check_ompi_info and check_dependency, for one line of the file.          *)

AtLine == frames # <<>> /\ top.line \in 1..Len(depends[top.file])
Dependency == depends[top.file][top.line]

\* Mutant: a dependency there is no file for is passed over.
StatusOrLoaded(d) == IF d = Missing THEN "LOADED" ELSE file_status[d]

\* A dependency there is no file for is as good as one that failed.
StatusOf(d) == IF d = Missing THEN "FAILED_TO_LOAD" ELSE file_status[d]

\* check_dependency marks the file before it looks for the dependency.
Marked == [file_status EXCEPT ![top.file] = "CHECKING_CYCLE"]

\* Mutant: only the first DEPENDENCY line counts.
FirstLineOnly(d) ==
    [frames EXCEPT ![Len(frames)] =
       [@ EXCEPT !.line = Len(depends[top.file]) + 1, !.deps = Append(@, d),
                 !.loaded = FALSE]]

\* Mutant: the list of dependencies is started anew at every line.
NextLineAnew(d) ==
    [frames EXCEPT ![Len(frames)] =
       [@ EXCEPT !.line = @ + 1, !.deps = <<d>>, !.loaded = FALSE]]

\* The next line, the dependency of this one being satisfied.
NextLine(d) ==
    [frames EXCEPT ![Len(frames)] =
       [top EXCEPT !.line = top.line + 1, !.deps = Append(top.deps, d), !.loaded = FALSE]]

\* It is the file itself, it is loaded, or a call to load it has succeeded.
DependencySatisfied ==
    /\ AtLine
    /\ \/ Dependency = top.file
       \/ StatusOf(Dependency) = "LOADED"
       \/ top.loaded
    /\ frames' = NextLine(Dependency)
    /\ file_status' = IF top.loaded THEN file_status ELSE Marked
    /\ UNCHANGED <<disk, found_components, links, cur, ret>>

\* There is no such file, it failed before, or it waits for its own
\* dependencies: a cycle.  A file that is not wanted looks the same as that.
DependencyFails ==
    /\ AtLine /\ ~top.loaded
    /\ Dependency # top.file
    /\ StatusOf(Dependency) \in {"FAILED_TO_LOAD", "CHECKING_CYCLE"}
    /\ Fail

\* It has not been looked at yet: open_component is called, for target_file.
DependencyUnvisited ==
    /\ AtLine /\ ~top.loaded
    /\ Dependency # top.file
    /\ StatusOf(Dependency) = "UNVISITED"
    /\ file_status' = Marked
    /\ frames' = Append(frames, Frame(top.file))
    /\ UNCHANGED <<disk, found_components, links, cur, ret>>

-----------------------------------------------------------------------------
(* The rest of open_component, all dependencies being satisfied.            *)

AtLoad == frames # <<>> /\ top.line > Len(depends[top.file])

\* The callers have all the descriptors that lt_dlopen could use.
OutOfFiles == Len(frames) > MaxOpenFiles

\* lt_dlopen or lt_dlsym fails, or the struct has another version or name.
LoadFails ==
    /\ AtLoad
    /\ kind[top.file] = "broken" \/ OutOfFiles
    /\ Fail

\* The component is added to the list and to the repository, and linked to
\* those of its dependencies that the repository has.
Load ==
    /\ AtLoad
    /\ kind[top.file] # "broken" /\ ~OutOfFiles
    /\ found_components' = Append(found_components, top.file)
    /\ links' = links \cup
         {<<top.file, d>> : d \in {c \in ToSet(top.deps) :
                                     c = top.file \/ file_status[c] = "LOADED"}}
    /\ file_status' = [file_status EXCEPT ![top.file] = "LOADED"]
    /\ frames' = LET callers == Front(frames) IN
                 IF callers = <<>> THEN <<>>
                 ELSE [callers EXCEPT ![Len(callers)].loaded = TRUE]
    /\ UNCHANGED <<disk, cur, ret>>

-----------------------------------------------------------------------------
\* component_find_check is called, and what it returns is overwritten.
FindReturn ==
    /\ frames = <<>> /\ cur > NumFiles /\ ret = "none"
    /\ ret' = "OCOMS_SUCCESS"
    /\ UNCHANGED <<disk, file_status, found_components, links, cur, frames>>

FindNext ==
    \/ VisitFile \/ OpenBegin
    \/ DependencySatisfied \/ DependencyFails \/ DependencyUnvisited
    \/ LoadFails \/ Load
    \/ FindReturn

\* The call goes on until it returns.
FindSpec == FindInit /\ [][FindNext]_findVars /\ WF_findVars(FindNext)

-----------------------------------------------------------------------------
FindTypeOK ==
    /\ file_status \in [Files -> {"UNVISITED", "CHECKING_CYCLE", "FAILED_TO_LOAD",
                                  "LOADED"}]
    /\ found_components \in Seq(Files)
    /\ links \subseteq Files \X Files
    /\ cur \in 1..(NumFiles + 1)
    /\ Len(frames) <= MaxOpenFiles + 1
    /\ \A k \in 1..Len(frames) :
          /\ frames[k].file \in Files
          /\ frames[k].line \in 0..(Len(depends[frames[k].file]) + 1)
          /\ frames[k].deps \in Seq(Files)
    /\ ret \in {"none", "OCOMS_SUCCESS"}

Done == ret # "none"

\* The files loaded in the end are exactly those that are wanted, not broken, not
\* there already, and have all they depend on loaded, from files that come before
\* them: a failure reaches all the files that depend on the one that failed and no
\* others, a cycle fails as a whole, and the call for a dependency that has not been
\* looked at, which opens the dependent file over and over, leaves nothing loaded
\* and no later file in doubt.  No component is on the list twice, those linked in
\* statically included.
LoadedFiles == {f \in Files : file_status[f] = "LOADED"}
LoadsTheLoadable ==
    Done =>
       /\ LoadedFiles = {f \in Files :
                           /\ use_component(f) /\ kind[f] = "good"
                           /\ \A d \in ToSet(depends[f]) \ {f} : d \in LoadedFiles /\ d < f}
       /\ IsInjective(found_components)

LinkedToAll(f) ==
    \A d \in ToSet(depends[f]) : <<f, d>> \in links /\ d \in ToSet(found_components)

\* At any time a loaded file's dependencies are loaded, and the repository has been
\* told, so that none of them is closed before the file.
LoadedAreLinked ==
    \A f \in Files : file_status[f] = "LOADED" => LinkedToAll(f)

\* Exactly the loadable files are loaded, each linked to all its dependencies.
FindLoadsTheLoadable == FindTypeOK /\ LoadsTheLoadable /\ LoadedAreLinked

\* open_component promises to load a component, "chasing down its dependencies first,
\* if possible", and check_dependency, of one that "has not been looked at yet. Go
\* try to load it": whatever the order of the files, one whose dependencies are all
\* loaded in the end is loaded.
LoadableAreLoaded ==
    Done => \A f \in Files :
       /\ use_component(f) /\ kind[f] = "good"
       /\ ToSet(depends[f]) \ {f} \subseteq LoadedFiles
       => f \in LoadedFiles

\* The search comes to an end, whatever the dependencies: the recursion for one that
\* has not been looked at by the descriptors it uses up.
Terminates == <>Done
=============================================================================
