# libocoms in TLA+

libocoms is the portability and infrastructure layer of an MPI collective
library: containers, an object system with reference counts, threads and atomic
operations, the Modular Component Architecture (MCA) that finds, loads and
configures plug-ins, output streams, a datatype engine and a data store. This
directory holds a TLA+ model of its core logic, TLC configurations that check the
model on small instances, and TLAPS proofs of central properties for all instances.

    tlc -workers 2 -config FreeList.cfg MCFreeList     # one run
    tlapm AtomicLifo_proofs.tla                        # the proofs of a module

`PROJECT.json` lists the components, the runs, the source lines every definition
models, the mutants that show each property to be sensitive to the code, the hazards
of the code, and where code and documentation disagree.

## 1. Inventory

| Component | State | Operations | What is hard, and what correct means |
|---|---|---|---|
| Atomic LIFO (`util/ocoms_atomic_lifo.h`) | head, next pointers, `item_free` flags | push, pop | No lock: ABA, stale next pointers, flags given back by the wrong thread. It must be a stack, and lock-free. |
| Free list (`util/ocoms_free_list.*`) | an atomic LIFO, `fl_num_allocated`, `fl_num_waiting`, a mutex and a condition | GET, WAIT, RETURN, grow, resize | Pushes and pops bypass the mutex that protects growing and waiting. Limits hold, counts are exact, sleepers are woken, nobody deadlocks. |
| Atomic operations (`sys/`, `asm/`) | a word, a lock | compare-and-set, swap, add, sub, spin lock | The ports put them together in four ways. Each must look like one step; the lock excludes. |
| Mutex and condition (`threads/`) | mutex, `c_waiting`, `c_signaled` | wait, timedwait, signal, broadcast | A build sleeps in the system or polls a counter, and one macro broadcasts without the mutex. No waiter of a broadcast under the mutex is left behind. |
| Object system (`util/ocoms_object.*`) | class descriptors, arrays of constructors, reference counts | OBJ_NEW, RETAIN, RELEASE, class_finalize | Double-checked initialization; racing releases. Every object fully constructed, destructed once. |
| Memory hooks (`memoryhooks/`) | a list of callbacks, a spin lock | register, unregister, walk | The lock is given up around every callback. A walk reaches what was registered. |
| Pointer array (`util/ocoms_pointer_array.*`) | table, `size`, `number_free`, `lowest_free` | add, set, test-and-set, set_size, remove_all | Edges of growing; one reader without the lock. Counts and hint exact, no access outside the table. |
| Hash table (`util/ocoms_hash_table.c`) | elements in one array, size, growth trigger, type of keys | set, get, remove, remove_all, next key | Clusters that wrap around the end, gaps closed by moving followers, growth that fails. A search finds what was set, and ends. |
| List, red-black tree, bitmap, value array, graph (`util/`) | links, nodes, arrays | insert, remove, search, grow, splice, sort, shortest paths | Intricate sequential updates, failing reallocation. |
| Output streams (`util/output.c`) | table of streams, files, shared descriptors | open, reopen, output, close | Streams of one file share a descriptor, and half of each call is outside the mutex. Every line is in its file. |
| Datatype engine, convertor (`datatype/`) | descriptions, optimized descriptions, a stack of loops | create, add, commit, pack, unpack, set_position | A value is converted in pieces that may end anywhere. The pieces add up to the value. |
| Checksums (`util/crc.c`) | partial sum, incomplete word | partial sums and copies | A call may end inside a word. |
| Component repository (`mca/base/mca_base_component_repository.c`) | list of loaded files with counts and dependencies | retain, link, release, finalize | Destructors that run other destructors over the list the caller walks. Nothing used is unloaded, nothing unused stays. |
| Component find (`mca/base/mca_base_component_find.c`) | status of every file, list of components | find, open_component, check_dependency | Mutual recursion over a graph that may have cycles, in directory order. |
| Framework (`mca/base/mca_base_framework.c`, `mca_base_components_*.c`) | flags, reference count, component list | register, open, select, close | Any call may fail half-way; several users. |
| MCA variables, groups, enumerators (`mca/base/mca_base_var*.c`) | tables of variables and groups, storage in components | register, deregister, set_value, build_env | Precedence of sources, synonyms, lifetimes of storage. |
| Performance variables (`mca/base/mca_base_pvar.c`) | variables, handles | register, bind, start, stop, read, update, notify | Handles total the differences between readings of a value that wraps. |
| Command line (`util/cmd_line.c`, `mca_base_cmd_line.c`), argv, environment (`util/argv.c`, `ocoms_environ.c`) | options, parameters, tail; NULL-terminated vectors | parse; append, insert, delete, split, join, setenv | The parser rewrites the vector it walks. Each token is used once, each vector is terminated. |
| Data store (`dstore/`) | | open, close | Its store, fetch and remove are compiled out. |
| Parameter files, paths, interfaces, printf, info tool (`util/`, `mca/base/`) | | | Text and calls of the operating system. |

The components interact as follows. A free list *is* an atomic LIFO
(`fl->super`): `FreeList` uses the abstract operations of module `Lifo`, and
`AtomicLifo` is proved to implement `Lifo`. The nodes of a red-black tree come from a
free list. A framework calls component find, which puts files into the repository and
links their dependencies; the framework later releases them, and the unloading of a
component deregisters its group of variables. The command line fills the environment
that gives variables their initial values, and the variables are passed on in an
environment again. A convertor walks the optimized description that a commit of a
datatype derives, and sums what it moves. Every list item, component item and
repository entry is an object of the object system, and reference counts are added to
with the atomic operations.

## 2. Modules

| Module | Models | How |
|---|---|---|
| `Lifo` | what a LIFO promises | a sequence, and the thread that holds each item |
| `AtomicLifo` | push and pop | one action per access to shared memory; history variables `stack`, `owner` |
| `FreeList` | GET, WAIT, RETURN, resize, grow, init, destruct | one action per lock, pop, push or visible store; sleeping and waking follow `ocoms_condition_wait/signal/broadcast`, spurious wake-ups included |
| `Atomics` | compare-and-set, swap, add, sub, spin lock of every port | one action per access; `port` says which of the forms (instruction, load-linked/store-conditional, loop, lock) each operation has; `pc`, `call` and `seen` are where each thread is, what it does and what it has read; store-conditionals may fail for no reason |
| `Condition` | wait, timedwait, signal, broadcast, `OCOMS_ACQUIRE/RELEASE/WAKEUP_THREAD` | one action between two points where another thread that takes the mutex can run; `OCOMS_WAKEUP_THREAD`, which does not take it, is one action per access, and the look at the flag and the entry into the wait are two, so that it can come between; `build` says whether waiters sleep or poll and what the program calls |
| `ObjectClass` | class initialization, objects, finalize | one action per check, lock and store; `StoreOrder` says whether the stores of the initialization may be seen out of order |
| `MemoryHooks` | register, unregister, support, finalize, the walk | one action under the lock or per access outside it; `mishaps` records what a walk does to memory that is gone |
| `PointerArray` | all operations that change the array | one action per operation under the lock, two for one that grows the table, because `remove_all` looks at `number_free` and `size` without it |
| `HashTable` | set, get and remove for the three types of keys, growth, remove_all, traversal | one action per call; a removal is one action per element it reconsiders; `table_contents` is the history of what was set |
| `List` | append, prepend, insert, remove, splice, join, sort | one action per call; a sort may leave items of one rank in any order; `contents` follows the documentation of each call |
| `RBTree` | insert, find, delete, destroy, traverse | one action per turn of the loops that restore the colours; nill and the node above the root are nodes that are written to, as in the code |
| `Bitmap`, `ValueArray` | all operations | one action per call; realloc may fail |
| `Graph` | vertices, edges, Dijkstra's algorithm | one action per call; the algorithm is a recursive operator, compared with the weights of all simple paths |
| `Output` | open, reopen, output, switch, close | the part of a call under the mutex and the parts outside it are actions of their own |
| `Datatype` | create, add, contiguous, resize, clone, commit (with `ocoms_ddt_optimize`) | one action per call; `map`, the type map, is kept beside the description |
| `Convertor` | prepare, pack, unpack, raw, set_position, clone | one action per call, over any iovec; `moved` lists the bytes since the position `from`; packing without a buffer is left out, and unpacking from several iovecs of which one ends inside a value is the mishap `overrun` |
| `Csum` | the partial sums and CRCs | one action per call |
| `ComponentRepository` | retain, link, release, finalize | `destructors` is the stack of destructors that are running |
| `ComponentFind` | the scan, open_component, check_dependency | `frames` is the stack of calls of open_component, each of which holds a descriptor; with none left neither an .ompi_info file nor a component opens; what is on the disk is chosen in `FindInit` |
| `Framework` | register, open, select, close | one action per call and outcome; what components decline is chosen with `\E`; `accidents` records the two failures the code does not mend |
| `McaVar` | variables, groups, enumerators | one action per call; `world` is what the user has set where, and whether the bytes behind a bool, which is read as an int, are zero; chosen in `Init`. Names are joined with "_" as in the code. A registration that would store a text for an original that is deregistered ends the program and is no step |
| `Pvar` | performance variables and handles | one action per call; a group that is deregistered invalidates the variables in its list; `expected` is what a handle should read |
| `CommandLine` | the parser and the MCA options | one action per turn of the parser's loop; a handle may be parsed again, with a line of `LaterLines`, and forgets what it parsed before; a split whose parameters run out frees a block twice and stops the model (`double_free`) |
| `Argv` | argument vectors and environments | one action per call; strings are sequences of characters here, since splitting and joining are about them |
| `MC…` | what a run puts side by side, bounds and symmetry sets | |
| `…_proofs` | theorems | |

State variables carry the names of the struct fields they model. Text is a model value
or a record that says what it means (a number, a word, a path); only `Argv` looks at
characters.

`MCSynchronization`, `MCContainers`, `MCData` and `MCMca` each hold several components
that share no state. Their variable `which` is the component that moves in a behaviour,
chosen in the initial state, so a run is the sum of its parts and not their product.
The parts that theorems are about are extended, and a run names their own properties:
those of `AtomicLifo`, `Atomics`, `Condition`, `MemoryHooks` and `ObjectClass` in
`MCSynchronization`, of `PointerArray`, `HashTable` and `List` in `MCContainers`, of `Output` in
`MCData`, of `Framework`, `ComponentRepository`, `ComponentFind`, `McaVar` and `Pvar` in
`MCMca`. The other parts are instances, and a property of theirs is stated for the behaviours in which the
part moves.

Constants that are not parameters of the code bound the instance, give inputs, or
select what the environment may do. The bounds are the constants that are declared
with the word "bound" beside them. The selecting ones are:

- `AllocMayFail` (`FreeList`): TRUE in the run. A WAIT whose allocation failed goes
  to sleep below the limit; `unguarded` records it.
- `Reload`, `SelfLinks`, `FinalizeAnytime` (`ComponentRepository`): FALSE in the run.
  With `Reload`, opening a component that somebody else still retains makes a second
  entry of its name, and `NoUseAfterFree` fails. With `SelfLinks`, a component that
  depends on itself keeps itself loaded, and `NothingLeaks` fails. With
  `FinalizeAnytime`, finalize may find entries with more references than one and
  close a dependency first, and `DependenciesAreOpen` fails.
- `StoreOrder` (`ObjectClass`): TRUE in the run. With FALSE the stores of the class
  initialization may be seen out of order, and `ConstructedFully` fails: there is no
  barrier between the arrays and `cls_initialized`.
- `Ports` (`Atomics`): the forms of arm64 and its likes, of amd64, ia32 and the 32 bit
  sparc. ia64 is left out: its 64 bit compare-and-set returns the low half of what it
  read, and `OperationsAppearAtomic` fails with it (`MCIa64` is that port).
- `Builds` (`Condition`): a build that sleeps, with timedwait, its program with and
  without `OCOMS_WAKEUP_THREAD`; and one that polls with neither of the two, which lose
  wake-ups there. Where a program calls `OCOMS_WAKEUP_THREAD` a sleeper can be missed: a
  thread that has found the flag set enters the wait after the macro has read that one
  thread waits, and takes the only signal. `NobodyIsStranded` fails without its
  condition `~build.wakeup`, and the hazard at `condition.h` describes it.

Some modules keep a history variable of what has gone wrong that the code does not
notice: `accidents` (`Framework`, `Output`), `mishaps` (`MemoryHooks`, `Datatype`,
`Convertor`), `miscounted` (`List`), `clobbered` (`Pvar`), `missed` and `doubled` (`Argv`), `loose`
and `uncounted` (`Graph`), `failed` and `hung` (`ValueArray`). A property about what the
caller put in is stated for the behaviours without such an accident; each accident is in
the hazards or in a comment beside the action that records it.

`HashTable` has the 30 of `ocoms_hash_round_capacity_up` as constant `Round`; the run
uses 2, which gives capacities of 1, 3, 5, 11 instead of 1, 31, 91. `Bitmap`, `Csum`
and `Atomics` have the bits of a byte or word as a constant, and `Pvar` has the number of
values of the unsigned type (`Modulus`); the runs use two bits, so that a byte is full, a
sum carries and a counter wraps after a few calls. The 2^31 and
2^32 of `Graph` are 127 and 256 for the same reason.

What is abstracted: the contents of items and components, memory layout and
alignment, messages and verbosity. Memory is sequentially consistent except in
`ObjectClass` with `StoreOrder = FALSE`; the LIFO has its barriers. A store outside a
table is undefined behaviour and stops `PointerArray` with `overrun` set; a release of
freed memory is recorded in `dangling` of `ComponentRepository`.

## 3. Runs

Passing runs, each of them with every action of its modules taken:

`synchronization` (`MCSynchronization`)

- LIFO: the list is the stack at every memory access (`Represents`), the flag is held
  by one thread (`FlagIsOwnership`), it implements `Lifo` (`ImplementsLifo`) and is
  lock-free (`LockFree`). Three threads and three items are enough for ABA: one thread
  stalls between its read of the head and its compare-and-swap, another pops and pushes
  back the item, a third keeps the item below it.
- Objects: `ObjectsAreSound` (constructed by all classes in order, every class saved
  once, references counted) and `ObjectCallsReturn`; an inheritance chain of three
  classes one of which has no constructor, two threads and two objects.
- Atomic operations: `OperationsAppearAtomic` (what the word holds, and what each call
  returns, is explained by some order of the calls) and `LockExcludes`; two threads,
  three calls of any kind, a word of two bits that starts at its largest value, so that
  additions carry. Three calls are enough for one to come in between two of the other.
- Condition: `BroadcastReachesAll`; three threads, a wait that may time out or wake for
  no reason, in three builds: one that polls, and one that sleeps with programs that call
  `OCOMS_WAKEUP_THREAD` and that do not. Two waiters and one that wakes them are enough
  for a signal to reach the wrong one, or for a stale count to be stored. What is claimed
  everywhere is about the broadcast under the mutex (`ReleaseReachesAll`) and the counts;
  that nobody waits for a resource that is free is claimed without the macro only.
- Hooks: `WalksReachCallbacks`; two threads, two callbacks, three items, so that an
  item is freed and its memory used again under a walk.

`containers` (`MCContainers`)

- Pointer array: `CountsFree`, `LowestIsFree`, `NoOverrun`, `Reserves`. The table grows
  from 2 slots twice before it reaches its maximum of 6, so every branch of grow_table
  is taken, and indices go up to the maximum.
- Hash table: `TableFindsWhatWasSet`, `RemovalEnds`. Integer keys with four different
  clusters in tables of 3, 5 and 11, some around the end; pointer keys of the same hash
  and different lengths. Growth may fail at any insertion, so full tables are reached,
  in which removals still work and searches for absent keys do not end.
- List: `LinksFollowContents`, with three items in two lists, two of one rank among them
  for the sort.
- Bitmap and value array: `ArraysHoldTheirContents`; growth over several bytes, limits,
  failing reallocation.
- Red-black tree: `TreeIsOrderedAndBalanced` and `TreeSettles`; all trees of five keys,
  which takes every case of both loops.
- Graph: `GraphIsSound`; a graph in which the way with more edges is the shorter one,
  with a cycle, edges and vertices coming and going.

`free_list` (`MCFreeList`): limit (`AtMostMax`), count (`CountIsExact`), waiters
(`WaitersAreCounted`), wake-ups (`SleepersAreWoken`), and progress (`Progress`). Three
threads: two waiters and one that returns items, or two that grow and one that steals. A
limit of two with chunks of two, after an initial allocation of up to two, puts the last
chunk on and across the limit; any allocation may fail.

`data` (`MCData`)

- Output: `FilesHoldTheirLines`; two threads, three slots, two files, two lines, streams
  that share a file and one that appends.
- Datatypes: `DescriptionsAreSound`; up to two additions of ten kinds on top of a
  committed datatype: contiguous, with gaps, merged, nested in a loop, unrolled, empty,
  with markers.
- Convertors: `MovesTheData`; two values of any datatype built from four kinds of
  additions, packed, unpacked or listed in fragments of 1, 5, and 3 and 2 bytes, with a
  checksum or without, between machines with other byte orders and sizes, and moved or
  cloned once on the way.
- Checksums: `PartialCallsCompose`; pieces of up to five bytes of two bits, words of
  three and two bytes, so a word takes up to three calls.

`mca` (`MCMca`)

- Repository: `RepositoryIsSound` (what is used or depended on is open, nothing is
  released twice, nothing leaks) and `CallsReturn`; three components with any acyclic
  dependencies and one of them loaded a second time after its release.
- Find: `FindLoadsTheLoadable` (for directories that list dependencies first) and
  `CallsReturn` (for all); three files, broken and static ones included, three
  selections. Every call for a dependency that has not been looked at opens the same
  .ompi_info file again, so the recursion ends when the descriptors do, and all its calls
  fail, since lt_dlopen has no descriptor either. Two of them are enough to get there.
  The code is taken to have the stack for it; where it has less, the process ends.
- Framework: `FrameworkIsSound`: `LoadedWhileUsed` whatever fails, `OpenMeansOpen` and
  `ClosedMeansUnloaded` until one of two accidents happens (a registration that fails
  inside an open, a close of a framework that is only registered); two components, two
  users, any selection.
- Variables: `ValueIsWanted`, `FirstStorageIsLoaded`, `EnvironmentCarriesValues`; eight
  declarations by two components, pairs of one name and a synonym among them; an enumerated
  variable set in up to three places with a good or a bad text, a string with paths, a
  number with a suffix, a bool with and without data in the bytes behind it, a constant,
  and one declared settable as well, which is refused; three registrations. Values that
  are set later are in and out of the enumeration, a negative number, false and a path.
  `EnvironmentCarriesValues` says that a child gets the value of every variable but those
  in `NotCarried`: a NULL string is left out of the environment, a negative number is
  written into it and refused by the child, and a false bool with data behind it is
  written as true.
- Performance variables: `SumsWhatHappened`; values of two bits, so they wrap.
- Command lines: `CommandLineIsParsed`; any three of the tokens, among them short options
  with two parameters, alone and split from others, and up to three `--mca` options, two
  with another token beside them; then a second line with the same handle. That all tokens
  are used once, and the rest is the tail, is claimed after errors too, as the header
  promises; not after a value that could not be stored, where the parser returns at once.
- Vectors: `ArgvIsSound`; up to four strings, the empty one and one with the delimiter
  inside; an environment with names that are prefixes of each other. The owner's count is
  claimed exactly: it is too small by what deletions asked for in vain (`missed`) until
  the next append. A merge into no array is a copy that may have a name twice, against the
  header; such names are in `doubled` and `OneEntryPerName` is about the others. Joining a
  range without a string writes before its block (`OutOfBounds`).

Runs that are expected to end in a violation state what a comment says and show
that the code does something else; the `findings` of `PROJECT.json` quote the
lines:

- `free_list_lost_wakeup`: a waiter may sleep beside an item on the list.
- `pointer_array_odd_max`: set_item may store outside the table.
- `component_find_unordered`: for a dependency that has not been looked at the file
  that depends on it is opened again, until there are no descriptors left; so it fails,
  though what it depends on is loaded in the end.
- `framework_register_fails`: an open that failed is counted.
- `variable_storage_unloaded`: a variable registered twice outlives its storage.
- `optimized_loop_merged`: when the first round of a loop is merged with the element
  before it, the element left inside the loop keeps the displacement of the merged round;
  only the entry at the end of the loop is moved.
- `trylock_result`: a trylock that acquired the lock returns 1.

Other disagreements met while modelling are hazards of `PROJECT.json` with a note, each
with the constant or the history variable that shows it.

Deadlock is checked for the free list. The other runs have parts that stop rightfully: the
single call of a search for components ends, after `ocoms_class_finalize` nothing may
happen, a parsed command line is parsed, a search that goes round a full table does not
return, and `MaxLines`, `MaxCalls` and their likes bound what callers do.

## 4. Fairness

Only steps inside a call are fair, and nobody is made to call anything: in the
synchronization run the steps of a push or pop (`PushStep`, `PopStep`) and of a call
of the object system, per thread; `Step(t)` of the free list; the loop of a hash table
removal and the two loops of the red-black tree; the destructors of the repository
(`RepositoryStep`) and the single call of component find. In the runs that put
components side by side each condition is guarded by `which`. Locks are
granted in no particular order (weak fairness of the lock step only), as POSIX
mutexes and the spin locks of `sys/` promise no more. `Progress` of the free
list is accordingly weak. It allows two things that the code allows: a thread may
wake up without a signal again and again, and two waiters whose trylocks fail
because of each other may take turns at taking the lock only to give it back;
TLC finds the second one if the disjunct is left out. For the condition variable there
is no liveness property: whether a waiter runs again is the scheduler's choice, and
`BroadcastReachesAll` says what the code does for it: who waited when the resource was
released under the mutex is not asleep in that wait, or has a signal to find.

## 5. Proofs

Each theorem holds for any number of threads, items, slots or components. What it needs
of the constants is the assumption of the module it is about (the `ASSUME` whose name ends
in `Assumption`), which TLC evaluates in the runs, and where it needs more the statement
says so: `SafeParameters`, `KeepsSignals`, `PlainPorts`, `StoreOrder`,
`fl_max_to_alloc > 0`, and that `Reload`, `SelfLinks` and `FinalizeAnytime` are false. A proof has a lemma per action under
an inductive invariant, and the theorem of a component comes last in the part that is about it.
The inductive invariants were checked by TLC before they were proved.

`AtomicLifo_proofs` proves `TypeCorrect`, `ListIsStack` (`Represents`),
`FlagCorrect` (`FlagIsOwnership`) and `Refinement` (`ImplementsLifo`). `Represents`
is not inductive: a pop's compare-and-swap is only right if the next pointer it
has read is still the item's, and that holds because an item whose flag a pop
holds cannot be popped and pushed again by others. The inductive invariant adds
that owner threads, pushing threads and claiming threads exclude each other per
item, and that a pop at its compare-and-swap has the item's current next
pointer. Refinement maps `stack` and `owner` to
themselves: the compare-and-swaps are steps of
`Lifo`, all others stutter.

`FreeList_proofs` proves `NeverOverMax` (`AtMostMax`), `CountCorrect`
(`CountIsExact`), `WaitersCounted` (`WaitersAreCounted`) and `SleepersWoken`
(`SleepersAreWoken`). The inductive invariant says that the thread that grows is the
one that holds `fl_lock`, and that `created = fl_num_allocated + pushed` of that
thread, with `num_elements` within the limit. For the sleepers it says what a push that
does not hit the ghost implies: whoever put the items on the list that is no longer
empty is still on the way to signal, or nobody guarded slept at that time.
`SleepersWoken` needs a limit, and is false without one: with `fl_max_to_alloc = 0` GET
grows the list and never signals.

`Containers_proofs` is about `PointerArray`, `HashTable` and `List`. It proves `TypeCorrect`, `FreeCountCorrect` (`CountsFree`),
`LowestFreeCorrect` (`LowestIsFree`), `StaysInside` (`NoOverrun`) and the action property
`ReservesSlots` (`Reserves`). The invariant relates `pending` (the operation in the
middle of a growth) to `size` and `number_free`. `StaysInside` has `SafeParameters`,
which excludes the two edges of grow_table (an odd limit, a small HANDLE_MAX) that the
run `pointer_array_odd_max` shows.

`TableFindsKeys` (`TableFindsWhatWasSet`) is for any keys, any hash function, any
densities and any `Round`. A search finds a key because no gap comes before its element
among the slots the key probes. A removal breaks that for one gap at a time: `HashInv`
excepts the gap that the removal is closing, for the elements its loop has not come to,
and the proof is about the step of the loop, which either leaves an element because its
probes do not meet the gap or moves it there and makes the next gap. A growth sets every
element anew; that it loses none is argued from the least element that would be lost. A
table that is full but for one slot ends a search there (`RoomInv`), and a table that
could not grow may become full, which is when a search goes round.

`ListsAreLinked` (`LinksFollowContents`) is for any number of lists and items. The
invariant has no walk in it: the nodes of a list, with its sentinel as number 0 and again
after the last item, are linked as a ring (`Ring`), no item is twice in a list, an item
belongs to the list it is in, and so a node is on one ring at most. Every call is one of
three changes of a ring: something is put in at a place (`RingInserted`), a part is cut
out (`RingCut`), or all is linked anew (the sort). `ocoms_list_transfer` is a cut and an
insertion at once, and within one list it is proved as the one after the other, over the
links there would be in between. That walks follow the ring is argued in the end, from the
least number of links at which one would not.

`Threads_proofs` is about `Atomics`, `Condition` and `ObjectClass`. `SpinLockExcludes`
(`LockExcludes`) holds for every combination of forms that `AtomicsAssumption` allows, not
only those of the ports there are. In the forms with load-linked, a reservation of the lock that is
still there says that the lock is still free (`ReservedOK`); what was read in a section is
still there when it is written (`DataOK`), because nobody else is inside (`HoldersOK`).

`OperationsLinearize` (`OperationsAppearAtomic`) says that the calls have an order that
explains the word and every answer. The property speaks of the moments when no call is
under way; the invariant has at all times such an order of the calls that have had their
effect. A call joins at its one store, or when its compare-and-set is refused. An addition
under the lock joins at its plain write, before it returns. It needs `PlainPorts`: the
compare-and-set compares the whole word, which excludes ia64, and a port that adds under
the lock has nothing that changes the word without it, as the ports of the run have. The
property asks for the words along the order as a recursive function of the place in it;
that these are the words of the invariant is argued from the least place where they would
not be.

`WaitersCounted`, `ResourceExclusive` and, from both, `BroadcastCorrect`
(`BroadcastReachesAll`) are about `Condition`. A broadcast sends one signal if one thread is
counted, which is enough because under the mutex the thread counted is the one asleep. In
the build that sleeps the threads that are `owed` a wake-up are awake from then on, whatever
others do, `OCOMS_WAKEUP_THREAD` included. In the one that polls, the threads that are owed a
signal are all there are inside the wait, or none, and `c_signaled` is enough for them: a
wait that ends takes one from the counter and one from those who are owed. That needs
`KeepsSignals`: a program that polls uses neither a timed wait nor `OCOMS_WAKEUP_THREAD`,
because those two take signals that they are not owed. That nobody waits for a free
resource (`NobodyIsStranded`) is part of the theorem for programs without
`OCOMS_WAKEUP_THREAD`, and false for the others, since that macro reads the count and
signals while a thread may be on its way into the wait. The first two theorems do without
any of this.

`ObjectsSound` (`ObjectsAreSound`) is about `ObjectClass`. The invariant follows the thread that
initializes a class over its chain of parents: the entries written so far are
those of the classes above it, the saved classes are those whose flag is set and the one
in hand. The second half is the counting of references: who holds one, the one thread
whose decrement found the count at zero, and the objects that thread alone may destruct.
`StoreOrder` is what the module has for a memory barrier: without it the theorem is false.

`Output_proofs` proves `LinesArrive` (`FilesHoldTheirLines`). A line goes where the
descriptor of its stream leads, at that descriptor's offset, and is the string that was
made last. So the invariant says that an open descriptor is at the end of its file and the
only one of that file, that the descriptor of a stream is one of its own file except while
its slot is being filled outside the mutex, and that who made a line has had the mutex
since. Each is lost after one of the `accidents`, which are what threads do to each
other in the parts outside the mutex; the theorem is about the time before the first.

`Mca_proofs` is about `Framework`, `ComponentRepository` and `ComponentFind`. It proves
`FrameworkSound` (`FrameworkIsSound`): the invariant is the type,
`ListInv` (what is in which list, and therefore loaded, registered or open) and `CountInv`
(what the reference count says as long as no accident happened). The lists are filled and
emptied component by component by functions over the number of components that are left,
and that these do not lose the invariant is an induction on that number.

It also proves `RepositorySound` (`RepositoryIsSound`): a component that is used or depended on is
open, nothing is released twice or used after it was freed, and nothing stays that nobody
needs. An entry depends on entries that came before it, so destructors nest downwards and
what they free does not change what is above them (`DropKeeps`). Its count is the number
of places in dependency lists that name it and of its users (`RepositoryInv`); a
destructor gives its dependencies back from the front of the list, so the places are
counted from the end. Hence what a release brings to zero is named nowhere, and the latest
entry is never kept by another one, so one pass of finalize empties the list. The theorem
excludes the three cases of section 2, and in each of them TLC shows that the property
fails.

`LoadableIsLoaded` (`FindLoadsTheLoadable`) is for any files in any order, dependencies
and include parameter. A file is loaded exactly if it is wanted, sound, not linked in
statically, and all it depends on is loaded and was found before it. The calls on the stack
are all for the file that the scan visited last, and all but the latest wait at a
dependency that has not been looked at; nothing changes that while they wait, as the call
above a call is for the same file. So such a stack can only grow until the descriptors are
used up, and then fails as a whole; a file whose dependencies have all been visited is
opened by one call. With the order in it the equation has one solution, as the files it
speaks of for one file come before it. That no dependency is closed before its dependent
rests on the second half, that the dependencies are on the list and linked when the
component is. What the order costs is shown by the run `component_find_unordered`. The
assumption is that one file can be open (`MaxOpenFiles` is not 0): without it an .ompi_info
file is taken for one that does not exist.

`McaVar_proofs` is about `McaVar` and `Pvar`. `StorageStays` (`FirstStorageIsLoaded`) is
for any components, frameworks, declarations and settings: a variable that is
deregistered with its group and can be used has storage in a component that is in memory.
The property speaks of variables and of what is loaded, but
what ties the two together are the groups, so the invariant (`VarInv`) is mostly about
them: the variable is in the valid group of its owner, that group is a subgroup of the
valid group of the framework, the subgroups of a framework are components' and have none
of their own, and of the groups of one name only the last can be valid, which is the one
the hash table leads to (`GroupsOK`, `ValidIsFound`). So an unload of the component finds
the group, and one of the framework finds it below its own. Looking up an initial value
changes values and sources, may make the entry it is for valid, and touches neither
storage nor groups (`InitializedFollows`). All of it holds until a name is registered a
second time, after which the variable is in the group of the first owner and has the
storage of the second; the run `variable_storage_unloaded` shows what follows. The assumptions
are that no synonym is declared with `MCA_BASE_VAR_FLAG_DWG`, which
`ocoms_mca_base_var_syn_flag_t` has no bit for, and that no two groups get one name
(`NamesAssumption`): names are joined with "_", so a component b_c of a framework a would
share the group of a component c of a framework a_b, and go with it.

`HandlesAddUp` (`SumsWhatHappened`) is for any variables and handles and any width of the
values. A handle keeps its own total, the reading it has seen last and whether it runs;
the invariant says that the total, with what the variable has grown by since that reading
if the handle runs and without it if not, is what the handle should read (`AddsUp`). Every
call and every change of the variable keeps that sum, modulo the number of values:
subtracting two readings before or after the variable wraps makes no difference
(`WrapOfSum`). It also speaks of handles whose variable is not valid at the moment. The
theorem is about the time before a variable is registered again as another one, which the
code does when any known name is registered: `ocoms_mca_base_pvar_find_by_name` finds
index 0 for every name.

`MemoryHooks_proofs` proves `WalksReach` (`WalksReachCallbacks`). Where a walk is in the
list is an index that the code does not have: the walk has called the functions of the
first k items, and the pointer it goes on from is that of item k + 1, or was the end when
it was read and all that was registered at the start is among the first k. While no item
leaves, the list grows only at its end (`Grows`), and what other threads allocate and free
is not on it (`OwnersOK`). The module does not go on after a registration without memory
let go of another thread's lock: what is one step under the lock would not be one then.

The induction theorems of the library take an operator as parameter and cannot be used.
Where one is needed, `Containers_proofs`, `Mca_proofs`, `McaVar_proofs`, `Threads_proofs` and
`Output_proofs` (for the first slot that is free) prove `LeastElement` (every set of naturals
that is not empty has a least element) and argue from the least counterexample.

Only model-checked:

- Liveness (`LockFree`, `Progress`, `CallsReturn`, `ObjectCallsReturn`, `RemovalEnds`,
  `TreeSettles`), and `ENABLED` in it, which is out of the prover's reach.
- What recursive operators and folds compute: the walks of convertors, the optimizer of
  datatypes, shortest paths, checksums, the order of a tree, the parsers.
- The invariants of the bitmap and the value array, which rest on powers of two: the
  prover knows nothing of `^`, and would need an induction to learn it. Those of the graph,
  the tree and the vectors, which are about paths, heights and texts.
- Of the variables, which value they have (`ValueIsWanted`, `EnvironmentCarriesValues`):
  the conversions and the search through files go through the texts.

## 6. Not modelled, and the plan

Left out, each with its reason in `PROJECT.json`: the data store, whose functions are
between `#if 0` and `#endif`; the lexers and the text of parameter and key-value files;
MCA open and close, which call initializers once each; threads and thread-specific data,
which wrap the platform's; network interfaces, paths, formatting, error strings and the
information tool, which are calls of the operating system or text; platform headers and
the build. Of modelled parts: memory barriers (the order of stores is only a parameter of
`ObjectClass`), CUDA, dumping, the tables of predefined types, usage messages, syslog.

What comes next is proofs of the links and colours of the red-black tree, without its order
and its balance, and of the descriptions that `ocoms_datatype_add` makes.
