-------------------------------- MODULE Argv --------------------------------
(***************************************************************************)
(* NULL-terminated argument vectors (ocoms/util/argv.c) and environments   *)
(* kept in them (ocoms/util/ocoms_environ.c).  A vector is the block of    *)
(* cells that is allocated for it; its strings are those before the first  *)
(* NULL.  Strings are sequences of characters, since splitting, joining    *)
(* and looking up a name are about their characters.                       *)
(***************************************************************************)
EXTENDS Integers, Sequences, FiniteSets, SequencesExt

CONSTANTS Delimiter,    \* the character that separates
          Strings,      \* strings that are added
          ArgvBound,    \* bound on the strings of a vector
          Names, Values \* of the environment

VARIABLES cells,        \* the block of the vector, <<>> before it is allocated
          argc,         \* the count its owner keeps
          contents,     \* the strings it should have
          counted,      \* only calls that keep argc were made since an append
          missed,       \* strings that deletions since then asked for in vain
          env,          \* the block of an environ-like array
          setting,      \* name -> value it should have
          doubled       \* names that a merge copied twice

argvVars == <<cells, argc, contents, counted, missed, env, setting, doubled>>

NULL == <<"NULL">>
Terminated(s) == Append(s, NULL)

\* ocoms_argv_count; a count past the block is an overrun
Count(block) ==
    LET ends == {i \in DOMAIN block : block[i] = NULL} IN
    IF ends = {} THEN Len(block) ELSE Min(ends) - 1

Items(block) == SubSeq(block, 1, Count(block))

\* ocoms_argv_append_nosize
Appended(block, arg) == Items(block) \o <<arg, NULL>>

\* ocoms_argv_prepend_nosize
Prepended(block, arg) == <<arg>> \o Terminated(Items(block))

\* ocoms_argv_append_unique_nosize, whether or not it overwrites
AppendedUnique(block, arg) ==
    IF Contains(Items(block), arg) THEN block ELSE Appended(block, arg)

\* Mutant: the last of the strings behind the deleted ones is not copied.
DeletedShort(block, start, num) ==
    LET rest == Count(block) - (start + num)
        kept == IF rest < 1 THEN 0 ELSE rest - 1 IN
    IF block = <<>> \/ num = 0 \/ start > Count(block) THEN block
    ELSE Terminated(SubSeq(block, 1, start) \o SubSeq(block, start + num + 1, start + num + kept))

\* ocoms_argv_delete: the strings behind the deleted ones are copied over them
\* and the block is shrunk to fit.
Deleted(block, start, num) ==
    LET rest == Count(block) - (start + num)
        kept == IF rest < 0 THEN 0 ELSE rest IN
    IF block = <<>> \/ num = 0 \/ start > Count(block) THEN block
    ELSE Terminated(SubSeq(block, 1, start) \o SubSeq(block, start + num + 1, start + num + kept))

\* ocoms_argv_insert: the suffix moves down, from its end, and the source is
\* copied into the gap; past the end the strings are appended.
Inserted(block, start, source) ==
    LET n == Count(block)
        m == Len(source)
        moved == [i \in 1..(n + m + 1) |->
                    IF i > start + m /\ i <= n + m THEN block[i - m]
                    ELSE IF i = n + m + 1 THEN NULL
                    ELSE IF i <= n THEN block[i] ELSE NULL] IN
    IF start > n THEN FoldLeft(Appended, block, source)
    ELSE [i \in DOMAIN moved |-> IF i > start /\ i <= start + m THEN source[i - start]
                                 ELSE moved[i]]

\* ocoms_argv_insert_element
InsertedElement(block, location, arg) ==
    IF location > Count(block) THEN Appended(block, arg)
    ELSE SubSeq(block, 1, location) \o <<arg>> \o Terminated(SubSeq(block, location + 1, Count(block)))

\* ocoms_argv_copy
Copied(block) == FoldLeft(Appended, <<NULL>>, Items(block))

\* ocoms_argv_join
Join(items) ==
    IF items = <<>> THEN <<>>
    ELSE FoldLeft(LAMBDA str, item : str \o <<Delimiter>> \o item, items[1], Tail(items))

\* What str[--str_len] leaves when the text has no length: a write before its block.
OutOfBounds == <<"out of bounds">>

\* ocoms_argv_join_range: as many characters as the range has, taken from its
\* first string on.  A range without a string, in a vector that has some, is out
\* of bounds.
JoinRange(block, start, end) ==
    LET range == SubSeq(block, start + 1, IF end < Count(block) THEN end ELSE Count(block))
        size == FoldLeft(LAMBDA n, item : n + Len(item) + 1, 0, range) IN
    IF Count(block) = 0 \/ start > Count(block) THEN <<>>
    ELSE IF range = <<>> THEN OutOfBounds
    ELSE SubSeq(Join(SubSeq(block, start + 1, Count(block))), 1, size - 1)

\* Mutant: an empty part is skipped, and the character behind its delimiter too.
SplitSkipping(str, include_empty) ==
    LET after(i) == {p \in i..Len(str) : str[p] = Delimiter}
        split[i \in 1..Len(str) + 2] ==
            IF i > Len(str) THEN <<>>
            ELSE IF after(i) = {} THEN <<SubSeq(str, i, Len(str))>>
            ELSE LET p == Min(after(i)) IN
                 IF p = i THEN (IF include_empty THEN << <<>> >> ELSE <<>>)
                               \o split[IF p + 2 > Len(str) THEN Len(str) + 1 ELSE p + 2]
                 ELSE <<SubSeq(str, i, p - 1)>> \o split[p + 1] IN
    split[1]

\* ocoms_argv_split_inter: the part at the end of the string is added whole; an
\* empty one there is not a part at all.
Split(str, include_empty) ==
    LET after(i) == {p \in i..Len(str) : str[p] = Delimiter}
        split[i \in 1..Len(str) + 1] ==
            IF i > Len(str) THEN <<>>
            ELSE IF after(i) = {} THEN <<SubSeq(str, i, Len(str))>>
            ELSE LET p == Min(after(i))
                     part == SubSeq(str, i, p - 1) IN
                 (IF part # <<>> \/ include_empty THEN <<part>> ELSE <<>>) \o split[p + 1] IN
    split[1]

-----------------------------------------------------------------------------
ArgvInit ==
    /\ cells = <<>> /\ argc = 0 /\ contents = <<>> /\ counted = TRUE /\ missed = 0
    /\ env = <<>> /\ setting = [n \in {} |-> <<>>] /\ doubled = {}

envPart == <<env, setting, doubled>>
vectorPart == <<cells, argc, contents, counted, missed>>
Fits(n) == Len(contents) + n <= ArgvBound

\* ocoms_argv_append counts again.
ArgvAppend(arg) ==
    /\ Fits(1)
    /\ cells' = Appended(cells, arg)
    /\ contents' = Append(contents, arg)
    /\ argc' = Count(cells') /\ counted' = TRUE /\ missed' = 0
    /\ UNCHANGED envPart

ArgvPrepend(arg) ==
    /\ Fits(1)
    /\ cells' = Prepended(cells, arg)
    /\ contents' = <<arg>> \o contents
    /\ counted' = FALSE
    /\ UNCHANGED <<argc, missed, envPart>>

ArgvAppendUnique(arg) ==
    /\ Fits(1)
    /\ cells' = AppendedUnique(cells, arg)
    /\ contents' = IF Contains(contents, arg) THEN contents ELSE Append(contents, arg)
    /\ counted' = (counted /\ Contains(contents, arg))
    /\ UNCHANGED <<argc, missed, envPart>>

\* argc is reduced by the number asked for, whatever was there to delete.
ArgvDelete(start, num) ==
    LET deleted == Cardinality({j \in DOMAIN contents : j \in (start + 1)..(start + num)})
        nothing == cells = <<>> \/ num = 0 \/ start > Count(cells) IN
    /\ argc - num >= -ArgvBound
    /\ cells' = Deleted(cells, start, num)
    /\ contents' = [i \in 1..(Len(contents) - deleted)
                    |-> IF i <= start THEN contents[i] ELSE contents[i + num]]
    /\ argc' = IF nothing THEN argc ELSE argc - num
    /\ missed' = IF nothing THEN missed ELSE missed + (num - deleted)
    /\ UNCHANGED <<counted, envPart>>

ArgvInsert(start, source) ==
    /\ cells # <<>> /\ Fits(Len(source))
    /\ cells' = Inserted(cells, start, source)
    /\ contents' = LET at == IF start > Len(contents) THEN Len(contents) ELSE start IN
                   SubSeq(contents, 1, at) \o source \o SubSeq(contents, at + 1, Len(contents))
    /\ counted' = (counted /\ source = <<>>)
    /\ UNCHANGED <<argc, missed, envPart>>

ArgvInsertElement(location, arg) ==
    /\ cells # <<>> /\ Fits(1)
    /\ cells' = InsertedElement(cells, location, arg)
    /\ contents' = LET at == IF location > Len(contents) THEN Len(contents) ELSE location IN
                   InsertAt(contents, at + 1, arg)
    /\ counted' = FALSE
    /\ UNCHANGED <<argc, missed, envPart>>

\* The owner goes on with a copy.
ArgvCopy ==
    /\ cells # <<>>
    /\ cells' = Copied(cells)
    /\ UNCHANGED <<contents, argc, counted, missed, envPart>>

ArgvNext ==
    \/ \E arg \in Strings : ArgvAppend(arg) \/ ArgvPrepend(arg) \/ ArgvAppendUnique(arg)
    \/ \E start \in 0..ArgvBound : \/ \E num \in 0..ArgvBound : ArgvDelete(start, num)
                                   \/ \E source \in BoundedSeq(Strings, 2) : ArgvInsert(start, source)
                                   \/ \E arg \in Strings : ArgvInsertElement(start, arg)
    \/ ArgvCopy

\* Whatever the calls, the block of a vector ends with a NULL that is the only
\* one in it, and the strings before it are those that were added and not
\* deleted, in their order.  As long as only calls that keep it were made, the
\* owner's argc is their number, less what deletions asked for beyond the end:
\* those leave it too small, and the next append makes it right.
VectorIsTerminated ==
    /\ cells = <<>> => contents = <<>>
    /\ cells # <<>> => cells = Terminated(contents)
    /\ counted => argc = Len(contents) - missed

\* Splitting what was joined yields the parts of the strings, in order; split
\* with the empty parts, strings without a delimiter come back as they were
\* unless the last is empty.  Joining a range that has strings is joining those.
SplitUndoesJoin ==
    LET str == Join(contents)
        parts(items) == FoldLeft(LAMBDA acc, item : acc \o Split(item, FALSE), <<>>, items) IN
    /\ Split(str, FALSE) = parts(contents)
    /\ (/\ \A i \in DOMAIN contents : ~Contains(contents[i], Delimiter)
        /\ contents # <<>> /\ Last(contents) # <<>>)
          => Split(str, TRUE) = contents
    /\ \A start \in 0..(Len(contents) - 1) : \A end \in (start + 1)..Len(contents) :
          JoinRange(cells, start, end) = Join(SubSeq(contents, start + 1, end))

-----------------------------------------------------------------------------
Entry(name, value) == name \o <<"=">> \o value
Holds(entry, name) == IsPrefix(Append(name, "="), entry)

\* Mutant: the name is compared without the "=" behind it.
HoldersPrefix(block, name) ==
    {i \in 1..Count(block) : IsPrefix(name, block[i])}

\* The entries that begin with the name and an "=", as setenv and unsetenv look
\* for it.
Holders(block, name) == {i \in 1..Count(block) : Holds(block[i], name)}

\* ocoms_setenv on an array that is not the environ of the process
SetIn(block, name, value, overwrite) ==
    LET holders == Holders(block, name) IN
    IF holders = {} THEN Appended(block, Entry(name, value))
    ELSE IF overwrite THEN [block EXCEPT ![Min(holders)] = Entry(name, value)]
    ELSE block

SetEnv(name, value, overwrite) ==
    /\ env' = SetIn(env, name, value, overwrite)
    /\ setting' = IF name \in DOMAIN setting /\ ~overwrite THEN setting
                  ELSE [n \in DOMAIN setting \cup {name} |->
                          IF n = name THEN value ELSE setting[n]]
    /\ UNCHANGED <<doubled, vectorPart>>

\* ocoms_unsetenv: the entries behind it, and the NULL, move up by one.
UnsetEnv(name) ==
    LET holders == Holders(env, name) IN
    /\ env' = IF holders = {} THEN env
              ELSE [i \in DOMAIN env |-> IF i < Min(holders) \/ i > Count(env) THEN env[i]
                                         ELSE env[i + 1]]
    /\ setting' = [n \in DOMAIN setting \ {name} |-> setting[n]]
    /\ UNCHANGED <<doubled, vectorPart>>

\* The strings of an array of entries, [name, value] here.
Block(entries) == Terminated([i \in DOMAIN entries |-> Entry(entries[i].name, entries[i].value)])

\* ocoms_environ_merge: a copy of the major array, and of the entries of the minor
\* one those whose names it does not have.  Where there is no major array, the
\* minor one is copied as it is, whatever names it has twice.
EnvironMerge(minor) ==
    /\ env' = IF env = <<>> THEN Copied(Block(minor))
              ELSE FoldLeft(LAMBDA block, m : SetIn(block, m.name, m.value, FALSE),
                            Copied(env), minor)
    /\ doubled' = IF env = <<>>
                  THEN {minor[i].name : i \in {k \in DOMAIN minor :
                          \E l \in 1..(k - 1) : minor[l].name = minor[k].name}}
                  ELSE doubled
    /\ setting' = FoldLeft(LAMBDA s, m : [n \in DOMAIN s \cup {m.name} |->
                                            IF n \in DOMAIN s THEN s[n] ELSE m.value],
                           setting, minor)
    /\ UNCHANGED vectorPart

\* The same without a minor array.
EnvironCopy ==
    /\ env' = IF env = <<>> THEN env ELSE Copied(env)
    /\ UNCHANGED <<setting, doubled, vectorPart>>

EnvNext ==
    \/ \E name \in Names : \/ \E value \in Values, overwrite \in BOOLEAN : SetEnv(name, value, overwrite)
                           \/ UnsetEnv(name)
    \/ \E minor \in BoundedSeq([name : Names, value : Values], 2) : EnvironMerge(minor)
    \/ EnvironCopy

\* An environment that began empty has one entry for every name that is set, with
\* the value that was set for it last, or first where a call does not overwrite,
\* and no other: not even where a name begins with another name.  The header of
\* ocoms_environ_merge promises that there are no duplicates, and that an array is
\* simply copied if the other one is NULL; a name that came twice in such a copy is
\* left out here, since it stays twice.
OneEntryPerName ==
    /\ \A n \in Names \ doubled :
          LET entries == {i \in 1..Count(env) : \E v \in Values : env[i] = Entry(n, v)} IN
          IF n \in DOMAIN setting
          THEN \E i \in entries : entries = {i} /\ env[i] = Entry(n, setting[n])
          ELSE entries = {}
    /\ \A i \in 1..Count(env) : \E n \in Names, v \in Values : env[i] = Entry(n, v)
    /\ env # <<>> => Contains(env, NULL)

ArgvSpec == ArgvInit /\ [][ArgvNext \/ EnvNext]_argvVars
=============================================================================
