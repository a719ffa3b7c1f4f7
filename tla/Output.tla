------------------------------- MODULE Output -------------------------------
(***************************************************************************)
(* Output streams (ocoms/util/output.c): the table of streams, the files   *)
(* they open when they first have something to write, the descriptors they *)
(* share, and threads that open, write to and close them.  The mutex       *)
(* covers the choice of a slot, the writing of a line and a close; filling *)
(* the slot, reopening, and the check whether a stream is used are outside *)
(* it.  Syslog is left out (HAVE_SYSLOG is defined nowhere), and so are    *)
(* prefixes and suffixes of lines; stdout and stderr just take lines, and  *)
(* a verbosity level only decides whether output is called at all.         *)
(***************************************************************************)
EXTENDS Integers, Sequences, FiniteSets, SequencesExt

CONSTANTS OutThreads,
          MAX_STREAMS,  \* OCOMS_OUTPUT_MAX_STREAMS
          FileSuffixes,     \* of output files; the default one is among them
          Requests,     \* the streams that are asked for, [file, suffix, append]
          MaxFd,        \* bound on the descriptors that are open
          MaxLines      \* bound on the lines that are written

VARIABLES info,         \* slot -> [used, enabled, file, suffix, append, fd, lost]
          fds,          \* descriptor -> [suffix, offset], or Closed
          files,        \* suffix -> the lines in its file
          directory,    \* the session directory exists
          mutex,        \* thread that holds it, or NoThread
          temp_str,     \* the line make_string made last
          out,          \* thread -> what it is about
          owned,        \* slots an open returned and no close was called for
          sent,         \* suffix -> the lines that were to be written to its file
          accidents     \* what happened that a caller could not know of

outputVars == <<info, fds, files, directory, mutex, temp_str, out, owned, sent, accidents>>

Closed == [suffix |-> "closed", offset |-> 0]
NoThread == "nobody"

ASSUME OutputAssumption ==
    /\ NoThread \notin OutThreads
    /\ MAX_STREAMS \in Nat \ {0} /\ MaxFd \in Nat
    /\ Requests \subseteq [file : BOOLEAN, suffix : STRING, append : BOOLEAN]

Idle == [at |-> "idle", slot |-> 0, line |-> 0]
Slots == 0..(MAX_STREAMS - 1)
Descriptor(u, e, f, s, a, d) ==
    [used |-> u, enabled |-> e, file |-> f, suffix |-> s, append |-> a, fd |-> d,
     lost |-> 0]
Unused == Descriptor(FALSE, FALSE, FALSE, "", FALSE, -1)

\* The lines that are neither in a file nor on the way to one.
NewLines == (1..MaxLines) \ (UNION {ToSet(sent[s]) : s \in FileSuffixes}
                               \cup {out[t].line : t \in OutThreads})

\* ocoms_output_init: the verbose stream, which writes to stderr, is stream 0.
OutputInit ==
    /\ info = [i \in Slots |-> IF i = 0 THEN [Unused EXCEPT !.used = TRUE, !.enabled = TRUE] ELSE Unused]
    /\ fds = [d \in 1..MaxFd |-> Closed]
    /\ files = [s \in FileSuffixes |-> <<>>]
    /\ directory \in BOOLEAN
    /\ mutex = NoThread /\ temp_str = 0
    /\ out = [t \in OutThreads |-> Idle]
    /\ owned = {} /\ sent = [s \in FileSuffixes |-> <<>>] /\ accidents = {}

\* free_descriptor; the descriptor is closed although another stream may have it.
FreeDescriptor(i) ==
    LET d == info[i].fd
        frees == info[i].used /\ info[i].enabled
        sharers == {n \in Slots \ {i} : info[n].used /\ info[n].file /\ info[n].fd = d} IN
    /\ info' = IF frees THEN [info EXCEPT ![i].used = FALSE, ![i].suffix = ""] ELSE info
    /\ fds' = IF frees /\ d # -1 THEN [fds EXCEPT ![d] = Closed] ELSE fds
    /\ accidents' = accidents \cup (IF frees /\ d # -1 /\ sharers # {} THEN {"shared_closed"} ELSE {})

\* do_open of a new stream while it holds the mutex
OpenReserve(t) ==
    LET free == {i \in Slots : ~info[i].used} IN
    /\ out[t] = Idle /\ mutex = NoThread /\ free # {}
    /\ info' = [info EXCEPT ![Min(free)].used = TRUE]
    /\ out' = [out EXCEPT ![t] = [Idle EXCEPT !.at = "filling", !.slot = Min(free)]]
    /\ UNCHANGED <<fds, files, directory, mutex, temp_str, owned, sent, accidents>>

\* do_open of a stream that is reopened: freed and marked used, without the mutex
Reopen(t, i) ==
    /\ out[t] = Idle /\ i \in owned
    /\ LET d == info[i].fd
           sharers == {n \in Slots \ {i} : info[n].used /\ info[n].file /\ info[n].fd = d}
           frees == info[i].used /\ info[i].enabled IN
       /\ info' = [info EXCEPT ![i].used = TRUE, ![i].suffix = IF frees THEN "" ELSE @]
       /\ fds' = IF frees /\ d # -1 THEN [fds EXCEPT ![d] = Closed] ELSE fds
       /\ accidents' = accidents
             \cup (IF frees /\ d # -1 /\ sharers # {} THEN {"shared_closed"} ELSE {})
    /\ out' = [out EXCEPT ![t] = [Idle EXCEPT !.at = "filling", !.slot = i]]
    /\ UNCHANGED <<files, directory, mutex, temp_str, owned, sent>>

\* The rest of do_open, from the description the caller gave
OpenFill(t, lds) ==
    LET i == out[t].slot IN
    /\ out[t].at = "filling"
    /\ info' = [info EXCEPT ![i] = Descriptor(info[i].used, TRUE, lds.file, lds.suffix, lds.append, -1)]
    /\ owned' = owned \cup {i}
    /\ out' = [out EXCEPT ![t] = Idle]
    /\ UNCHANGED <<fds, files, directory, mutex, temp_str, sent, accidents>>

-----------------------------------------------------------------------------
\* Mutant: the suffixes are not compared.
SharedFdAny(i) ==
    LET others == {n \in Slots \ {i} : info[n].used /\ info[n].file} IN
    IF others = {} THEN -1 ELSE info[Min(others)].fd

\* open_file looks at the first other stream with a file only: if that has another
\* suffix, or no descriptor yet, it looks no further.
SharedFd(i) ==
    LET others == {n \in Slots \ {i} : info[n].used /\ info[n].file} IN
    IF others # {} /\ info[Min(others)].suffix = info[i].suffix THEN info[Min(others)].fd ELSE -1

\* Other streams have the file of slot i open, or it has lines that would be
\* written over: a second description of it starts at its beginning.
OpenedTwice(i) ==
    info[i].suffix \in FileSuffixes /\ (files[info[i].suffix] # <<>> \/ \E d \in DOMAIN fds : fds[d].suffix = info[i].suffix)

\* A line is written to a slot that was closed, or is being opened again, since the
\* stream was found in use.
Late(i) == ~info[i].used \/ \E t \in OutThreads : out[t].at = "filling" /\ out[t].slot = i

\* open_file is about to share the descriptor of a slot that is being filled.
SharesHalfOpen(i) ==
    \E t \in OutThreads : out[t].at = "filling" /\ out[t].slot # i /\ info[out[t].slot].file
                          /\ info[out[t].slot].fd = SharedFd(i)

\* write to a descriptor: at its offset, over what is there.
Written(line, d, contents) ==
    LET s == fds[d].suffix
        o == fds[d].offset IN
    IF fds[d] = Closed THEN contents
    ELSE [contents EXCEPT ![s] = SubSeq(@, 1, o) \o <<line>> \o SubSeq(@, o + 2, Len(@))]

\* output: the stream is used and enabled, which is read without the mutex.
OutputCheck(t, i) ==
    /\ out[t] = Idle /\ info[i].used /\ info[i].enabled
    /\ NewLines # {}
    /\ out' = [out EXCEPT ![t] = [at |-> "checked", slot |-> i, line |-> Min(NewLines)]]
    /\ UNCHANGED <<info, fds, files, directory, mutex, temp_str, owned, sent, accidents>>

\* output with the mutex, up to make_string
OutputMake(t) ==
    /\ out[t].at = "checked" /\ mutex = NoThread
    /\ mutex' = t
    /\ temp_str' = out[t].line
    /\ out' = [out EXCEPT ![t].at = "made"]
    /\ UNCHANGED <<info, fds, files, directory, owned, sent, accidents>>

\* ocoms_output_string and ocoms_output_vstring: make_string without the mutex
OutputString(t) ==
    /\ out[t] = Idle
    /\ temp_str' = 0
    /\ accidents' = accidents \cup (IF mutex # NoThread THEN {"string_raced"} ELSE {})
    /\ UNCHANGED <<info, fds, files, directory, mutex, out, owned, sent>>

\* The line goes to the file, if the stream has one; the first line opens it.  A
\* file that cannot be opened makes the stream unused.
OutputWrite(t) ==
    LET i == out[t].slot
        free == {d \in DOMAIN fds : fds[d] = Closed}
        shared == SharedFd(i)
        opens == info[i].file /\ info[i].fd = -1
        todo(s) == [sent EXCEPT ![s] = Append(@, out[t].line)] IN
    /\ out[t].at = "made"
    /\ mutex' = NoThread /\ out' = [out EXCEPT ![t] = Idle]
    /\ accidents' = accidents
          \cup (IF Late(i) THEN {"late"} ELSE {})
          \cup (IF opens /\ shared # -1 /\ SharesHalfOpen(i) THEN {"half_open"} ELSE {})
          \cup (IF opens /\ shared = -1 /\ OpenedTwice(i) THEN {"opened_twice"} ELSE {})
    /\ \/ /\ ~info[i].file
          /\ UNCHANGED <<info, fds, files, sent>>
       \/ /\ info[i].file /\ info[i].fd # -1
          /\ files' = Written(temp_str, info[i].fd, files)
          /\ fds' = IF fds[info[i].fd] = Closed THEN fds ELSE [fds EXCEPT ![info[i].fd].offset = @ + 1]
          /\ sent' = IF info[i].suffix \in FileSuffixes THEN todo(info[i].suffix) ELSE sent
          /\ UNCHANGED info
       \/ /\ opens /\ shared # -1
          /\ info' = [info EXCEPT ![i].fd = shared]
          /\ files' = Written(temp_str, shared, files)
          /\ fds' = IF fds[shared] = Closed THEN fds ELSE [fds EXCEPT ![shared].offset = @ + 1]
          /\ sent' = IF info[i].suffix \in FileSuffixes THEN todo(info[i].suffix) ELSE sent
       \/ /\ opens /\ shared = -1 /\ directory /\ free # {}
          /\ info[i].suffix \in FileSuffixes
          /\ info' = [info EXCEPT ![i].fd = Min(free), ![i].lost = 0]
          /\ files' = [files EXCEPT ![info[i].suffix] =
                         <<temp_str>> \o (IF info[i].append /\ @ # <<>> THEN Tail(@) ELSE <<>>)]
          /\ fds' = [fds EXCEPT ![Min(free)] = [suffix |-> info[i].suffix, offset |-> 1]]
          /\ sent' = todo(info[i].suffix)
       \/ /\ opens /\ shared = -1
          /\ ~directory \/ free = {} \/ info[i].suffix \notin FileSuffixes
          /\ info' = [info EXCEPT ![i].used = FALSE, ![i].lost = @ + 1]
          /\ UNCHANGED <<fds, files, sent>>
    /\ temp_str' = 0       \* it is not read again
    /\ UNCHANGED <<directory, owned>>

\* ocoms_output_close
Close(i) ==
    /\ mutex = NoThread /\ i \in owned
    /\ FreeDescriptor(i)
    /\ owned' = owned \ {i}
    /\ temp_str' = 0
    /\ UNCHANGED <<files, directory, mutex, out, sent>>

\* ocoms_output_switch; a stream that is off is not freed when it is closed.
Switch(i, enable) ==
    /\ i \in owned
    /\ info' = [info EXCEPT ![i].enabled = enable]
    /\ UNCHANGED <<fds, files, directory, mutex, temp_str, out, owned, sent, accidents>>

\* The session directory is created.
CreateDirectory ==
    /\ ~directory /\ directory' = TRUE
    /\ UNCHANGED <<info, fds, files, mutex, temp_str, out, owned, sent, accidents>>

OutputNext ==
    \/ \E t \in OutThreads :
          \/ OpenReserve(t) \/ OutputMake(t) \/ OutputWrite(t) \/ OutputString(t)
          \/ \E lds \in Requests : OpenFill(t, lds)
          \/ \E i \in owned \cup {0} : OutputCheck(t, i)
          \/ \E i \in owned : Reopen(t, i)
    \/ \E i \in owned : Close(i) \/ (\E b \in BOOLEAN : Switch(i, b))
    \/ CreateDirectory

OutputSpec == OutputInit /\ [][OutputNext]_outputVars

-----------------------------------------------------------------------------
\* Streams with the same suffix share a file.  As long as no stream was closed
\* under another that shares its descriptor, none closed or reopened between the
\* check and the write of a line, no file opened a second time, no descriptor
\* taken from a slot that is being filled, and no string made while a line was
\* being written: every line that was not discarded is in the file of its
\* stream, in the order of the writes, and in no other.
FilesHoldTheirLines ==
    accidents = {} =>
       /\ \A s \in FileSuffixes : files[s] = sent[s]
       /\ \A i \in Slots : (/\ info[i].used /\ info[i].file /\ info[i].fd # -1
                            /\ \A t \in OutThreads : out[t].slot # i)
             => fds[info[i].fd].suffix = info[i].suffix

\* "Once the session directory is created, ocoms_output() will automatically
\* create the file": a stream its owner has not closed stays in use.
OwnedIsUsed == \A i \in owned : info[i].used \/ \E t \in OutThreads : out[t].slot = i
=============================================================================
