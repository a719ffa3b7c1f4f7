----------------------------- MODULE Output_proofs -----------------------------
(***************************************************************************)
(* The files of Output hold their lines, for any threads, streams, files   *)
(* and descriptors, until one of the accidents that the code does not      *)
(* guard against.                                                          *)
(*                                                                         *)
(* A line goes where the descriptor of the stream leads, at its offset,    *)
(* and is the string made last.  So the invariant says that an open        *)
(* descriptor is at the end of its file and the only one of it             *)
(* (DescriptorsOK), that the descriptor of a stream is one of its own      *)
(* file, except while its slot is filled outside the mutex (StreamsOK),    *)
(* and that who made a line has had the mutex since (WritingOK).           *)
(***************************************************************************)
EXTENDS Output, SequenceTheorems, WellFoundedInduction, TLAPS

Fds == 1..MaxFd
Names == FileSuffixes \cup {r.suffix : r \in Requests} \cup {"", "closed"}
InfoType == [used : BOOLEAN, enabled : BOOLEAN, file : BOOLEAN, suffix : Names,
             append : BOOLEAN, fd : Fds \cup {-1}, lost : Int]
OutputTypeOK ==
    /\ info \in [Slots -> InfoType]
    /\ fds \in [Fds -> [suffix : Names, offset : Nat]]
    /\ files \in [FileSuffixes -> Seq(Nat)]
    /\ sent \in [FileSuffixes -> Seq(Nat)]
    /\ temp_str \in Nat
    /\ out \in [OutThreads -> [at : {"idle", "filling", "checked", "made"},
                               slot : Slots, line : Nat]]
    /\ owned \subseteq Slots

\* The thread that makes a line has the mutex, and its line is the one made last.
WritingOK ==
    \A t \in OutThreads :
       out[t].at = "made" => mutex = t /\ mutex # NoThread /\ temp_str = out[t].line

\* A descriptor that is open is at the end of its file, and is the only one of it.
DescriptorsOK ==
    /\ \A d \in Fds : fds[d] # Closed =>
          /\ fds[d].suffix \in FileSuffixes
          /\ fds[d].offset > 0 /\ fds[d].offset = Len(files[fds[d].suffix])
    /\ \A d, e \in Fds :
          fds[d] # Closed /\ fds[e] # Closed /\ fds[d].suffix = fds[e].suffix => d = e

Filling(i) == \E t \in OutThreads : out[t].at = "filling" /\ out[t].slot = i

\* The descriptor of a stream is one of its file, except while its slot is filled.
HasDescriptor(i) == info[i].used /\ info[i].file /\ info[i].fd # -1
StreamsOK ==
    \A i \in Slots : HasDescriptor(i) /\ ~Filling(i) =>
       fds[info[i].fd] # Closed /\ fds[info[i].fd].suffix = info[i].suffix

LinesOK == OutputTypeOK /\ WritingOK /\ DescriptorsOK /\ StreamsOK /\ files = sent
OutputInv == accidents = {} => LinesOK

-----------------------------------------------------------------------------
LEMMA LeastElement ==
    ASSUME NEW S \in SUBSET Nat, S # {}
    PROVE  \E k \in S : \A j \in S : k <= j
  <1>1. \E R : /\ IsWellFoundedOn(R, Nat)
               /\ \A j, k \in Nat : <<j, k>> \in R <=> j < k
    <2>1. \A j, k \in Nat : <<j, k>> \in OpToRel(<, Nat) <=> j < k
      BY DEF OpToRel
    <2> WITNESS OpToRel(<, Nat)
    <2>. QED
      BY <2>1, NatLessThanWellFounded
  <1>2. PICK R : /\ IsWellFoundedOn(R, Nat)
                 /\ \A j, k \in Nat : <<j, k>> \in R <=> j < k
    BY <1>1
  <1>3. S \subseteq Nat /\ IsWellFoundedOn(R, Nat)
    BY <1>2
  <1>4. \E k \in S : \A j \in S : ~(<<j, k>> \in R)
    BY <1>3, WFMin, Zenon
  <1>5. PICK k \in S : \A j \in S : ~(<<j, k>> \in R)
    BY <1>4
  <1>6. \A j \in S : ~(j < k)
    BY <1>2, <1>3, <1>5, Zenon
  <1>. QED
    BY <1>3, <1>6

\* What Min of the library returns.
LEMMA MinIsMember ==
    ASSUME NEW S \in SUBSET Nat, S # {}
    PROVE  Min(S) \in S
  BY LeastElement DEF Min

LEMMA SlotsAreNaturals ==
    /\ Slots \subseteq Nat /\ 0 \in Slots /\ Fds \subseteq Nat
    /\ -1 \notin Fds
  BY OutputAssumption DEF Slots, Fds

\* A description with other values in some fields has those and keeps the rest.
LEMMA Fields ==
    ASSUME NEW r \in InfoType, NEW u \in BOOLEAN, NEW s \in Names
    PROVE  /\ [r EXCEPT !.used = u] \in InfoType
           /\ [r EXCEPT !.enabled = u] \in InfoType
           /\ [r EXCEPT !.used = u, !.suffix = s] \in InfoType
  BY DEF InfoType

LEMMA DescriptorGiven ==
    ASSUME NEW r \in InfoType, NEW d \in Fds, NEW n \in Int
    PROVE  [r EXCEPT !.fd = d, !.lost = n] \in InfoType
  BY DEF InfoType

LEMMA UseLost ==
    ASSUME NEW r \in InfoType, NEW u \in BOOLEAN, NEW n \in Int
    PROVE  /\ [r EXCEPT !.used = u, !.lost = n] \in InfoType
           /\ [r EXCEPT !.used = u, !.lost = n].used = u
  BY DEF InfoType

LEMMA Truth == \A u \in {TRUE, FALSE} : u \in BOOLEAN
  OBVIOUS

LEMMA Filled ==
    ASSUME NEW u \in BOOLEAN, NEW e \in BOOLEAN, NEW f \in BOOLEAN, NEW s \in Names,
           NEW a \in BOOLEAN, NEW d \in Fds \cup {-1}
    PROVE  /\ Descriptor(u, e, f, s, a, d) \in InfoType
           /\ Descriptor(u, e, f, s, a, d).fd = d
           /\ Descriptor(u, e, f, s, a, d).used = u
           /\ Descriptor(u, e, f, s, a, d).file = f
           /\ Descriptor(u, e, f, s, a, d).suffix = s
  BY DEF Descriptor, InfoType

LEMMA InitLines ==
    ASSUME OutputInit
    PROVE  LinesOK
  <1>0. Unused \in InfoType /\ Unused.fd = -1
    <2>1. "" \in Names /\ -1 \in Fds \cup {-1}
      BY DEF Names
    <2>. QED
      <3>1. FALSE \in BOOLEAN
        BY Truth
      <3>2. PICK no \in BOOLEAN : no = FALSE
        BY <3>1
      <3>3. PICK d \in Fds \cup {-1} : d = -1
        BY <2>1
      <3>4. PICK s \in Names : s = ""
        BY <2>1
      <3>5. Descriptor(no, no, no, s, no, d) \in InfoType
        BY Filled
      <3>6. Descriptor(no, no, no, s, no, d).fd = d
        BY Filled
      <3>7. Unused = Descriptor(no, no, no, s, no, d)
        BY <3>2, <3>3, <3>4, Zenon DEF Unused
      <3>. QED
        BY <3>3, <3>5, <3>6, <3>7
  <1>1. \A i \in Slots : info[i] \in InfoType /\ info[i].fd = -1
    <2>1. PICK u : u = Unused
      OBVIOUS
    <2>2. PICK v : v = [u EXCEPT !.used = TRUE, !.enabled = TRUE]
      OBVIOUS
    <2>3. v \in InfoType /\ v.fd = -1
      BY <1>0, <2>1, <2>2 DEF InfoType
    <2>4. info = [i \in Slots |-> IF i = 0 THEN v ELSE u]
      BY <2>1, <2>2 DEF OutputInit
    <2>. QED
      BY <1>0, <2>1, <2>3, <2>4
  <1>2. OutputTypeOK
    <2>1. info \in [Slots -> InfoType]
      BY <1>1 DEF OutputInit
    <2>2. fds \in [Fds -> [suffix : Names, offset : Nat]]
      BY DEF OutputInit, Closed, Fds, Names
    <2>3. files \in [FileSuffixes -> Seq(Nat)] /\ sent \in [FileSuffixes -> Seq(Nat)]
      BY DEF OutputInit
    <2>4. out \in [OutThreads -> [at : {"idle", "filling", "checked", "made"},
                                  slot : Slots, line : Nat]]
      BY SlotsAreNaturals DEF OutputInit, Idle
    <2>. QED
      BY <2>1, <2>2, <2>3, <2>4 DEF OutputInit, OutputTypeOK
  <1>3. StreamsOK
    BY <1>1 DEF StreamsOK, HasDescriptor
  <1>4. DescriptorsOK
    BY DEF OutputInit, DescriptorsOK, Fds
  <1>5. WritingOK
    BY DEF OutputInit, WritingOK, Idle
  <1>. QED
    BY <1>2, <1>3, <1>4, <1>5 DEF OutputInit, LinesOK

\* Closing a descriptor.
LEMMA FdsClosed ==
    ASSUME LinesOK, NEW d \in Fds, fds' = [fds EXCEPT ![d] = Closed], files' = files
    PROVE  DescriptorsOK'
  <1>1. fds'[d] = Closed /\ \A e \in Fds : e # d => fds'[e] = fds[e]
    BY DEF LinesOK, OutputTypeOK
  <1>2. \A e \in Fds : fds'[e] # Closed => fds'[e] = fds[e] /\ fds[e] # Closed
    BY <1>1
  <1>3. ASSUME NEW e \in Fds, fds'[e] # Closed
        PROVE  /\ fds'[e].suffix \in FileSuffixes
               /\ fds'[e].offset > 0 /\ fds'[e].offset = Len(files'[fds'[e].suffix])
    BY <1>2, <1>3 DEF LinesOK, DescriptorsOK
  <1>4. \A e, g \in Fds :
           fds'[e] # Closed /\ fds'[g] # Closed /\ fds'[e].suffix = fds'[g].suffix => e = g
    BY <1>2 DEF LinesOK, DescriptorsOK
  <1>. QED
    BY <1>3, <1>4 DEF DescriptorsOK, Closed

-----------------------------------------------------------------------------
\* free_descriptor closes the descriptor of a slot that no other stream uses.
LEMMA Freed ==
    ASSUME LinesOK, NEW i \in Slots, NEW frees \in BOOLEAN,
           fds' = IF frees /\ info[i].fd # -1 THEN [fds EXCEPT ![info[i].fd] = Closed]
                  ELSE fds,
           frees /\ info[i].fd # -1 =>
              {n \in Slots \ {i} : info[n].used /\ info[n].file /\ info[n].fd = info[i].fd} = {},
           files' = files
    PROVE  /\ DescriptorsOK' /\ fds' \in [Fds -> [suffix : Names, offset : Nat]]
           /\ \A n \in Slots : n # i /\ HasDescriptor(n) => fds'[info[n].fd] = fds[info[n].fd]
           /\ ~frees => fds' = fds
  <1>1. /\ fds \in [Fds -> [suffix : Names, offset : Nat]]
        /\ \A n \in Slots : info[n].fd \in Fds \cup {-1}
    BY DEF LinesOK, OutputTypeOK, InfoType
  <1>2. CASE frees /\ info[i].fd # -1
    <2>1. PICK d \in Fds : d = info[i].fd
      BY <1>1, <1>2
    <2>2. fds' = [fds EXCEPT ![d] = Closed] /\ DescriptorsOK'
      BY <1>2, <2>1, FdsClosed
    <2>3. Closed \in [suffix : Names, offset : Nat]
      BY DEF Closed, Names
    <2>4. \A n \in Slots : n # i /\ HasDescriptor(n) => info[n].fd \in Fds /\ info[n].fd # d
      BY <1>1, <1>2, <2>1 DEF HasDescriptor
    <2>. QED
      BY <1>1, <1>2, <2>2, <2>3, <2>4
  <1>3. CASE ~(frees /\ info[i].fd # -1)
    <2>1. fds' = fds
      BY <1>3
    <2>. QED
      BY <1>1, <2>1 DEF LinesOK, DescriptorsOK
  <1>. QED
    BY <1>2, <1>3

\* A line is written at the end of a file through its descriptor.
LEMMA LineWritten ==
    ASSUME LinesOK, NEW d \in Fds, fds[d] # Closed, NEW line \in Nat,
           files' = Written(line, d, files),
           fds' = [fds EXCEPT ![d].offset = @ + 1],
           sent' = [sent EXCEPT ![fds[d].suffix] = Append(@, line)]
    PROVE  /\ DescriptorsOK' /\ files' = sent'
           /\ files' \in [FileSuffixes -> Seq(Nat)]
           /\ fds' \in [Fds -> [suffix : Names, offset : Nat]]
           /\ \A e \in Fds : fds[e] # Closed => /\ fds'[e] # Closed
                                                /\ fds'[e].suffix = fds[e].suffix
  <1>1. PICK s \in FileSuffixes : s = fds[d].suffix
    BY DEF LinesOK, DescriptorsOK
  <1>2. /\ fds \in [Fds -> [suffix : Names, offset : Nat]]
        /\ files \in [FileSuffixes -> Seq(Nat)] /\ sent = files
    BY DEF LinesOK, OutputTypeOK
  <1>3. PICK q \in Seq(Nat) : q = files[s]
    BY <1>2
  <1>4. fds[d].offset = Len(q) /\ Len(q) > 0
    BY <1>1, <1>3 DEF LinesOK, DescriptorsOK
  <1>5. SubSeq(q, 1, Len(q)) \o <<line>> \o SubSeq(q, Len(q) + 2, Len(q)) = Append(q, line)
    <2>1. PICK n \in Nat : n = Len(q)
      BY LenProperties
    <2>2. SubSeq(q, 1, n) = q /\ SubSeq(q, n + 2, n) = <<>>
      BY <2>1, SubSeqFull, SubSeqEmpty
    <2>3. q \o <<line>> = Append(q, line) /\ Append(q, line) \o <<>> = Append(q, line)
      BY AppendProperties, AppendIsConcat, ConcatEmptySeq
    <2>. QED
      BY <2>1, <2>2, <2>3
  <1>6. PICK q2 \in Seq(Nat) : q2 = Append(q, line)
    BY AppendProperties
  <1>7. Len(q2) = Len(q) + 1
    BY <1>6, AppendProperties
  <1>8. files' = [files EXCEPT ![s] = q2]
    BY <1>1, <1>3, <1>4, <1>5, <1>6 DEF Written
  <1>9. sent' = [files EXCEPT ![s] = q2]
    BY <1>1, <1>2, <1>3, <1>6
  <1>10. PICK f \in [suffix : Names, offset : Nat] :
            f = [fds[d] EXCEPT !.offset = @ + 1]
    <2>1. PICK r \in [suffix : Names, offset : Nat] : r = fds[d]
      BY <1>2
    <2>2. [r EXCEPT !.offset = @ + 1] \in [suffix : Names, offset : Nat]
      OBVIOUS
    <2>. QED
      BY <2>1, <2>2
  <1>11. f.suffix = s /\ f.offset = Len(q) + 1
    BY <1>1, <1>2, <1>4, <1>10
  <1>12. fds' = [fds EXCEPT ![d] = f]
    BY <1>10
  <1>13. fds'[d] = f /\ \A e \in Fds : e # d => fds'[e] = fds[e]
    BY <1>2, <1>12
  <1>14. f # Closed
    BY <1>3, <1>11 DEF Closed
  <1>15. files'[s] = q2 /\ \A r \in FileSuffixes : r # s => files'[r] = files[r]
    BY <1>2, <1>8
  <1>16. \A e \in Fds : fds'[e] # Closed => fds[e] # Closed /\ fds'[e].suffix = fds[e].suffix
    BY <1>1, <1>11, <1>13
  <1>17. \A e \in Fds : fds[e] # Closed /\ e # d => fds[e].suffix \in FileSuffixes \ {s}
    BY <1>1 DEF LinesOK, DescriptorsOK
  <1>18. ASSUME NEW e \in Fds, fds'[e] # Closed
         PROVE  /\ fds'[e].suffix \in FileSuffixes
                /\ fds'[e].offset > 0 /\ fds'[e].offset = Len(files'[fds'[e].suffix])
    <2>1. CASE e = d
      BY <1>3, <1>7, <1>11, <1>13, <1>15, <2>1
    <2>2. CASE e # d
      BY <1>13, <1>15, <1>17, <1>18, <2>2 DEF LinesOK, DescriptorsOK
    <2>. QED
      BY <2>1, <2>2
  <1>19. \A e, g \in Fds :
           fds'[e] # Closed /\ fds'[g] # Closed /\ fds'[e].suffix = fds'[g].suffix => e = g
    BY <1>16 DEF LinesOK, DescriptorsOK
  <1>20. DescriptorsOK'
    BY <1>18, <1>19 DEF DescriptorsOK, Closed
  <1>21. /\ files' \in [FileSuffixes -> Seq(Nat)]
         /\ fds' \in [Fds -> [suffix : Names, offset : Nat]]
    BY <1>2, <1>8, <1>12
  <1>. QED
    BY <1>1, <1>8, <1>9, <1>11, <1>13, <1>14, <1>20, <1>21

\* The first line of a file that no descriptor is open for.
LEMMA FileOpened ==
    ASSUME LinesOK, NEW d \in Fds, fds[d] = Closed, NEW s \in FileSuffixes,
           files[s] = <<>>, \A e \in Fds : fds[e].suffix # s, NEW line \in Nat,
           files' = [files EXCEPT ![s] = <<line>>],
           fds' = [fds EXCEPT ![d] = [suffix |-> s, offset |-> 1]],
           sent' = [sent EXCEPT ![s] = Append(@, line)]
    PROVE  /\ DescriptorsOK' /\ files' = sent'
           /\ files' \in [FileSuffixes -> Seq(Nat)]
           /\ fds' \in [Fds -> [suffix : Names, offset : Nat]]
           /\ fds'[d] # Closed /\ fds'[d].suffix = s
           /\ \A e \in Fds : fds[e] # Closed => fds'[e] = fds[e]
  <1>1. /\ fds \in [Fds -> [suffix : Names, offset : Nat]]
        /\ files \in [FileSuffixes -> Seq(Nat)] /\ sent = files
    BY DEF LinesOK, OutputTypeOK
  <1>2. PICK q \in Seq(Nat) : q = Append(<<>>, line)
    BY AppendProperties, <<>> \in Seq(Nat)
  <1>3. <<line>> = q /\ Len(q) = 1
    BY <1>2
  <1>4. files' = [files EXCEPT ![s] = q] /\ sent' = [files EXCEPT ![s] = q]
    BY <1>1, <1>2, <1>3
  <1>5. PICK f \in [suffix : Names, offset : Nat] : f = [suffix |-> s, offset |-> 1]
    BY DEF Names
  <1>6. f.suffix = s /\ f.offset = 1
    BY <1>5
  <1>7. f # Closed
    BY <1>6 DEF Closed
  <1>8. fds' = [fds EXCEPT ![d] = f]
    BY <1>5
  <1>9. fds'[d] = f /\ \A e \in Fds : e # d => fds'[e] = fds[e]
    BY <1>1, <1>8
  <1>10. files'[s] = q /\ \A r \in FileSuffixes : r # s => files'[r] = files[r]
    BY <1>1, <1>4
  <1>11. ASSUME NEW e \in Fds, fds'[e] # Closed
         PROVE  /\ fds'[e].suffix \in FileSuffixes
                /\ fds'[e].offset > 0 /\ fds'[e].offset = Len(files'[fds'[e].suffix])
    <2>1. CASE e = d
      BY <1>3, <1>6, <1>9, <1>10, <2>1
    <2>2. CASE e # d
      <3>1. fds'[e] = fds[e] /\ fds[e].suffix \in FileSuffixes \ {s}
        BY <1>9, <1>11, <2>2 DEF LinesOK, DescriptorsOK
      <3>. QED
        BY <1>10, <1>11, <3>1 DEF LinesOK, DescriptorsOK
    <2>. QED
      BY <2>1, <2>2
  <1>12. \A e, g \in Fds :
           fds'[e] # Closed /\ fds'[g] # Closed /\ fds'[e].suffix = fds'[g].suffix => e = g
    BY <1>6, <1>9 DEF LinesOK, DescriptorsOK
  <1>13. DescriptorsOK'
    BY <1>11, <1>12 DEF DescriptorsOK, Closed
  <1>14. /\ files' \in [FileSuffixes -> Seq(Nat)]
         /\ fds' \in [Fds -> [suffix : Names, offset : Nat]]
    BY <1>1, <1>4, <1>8
  <1>. QED
    BY <1>4, <1>6, <1>7, <1>9, <1>13, <1>14

-----------------------------------------------------------------------------
\* A thread goes to a place where it makes no line.
LEMMA ThreadGoes ==
    ASSUME LinesOK, NEW t \in OutThreads,
           NEW r \in [at : {"idle", "filling", "checked", "made"}, slot : Slots, line : Nat],
           out' = [out EXCEPT ![t] = r]
    PROVE  /\ out' \in [OutThreads -> [at : {"idle", "filling", "checked", "made"},
                                       slot : Slots, line : Nat]]
           /\ out'[t] = r /\ \A u \in OutThreads : u # t => out'[u] = out[u]
           /\ r.at # "made" /\ mutex' = mutex /\ temp_str' = temp_str => WritingOK'
           /\ \A n \in Slots : /\ out[t].at # "filling" /\ Filling(n) => Filling(n)'
                               /\ Filling(n) => Filling(n)' \/ n = out[t].slot
                               /\ r.at # "filling" /\ Filling(n)' => Filling(n)
  <1>1. /\ out' \in [OutThreads -> [at : {"idle", "filling", "checked", "made"},
                                    slot : Slots, line : Nat]]
        /\ out'[t] = r /\ \A u \in OutThreads : u # t => out'[u] = out[u]
    BY DEF LinesOK, OutputTypeOK
  <1>2. r.at # "made" /\ mutex' = mutex /\ temp_str' = temp_str => WritingOK'
    BY <1>1 DEF LinesOK, WritingOK
  <1>. QED
    BY <1>1, <1>2 DEF Filling

\* The places where a thread can go.
LEMMA Places ==
    ASSUME NEW a \in {"idle", "filling", "checked", "made"}, NEW i \in Slots, NEW l \in Nat,
           NEW T, T = [at : {"idle", "filling", "checked", "made"}, slot : Slots, line : Nat]
    PROVE  /\ [at |-> a, slot |-> i, line |-> l] \in T
           /\ [at |-> a, slot |-> i, line |-> l].at = a
           /\ \A r \in T : /\ [r EXCEPT !.at = a, !.slot = i] \in T
                           /\ [r EXCEPT !.at = a, !.slot = i].at = a
                           /\ [r EXCEPT !.at = a, !.slot = i].slot = i
           /\ \A r \in T : /\ [r EXCEPT !.at = a] \in T
                           /\ [r EXCEPT !.at = a].at = a
                           /\ [r EXCEPT !.at = a].line = r.line
  BY SlotsAreNaturals DEF Idle

LEMMA IdlePlace ==
    /\ Idle \in [at : {"idle", "filling", "checked", "made"}, slot : Slots, line : Nat]
    /\ Idle.at = "idle"
  BY SlotsAreNaturals DEF Idle

LEMMA NextLines ==
    ASSUME OutputInv, [OutputNext]_outputVars, accidents' = {}
    PROVE  LinesOK'
  <1>L. LinesOK
    <2>1. accidents \subseteq accidents'
      BY DEF OutputNext, outputVars, OpenReserve, OutputMake, OutputWrite, OutputString,
             OpenFill, OutputCheck, Reopen, Close, FreeDescriptor, Switch, CreateDirectory
    <2>. QED
      BY <2>1 DEF OutputInv
  <1>T. OutputTypeOK /\ WritingOK /\ DescriptorsOK /\ StreamsOK /\ files = sent
    BY <1>L DEF LinesOK
  <1>I. /\ \A i \in Slots : info[i] \in InfoType
        /\ info \in [Slots -> InfoType]
        /\ \A t \in OutThreads : out[t].slot \in Slots /\ out[t].line \in Nat
    BY <1>T DEF OutputTypeOK
  <1>N. 0 \in Nat /\ 0 \in Slots /\ Slots \subseteq Nat /\ Fds \subseteq Nat
    BY SlotsAreNaturals
  <1>P. Idle = [at |-> "idle", slot |-> 0, line |-> 0]
    BY DEF Idle
  <1>1. ASSUME NEW t \in OutThreads, OpenReserve(t)
        PROVE  LinesOK'
    <2>1. PICK i \in Slots :
             /\ ~info[i].used /\ info' = [info EXCEPT ![i].used = TRUE]
             /\ out' = [out EXCEPT ![t] = [Idle EXCEPT !.at = "filling", !.slot = i]]
      <3>1. PICK free : free = {i \in Slots : ~info[i].used}
        OBVIOUS
      <3>2. Min(free) \in free
        BY <1>1, <1>N, <3>1, MinIsMember DEF OpenReserve
      <3>. QED
        BY <1>1, <3>1, <3>2 DEF OpenReserve
    <2>2. /\ out[t].at = "idle" /\ UNCHANGED <<fds, files, mutex, temp_str, owned, sent>>
      BY <1>1, <1>P DEF OpenReserve
    <2>3. PICK r : r = [Idle EXCEPT !.at = "filling", !.slot = i]
      OBVIOUS
    <2>4. /\ r \in [at : {"idle", "filling", "checked", "made"}, slot : Slots, line : Nat]
          /\ r.at = "filling" /\ r.slot = i /\ out' = [out EXCEPT ![t] = r]
      <3>1. PICK z : z = Idle
        OBVIOUS
      <3>2. z \in [at : {"idle", "filling", "checked", "made"}, slot : Slots, line : Nat]
        BY <3>1, IdlePlace
      <3>3. r = [z EXCEPT !.at = "filling", !.slot = i]
        BY <2>3, <3>1
      <3>4. out' = [out EXCEPT ![t] = r]
        BY <2>1, <2>3, Zenon
      <3>. QED
        BY <2>1, <3>2, <3>3, <3>4, Places
    <2>5. WritingOK' /\ Filling(i)' /\ \A n \in Slots : Filling(n) => Filling(n)'
      <3>1. /\ WritingOK' /\ out'[t] = r
            /\ \A n \in Slots : Filling(n) => Filling(n)'
        BY <1>L, <2>2, <2>4, ThreadGoes
      <3>2. Filling(i)'
        BY <2>4, <3>1 DEF Filling
      <3>. QED
        BY <3>1, <3>2
    <2>6. PICK d \in InfoType : d = [info[i] EXCEPT !.used = TRUE]
      BY <1>I, Fields, Truth, "" \in Names DEF Names
    <2>7. info' = [info EXCEPT ![i] = d]
      BY <2>1, <2>6
    <2>8. OutputTypeOK'
      BY <1>L, <1>T, <2>2, <2>4, <2>7, ThreadGoes DEF OutputTypeOK
    <2>9. DescriptorsOK'
      BY <1>T, <2>2 DEF DescriptorsOK
    <2>10. StreamsOK'
      BY <1>I, <1>T, <2>2, <2>5, <2>7 DEF StreamsOK, HasDescriptor
    <2>. QED
      BY <1>T, <2>2, <2>5, <2>8, <2>9, <2>10 DEF LinesOK
  <1>2. ASSUME NEW t \in OutThreads, NEW i \in owned, Reopen(t, i)
        PROVE  LinesOK'
    <2>1. i \in Slots
      BY <1>T DEF OutputTypeOK
    <2>2. PICK frees \in BOOLEAN : frees = (info[i].used /\ info[i].enabled)
      OBVIOUS
    <2>3. PICK sharers : sharers =
             {n \in Slots \ {i} : info[n].used /\ info[n].file /\ info[n].fd = info[i].fd}
      OBVIOUS
    <2>4. PICK suffix \in Names : suffix = IF frees THEN "" ELSE info[i].suffix
      BY <1>I, <2>1 DEF InfoType, Names
    <2>5. info' = [info EXCEPT ![i].used = TRUE, ![i].suffix = suffix]
      BY <1>2, <2>2, <2>4 DEF Reopen
    <2>6. fds' = IF frees /\ info[i].fd # -1 THEN [fds EXCEPT ![info[i].fd] = Closed]
                 ELSE fds
      BY <1>2, <2>2 DEF Reopen
    <2>7. out' = [out EXCEPT ![t] = [Idle EXCEPT !.at = "filling", !.slot = i]]
      BY <1>2, Zenon DEF Reopen
    <2>8. out[t].at = "idle" /\ UNCHANGED <<files, mutex, temp_str, owned, sent>>
      <3>1. out[t] = Idle /\ UNCHANGED <<files, mutex, temp_str, owned, sent>>
        BY <1>2 DEF Reopen
      <3>. QED
        BY <1>P, <3>1
    <2>9. frees /\ info[i].fd # -1 => sharers = {}
      BY <1>2, <2>2, <2>3 DEF Reopen
    <2>10. /\ DescriptorsOK' /\ fds' \in [Fds -> [suffix : Names, offset : Nat]]
          /\ \A n \in Slots : n # i /\ HasDescriptor(n) => fds'[info[n].fd] = fds[info[n].fd]
      BY <1>L, <2>1, <2>3, <2>8, <2>9, <2>6, Freed
    <2>11. PICK r : r = [Idle EXCEPT !.at = "filling", !.slot = i]
      OBVIOUS
    <2>12. /\ r \in [at : {"idle", "filling", "checked", "made"}, slot : Slots, line : Nat]
          /\ r.at = "filling" /\ r.slot = i /\ out' = [out EXCEPT ![t] = r]
      <3>1. PICK z : z = Idle
        OBVIOUS
      <3>2. z \in [at : {"idle", "filling", "checked", "made"}, slot : Slots, line : Nat]
        BY <3>1, IdlePlace
      <3>3. r = [z EXCEPT !.at = "filling", !.slot = i]
        BY <2>11, <3>1
      <3>4. out' = [out EXCEPT ![t] = r]
        BY <2>7, <2>11, Zenon
      <3>. QED
        BY <2>1, <3>2, <3>3, <3>4, Places
    <2>13. WritingOK' /\ Filling(i)' /\ \A n \in Slots : Filling(n) => Filling(n)'
      <3>1. /\ WritingOK' /\ out'[t] = r
            /\ \A n \in Slots : Filling(n) => Filling(n)'
        BY <1>L, <2>8, <2>12, ThreadGoes
      <3>2. Filling(i)'
        BY <2>12, <3>1 DEF Filling
      <3>. QED
        BY <3>1, <3>2
    <2>14. PICK d \in InfoType : d = [info[i] EXCEPT !.used = TRUE, !.suffix = suffix]
      BY <1>I, <2>1, Fields, Truth
    <2>15. info' = [info EXCEPT ![i] = d]
      BY <2>5, <2>14
    <2>16. OutputTypeOK'
      BY <1>L, <1>T, <2>1, <2>8, <2>10, <2>12, <2>15, ThreadGoes DEF OutputTypeOK
    <2>17. \A n \in Slots : n # i => info'[n] = info[n]
      BY <1>I, <2>15
    <2>18. StreamsOK'
      BY <1>T, <2>10, <2>13, <2>17 DEF StreamsOK, HasDescriptor
    <2>. QED
      BY <1>T, <2>8, <2>10, <2>13, <2>16, <2>18 DEF LinesOK
  <1>3. ASSUME NEW t \in OutThreads, NEW lds \in Requests, OpenFill(t, lds)
        PROVE  LinesOK'
    <2>1. PICK i \in Slots : i = out[t].slot
      BY <1>I
    <2>2. PICK d : d = Descriptor(info[i].used, TRUE, lds.file, lds.suffix, lds.append, -1)
      OBVIOUS
    <2>3. d \in InfoType /\ d.fd = -1
      <3>1. /\ info[i].used \in BOOLEAN /\ TRUE \in BOOLEAN /\ lds.file \in BOOLEAN
            /\ lds.append \in BOOLEAN
        BY <1>I, OutputAssumption DEF InfoType
      <3>2. lds.suffix \in Names /\ -1 \in Fds \cup {-1}
        BY DEF Names
      <3>. QED
        <4>1. PICK yes \in BOOLEAN : yes = TRUE
          BY Truth
        <4>2. PICK fd \in Fds \cup {-1} : fd = -1
          BY <3>2
        <4>3. d = Descriptor(info[i].used, yes, lds.file, lds.suffix, lds.append, fd)
          BY <2>2, <4>1, <4>2, Zenon
        <4>. QED
          BY <3>1, <3>2, <4>2, <4>3, Filled
    <2>4. /\ out[t].at = "filling" /\ UNCHANGED <<fds, files, mutex, temp_str, sent>>
          /\ info' = [info EXCEPT ![i] = d] /\ owned' = owned \cup {i}
          /\ out' = [out EXCEPT ![t] = Idle]
      BY <1>3, <2>1, <2>2 DEF OpenFill
    <2>5. Idle \in [at : {"idle", "filling", "checked", "made"}, slot : Slots, line : Nat]
          /\ Idle.at = "idle"
      BY IdlePlace
    <2>6. WritingOK' /\ \A n \in Slots : Filling(n) => Filling(n)' \/ n = i
      BY <1>L, <2>1, <2>4, <2>5, ThreadGoes
    <2>7. OutputTypeOK'
      BY <1>L, <1>T, <2>3, <2>4, <2>5, ThreadGoes DEF OutputTypeOK
    <2>8. DescriptorsOK'
      BY <1>T, <2>4 DEF DescriptorsOK
    <2>9. info'[i].fd = -1 /\ \A n \in Slots : n # i => info'[n] = info[n]
      BY <1>I, <2>3, <2>4
    <2>10. StreamsOK'
      BY <1>T, <2>4, <2>6, <2>9 DEF StreamsOK, HasDescriptor
    <2>. QED
      BY <1>T, <2>4, <2>6, <2>7, <2>8, <2>10 DEF LinesOK
  <1>4. ASSUME NEW t \in OutThreads, NEW i \in owned \cup {0}, OutputCheck(t, i)
        PROVE  LinesOK'
    <2>1. i \in Slots
      BY <1>N, <1>T DEF OutputTypeOK
    <2>2. PICK line \in Nat : line = Min(NewLines)
      <3>1. NewLines \in SUBSET Nat /\ NewLines # {}
        BY <1>4 DEF OutputCheck, NewLines
      <3>. QED
        BY <3>1, MinIsMember
    <2>3. PICK r : r = [at |-> "checked", slot |-> i, line |-> line]
      OBVIOUS
    <2>4. /\ out[t].at = "idle" /\ UNCHANGED <<info, fds, files, mutex, temp_str, owned, sent>>
          /\ out' = [out EXCEPT ![t] = r]
      BY <1>4, <1>P, <2>2, <2>3 DEF OutputCheck
    <2>5. /\ r \in [at : {"idle", "filling", "checked", "made"}, slot : Slots, line : Nat]
          /\ r.at = "checked"
      BY <2>1, <2>3, Places
    <2>6. WritingOK' /\ \A n \in Slots : Filling(n) => Filling(n)'
      BY <1>L, <2>4, <2>5, ThreadGoes
    <2>7. OutputTypeOK'
      BY <1>L, <1>T, <2>4, <2>5, ThreadGoes DEF OutputTypeOK
    <2>8. DescriptorsOK' /\ StreamsOK'
      BY <1>T, <2>4, <2>6 DEF DescriptorsOK, StreamsOK, HasDescriptor
    <2>. QED
      BY <1>T, <2>4, <2>6, <2>7, <2>8 DEF LinesOK
  <1>5. ASSUME NEW t \in OutThreads, OutputMake(t)
        PROVE  LinesOK'
    <2>1. PICK r : r = [out[t] EXCEPT !.at = "made"]
      OBVIOUS
    <2>2. /\ out[t].at = "checked" /\ mutex = NoThread
          /\ UNCHANGED <<info, fds, files, owned, sent>>
          /\ out' = [out EXCEPT ![t] = r] /\ mutex' = t /\ temp_str' = out[t].line
      BY <1>5, <2>1 DEF OutputMake
    <2>3. /\ r \in [at : {"idle", "filling", "checked", "made"}, slot : Slots, line : Nat]
          /\ r.at = "made" /\ r.line = out[t].line
      BY <1>T, <2>1 DEF OutputTypeOK
    <2>4. /\ out'[t] = r /\ \A u \in OutThreads : u # t => out'[u] = out[u]
          /\ \A n \in Slots : Filling(n) => Filling(n)'
      BY <1>L, <2>2, <2>3, ThreadGoes
    <2>5. \A u \in OutThreads : out[u].at # "made"
      BY <1>T, <2>2 DEF WritingOK
    <2>6. WritingOK'
      BY <2>2, <2>3, <2>4, <2>5, OutputAssumption DEF WritingOK
    <2>7. OutputTypeOK'
      BY <1>I, <1>L, <1>T, <2>2, <2>3, ThreadGoes DEF OutputTypeOK
    <2>8. DescriptorsOK' /\ StreamsOK'
      BY <1>T, <2>2, <2>4 DEF DescriptorsOK, StreamsOK, HasDescriptor
    <2>. QED
      BY <1>T, <2>2, <2>6, <2>7, <2>8 DEF LinesOK
  <1>6. ASSUME NEW t \in OutThreads, OutputString(t)
        PROVE  LinesOK'
    <2>1. /\ mutex = NoThread /\ temp_str' = 0
          /\ UNCHANGED <<info, fds, files, mutex, out, owned, sent>>
      BY <1>6 DEF OutputString
    <2>2. WritingOK'
      BY <1>T, <2>1 DEF WritingOK
    <2>3. OutputTypeOK'
      BY <1>N, <1>T, <2>1 DEF OutputTypeOK
    <2>4. DescriptorsOK' /\ StreamsOK'
      BY <1>T, <2>1 DEF DescriptorsOK, StreamsOK, HasDescriptor, Filling
    <2>. QED
      BY <1>T, <2>1, <2>2, <2>3, <2>4 DEF LinesOK
  <1>7. ASSUME NEW i \in owned, Close(i)
        PROVE  LinesOK'
    <2>1. i \in Slots
      BY <1>T DEF OutputTypeOK
    <2>2. PICK frees \in BOOLEAN : frees = (info[i].used /\ info[i].enabled)
      OBVIOUS
    <2>3. PICK sharers : sharers =
             {n \in Slots \ {i} : info[n].used /\ info[n].file /\ info[n].fd = info[i].fd}
      OBVIOUS
    <2>4. /\ mutex = NoThread /\ temp_str' = 0 /\ owned' = owned \ {i}
          /\ UNCHANGED <<files, mutex, out, sent>>
          /\ info' = IF frees THEN [info EXCEPT ![i].used = FALSE, ![i].suffix = ""]
                     ELSE info
          /\ fds' = IF frees /\ info[i].fd # -1 THEN [fds EXCEPT ![info[i].fd] = Closed]
                    ELSE fds
      BY <1>7, <2>2 DEF Close, FreeDescriptor
    <2>5. frees /\ info[i].fd # -1 => sharers = {}
      BY <1>7, <2>2, <2>3 DEF Close, FreeDescriptor
    <2>6. /\ DescriptorsOK' /\ fds' \in [Fds -> [suffix : Names, offset : Nat]]
          /\ \A n \in Slots : n # i /\ HasDescriptor(n) => fds'[info[n].fd] = fds[info[n].fd]
          /\ ~frees => fds' = fds
      BY <1>L, <2>1, <2>3, <2>4, <2>5, Freed
    <2>7. PICK name \in Names : name = ""
      BY DEF Names
    <2>8. PICK no \in BOOLEAN : no = FALSE
      OBVIOUS
    <2>9. PICK d \in InfoType : d = [info[i] EXCEPT !.used = no, !.suffix = name]
      BY <1>I, <2>1, Fields
    <2>10. d.used = no
      BY <1>I, <2>1, <2>9 DEF InfoType
    <2>11. info' = IF frees THEN [info EXCEPT ![i] = d] ELSE info
      BY <2>4, <2>7, <2>8, <2>9
    <2>12. /\ info' \in [Slots -> InfoType] /\ \A n \in Slots : n # i => info'[n] = info[n]
           /\ frees => ~info'[i].used
           /\ ~frees => info' = info
      BY <1>I, <2>1, <2>8, <2>10, <2>11
    <2>13. OutputTypeOK'
      BY <1>N, <1>T, <2>4, <2>6, <2>12 DEF OutputTypeOK
    <2>14. WritingOK'
      BY <1>T, <2>4 DEF WritingOK
    <2>15. StreamsOK'
      <3>1. \A n \in Slots : Filling(n)' <=> Filling(n)
        BY <2>4 DEF Filling
      <3>2. ASSUME frees
            PROVE  StreamsOK'
        BY <1>T, <2>6, <2>12, <3>1, <3>2 DEF StreamsOK, HasDescriptor
      <3>3. ASSUME ~frees
            PROVE  StreamsOK'
        BY <1>T, <2>6, <2>12, <3>1, <3>3 DEF StreamsOK, HasDescriptor
      <3>. QED
        BY <3>2, <3>3
    <2>. QED
      BY <1>T, <2>4, <2>6, <2>13, <2>14, <2>15 DEF LinesOK
  <1>8. ASSUME NEW i \in owned, NEW enable \in BOOLEAN, Switch(i, enable)
        PROVE  LinesOK'
    <2>1. i \in Slots
      BY <1>T DEF OutputTypeOK
    <2>2. PICK d \in InfoType : d = [info[i] EXCEPT !.enabled = enable]
      BY <1>I, <2>1, Fields, "" \in Names DEF Names
    <2>3. d.used = info[i].used /\ d.file = info[i].file /\ d.fd = info[i].fd
          /\ d.suffix = info[i].suffix
      BY <1>I, <2>1, <2>2 DEF InfoType
    <2>4. /\ UNCHANGED <<fds, files, mutex, temp_str, out, owned, sent>>
          /\ info' = [info EXCEPT ![i] = d]
      BY <1>8, <2>2 DEF Switch
    <2>5. OutputTypeOK' /\ WritingOK' /\ DescriptorsOK'
      BY <1>T, <2>4 DEF OutputTypeOK, WritingOK, DescriptorsOK
    <2>6. \A n \in Slots : /\ HasDescriptor(n)' <=> HasDescriptor(n)
                           /\ info'[n].fd = info[n].fd /\ info'[n].suffix = info[n].suffix
      BY <1>I, <2>1, <2>3, <2>4 DEF HasDescriptor
    <2>7. StreamsOK'
      BY <1>T, <2>4, <2>6 DEF StreamsOK, Filling
    <2>. QED
      BY <1>T, <2>4, <2>5, <2>7 DEF LinesOK
  <1>9. CASE CreateDirectory \/ UNCHANGED outputVars
    <2>1. UNCHANGED <<info, fds, files, mutex, temp_str, out, owned, sent>>
      BY <1>9 DEF CreateDirectory, outputVars
    <2>. QED
      BY <1>T, <2>1 DEF LinesOK, OutputTypeOK, WritingOK, DescriptorsOK, StreamsOK,
                        HasDescriptor, Filling
  <1>10. ASSUME NEW t \in OutThreads, OutputWrite(t)
         PROVE  LinesOK'
    <2>1. PICK i \in Slots : i = out[t].slot
      BY <1>I
    <2>2. PICK line \in Nat : line = out[t].line
      BY <1>I
    <2>3. /\ out[t].at = "made" /\ mutex' = NoThread /\ temp_str' = 0 /\ owned' = owned
          /\ out' = [out EXCEPT ![t] = Idle]
      BY <1>10 DEF OutputWrite
    <2>4. temp_str = line /\ mutex = t /\ \A u \in OutThreads : out[u].at = "made" => u = t
      BY <1>T, <2>2, <2>3 DEF WritingOK
    <2>5. /\ out' \in [OutThreads -> [at : {"idle", "filling", "checked", "made"},
                                      slot : Slots, line : Nat]]
          /\ out'[t].at = "idle" /\ \A u \in OutThreads : u # t => out'[u] = out[u]
          /\ \A n \in Slots : Filling(n)' <=> Filling(n)
      BY <1>L, <2>3, ThreadGoes, IdlePlace
    <2>6. WritingOK'
      BY <2>4, <2>5 DEF WritingOK
    <2>7. info[i].used /\ ~Filling(i)
      BY <1>10, <2>1 DEF OutputWrite, Late, Filling
    <2>8. info[i] \in InfoType /\ info[i].fd \in Fds \cup {-1}
      BY <1>I DEF InfoType
    <2>9. SUFFICES /\ info' \in [Slots -> InfoType]
                   /\ fds' \in [Fds -> [suffix : Names, offset : Nat]]
                   /\ files' \in [FileSuffixes -> Seq(Nat)]
                   /\ DescriptorsOK' /\ StreamsOK' /\ files' = sent'
      <3>1. 0 \in Nat
        OBVIOUS
      <3>. QED
        BY <1>T, <2>3, <2>5, <2>6, <3>1 DEF LinesOK, OutputTypeOK
    <2>10. CASE ~info[i].file /\ UNCHANGED <<info, fds, files, sent>>
      BY <1>T, <2>5, <2>10 DEF OutputTypeOK, DescriptorsOK, StreamsOK, HasDescriptor
    <2>11. \* The line goes through a descriptor that the stream has, or now shares.
           ASSUME NEW d \in Fds, fds[d] # Closed, fds[d].suffix = info[i].suffix,
                  files' = Written(temp_str, d, files),
                  fds' = IF fds[d] = Closed THEN fds ELSE [fds EXCEPT ![d].offset = @ + 1],
                  sent' = IF info[i].suffix \in FileSuffixes
                          THEN [sent EXCEPT ![info[i].suffix] = Append(@, out[t].line)]
                          ELSE sent,
                  info' = [info EXCEPT ![i].fd = d]
           PROVE  /\ info' \in [Slots -> InfoType]
                  /\ fds' \in [Fds -> [suffix : Names, offset : Nat]]
                  /\ files' \in [FileSuffixes -> Seq(Nat)]
                  /\ DescriptorsOK' /\ StreamsOK' /\ files' = sent'
      <3>1. fds' = [fds EXCEPT ![d].offset = @ + 1] /\ files' = Written(line, d, files)
        BY <2>4, <2>11
      <3>2. info[i].suffix \in FileSuffixes
        BY <1>T, <2>11 DEF DescriptorsOK
      <3>3. sent' = [sent EXCEPT ![fds[d].suffix] = Append(@, line)]
        BY <2>2, <2>11, <3>2
      <3>4. /\ DescriptorsOK' /\ files' = sent'
            /\ files' \in [FileSuffixes -> Seq(Nat)]
            /\ fds' \in [Fds -> [suffix : Names, offset : Nat]]
            /\ \A e \in Fds : fds[e] # Closed => /\ fds'[e] # Closed
                                                 /\ fds'[e].suffix = fds[e].suffix
        BY <1>L, <2>11, <3>1, <3>3, LineWritten
      <3>5. PICK r \in InfoType : r = [info[i] EXCEPT !.fd = d]
        BY <2>8 DEF InfoType
      <3>6. r.used = info[i].used /\ r.file = info[i].file /\ r.suffix = info[i].suffix
            /\ r.fd = d
        BY <2>8, <3>5 DEF InfoType
      <3>7. info' = [info EXCEPT ![i] = r]
        BY <2>11, <3>5
      <3>8. /\ info' \in [Slots -> InfoType] /\ info'[i] = r
            /\ \A n \in Slots : n # i => info'[n] = info[n]
        BY <1>I, <3>7
      <3>9. ASSUME NEW n \in Slots, HasDescriptor(n)', ~Filling(n)'
            PROVE  fds'[info'[n].fd] # Closed /\ fds'[info'[n].fd].suffix = info'[n].suffix
        <4>1. CASE n = i
          BY <2>11, <3>4, <3>6, <3>8, <4>1
        <4>2. CASE n # i
          <5>1. info'[n] = info[n] /\ HasDescriptor(n) /\ ~Filling(n)
            BY <2>5, <3>8, <3>9, <4>2 DEF HasDescriptor
          <5>2. /\ info[n].fd \in Fds /\ fds[info[n].fd] # Closed
                /\ fds[info[n].fd].suffix = info[n].suffix
            BY <1>I, <1>T, <5>1 DEF StreamsOK, HasDescriptor, InfoType
          <5>. QED
            BY <3>4, <5>1, <5>2
        <4>. QED
          BY <4>1, <4>2
      <3>10. StreamsOK'
        BY <3>9 DEF StreamsOK, Closed
      <3>. QED
        BY <3>4, <3>8, <3>10
    <2>12. ASSUME info[i].file, info[i].fd # -1,
                  files' = Written(temp_str, info[i].fd, files),
                  fds' = IF fds[info[i].fd] = Closed THEN fds
                         ELSE [fds EXCEPT ![info[i].fd].offset = @ + 1],
                  sent' = IF info[i].suffix \in FileSuffixes
                          THEN [sent EXCEPT ![info[i].suffix] = Append(@, out[t].line)]
                          ELSE sent,
                  info' = info
           PROVE  /\ info' \in [Slots -> InfoType]
                  /\ fds' \in [Fds -> [suffix : Names, offset : Nat]]
                  /\ files' \in [FileSuffixes -> Seq(Nat)]
                  /\ DescriptorsOK' /\ StreamsOK' /\ files' = sent'
      <3>1. PICK d \in Fds : d = info[i].fd
        BY <2>8, <2>12
      <3>2. fds[d] # Closed /\ fds[d].suffix = info[i].suffix
        BY <1>T, <2>7, <2>12, <3>1 DEF StreamsOK, HasDescriptor
      <3>3. info' = [info EXCEPT ![i].fd = d]
        <4>1. PICK r \in InfoType : r = info[i]
          BY <2>8
        <4>2. [r EXCEPT !.fd = d] = r
          BY <3>1, <4>1 DEF InfoType
        <4>3. [info EXCEPT ![i] = r] = info
          BY <1>I, <4>1
        <4>. QED
          BY <2>12, <4>1, <4>2, <4>3
      <3>. QED
        BY <2>11, <2>12, <3>1, <3>2, <3>3
    <2>13. PICK shared : shared = SharedFd(i)
      OBVIOUS
    <2>14. ASSUME info[i].file, info[i].fd = -1, shared # -1
           PROVE  /\ shared \in Fds /\ fds[shared] # Closed
                  /\ fds[shared].suffix = info[i].suffix
      <3>1. PICK others : others = {n \in Slots \ {i} : info[n].used /\ info[n].file}
        OBVIOUS
      <3>2. others # {} /\ others \in SUBSET Nat
        BY <1>N, <2>13, <2>14, <3>1 DEF SharedFd
      <3>3. PICK n \in others : n = Min(others)
        BY <3>2, MinIsMember
      <3>4. info[n].suffix = info[i].suffix /\ shared = info[n].fd
        BY <2>13, <2>14, <3>1, <3>2, <3>3 DEF SharedFd
      <3>5. ~SharesHalfOpen(i)
        BY <1>10, <2>1, <2>13, <2>14 DEF OutputWrite
      <3>6. n \in Slots \ {i} /\ HasDescriptor(n)
        BY <2>14, <3>1, <3>4 DEF HasDescriptor
      <3>7. ~Filling(n)
        BY <2>13, <3>4, <3>5, <3>6 DEF SharesHalfOpen, Filling, HasDescriptor
      <3>. QED
        BY <1>I, <1>T, <3>4, <3>6, <3>7 DEF StreamsOK, HasDescriptor, InfoType
    <2>15. PICK free : free = {d \in DOMAIN fds : fds[d] = Closed}
      OBVIOUS
    <2>16. ASSUME info[i].file, info[i].fd = -1, shared = -1, free # {},
                  info[i].suffix \in FileSuffixes,
                  info' = [info EXCEPT ![i].fd = Min(free), ![i].lost = 0],
                  files' = [files EXCEPT ![info[i].suffix] =
                         <<temp_str>> \o (IF info[i].append /\ @ # <<>> THEN Tail(@) ELSE <<>>)],
                  fds' = [fds EXCEPT ![Min(free)] = [suffix |-> info[i].suffix, offset |-> 1]],
                  sent' = [sent EXCEPT ![info[i].suffix] = Append(@, out[t].line)]
           PROVE  /\ info' \in [Slots -> InfoType]
                  /\ fds' \in [Fds -> [suffix : Names, offset : Nat]]
                  /\ files' \in [FileSuffixes -> Seq(Nat)]
                  /\ DescriptorsOK' /\ StreamsOK' /\ files' = sent'
      <3>1. DOMAIN fds = Fds
        BY <1>T DEF OutputTypeOK
      <3>2. free \in SUBSET Nat
        BY <1>N, <2>15, <3>1
      <3>3. PICK d \in Fds : d = Min(free) /\ fds[d] = Closed
        BY <2>15, <2>16, <3>1, <3>2, MinIsMember
      <3>4. PICK s \in FileSuffixes : s = info[i].suffix
        BY <2>16
      <3>5. ~OpenedTwice(i)
        BY <1>10, <2>1, <2>13, <2>16 DEF OutputWrite
      <3>6. files[s] = <<>> /\ \A e \in Fds : fds[e].suffix # s
        BY <3>1, <3>4, <3>5 DEF OpenedTwice
      <3>7. files' = [files EXCEPT ![s] = <<line>>]
        <4>1. <<line>> \o <<>> = <<line>>
          BY ConcatEmptySeq, <<line>> \in Seq(Nat)
        <4>. QED
          BY <2>4, <2>16, <3>4, <3>6, <4>1
      <3>8. fds' = [fds EXCEPT ![d] = [suffix |-> s, offset |-> 1]]
        BY <2>16, <3>3, <3>4
      <3>9. sent' = [sent EXCEPT ![s] = Append(@, line)]
        BY <2>2, <2>16, <3>4
      <3>10. /\ DescriptorsOK' /\ files' = sent'
             /\ files' \in [FileSuffixes -> Seq(Nat)]
             /\ fds' \in [Fds -> [suffix : Names, offset : Nat]]
             /\ fds'[d] # Closed /\ fds'[d].suffix = s
             /\ \A e \in Fds : fds[e] # Closed => fds'[e] = fds[e]
        BY <1>L, <3>3, <3>6, <3>7, <3>8, <3>9, FileOpened
      <3>11. PICK r \in InfoType : r = [info[i] EXCEPT !.fd = d, !.lost = 0]
        BY <2>8, 0 \in Int, DescriptorGiven
      <3>12. r.suffix = s /\ r.fd = d
        <4>1. PICK q \in InfoType : q = info[i]
          BY <2>8
        <4>2. PICK n \in Int : n = 0
          OBVIOUS
        <4>3. r = [q EXCEPT !.fd = d, !.lost = n]
          BY <3>11, <4>1, <4>2
        <4>4. r.suffix = q.suffix /\ r.fd = d
          BY <4>3 DEF InfoType
        <4>. QED
          BY <3>4, <4>1, <4>4
      <3>13. info' = [info EXCEPT ![i] = r]
        BY <2>16, <3>3, <3>11
      <3>14. /\ info' \in [Slots -> InfoType] /\ info'[i] = r
             /\ \A n \in Slots : n # i => info'[n] = info[n]
        BY <1>I, <3>13
      <3>15. ASSUME NEW n \in Slots, HasDescriptor(n)', ~Filling(n)'
             PROVE  fds'[info'[n].fd] # Closed /\ fds'[info'[n].fd].suffix = info'[n].suffix
        <4>1. CASE n = i
          BY <3>10, <3>12, <3>14, <4>1
        <4>2. CASE n # i
          <5>1. info'[n] = info[n] /\ HasDescriptor(n) /\ ~Filling(n)
            BY <2>5, <3>14, <3>15, <4>2 DEF HasDescriptor
          <5>2. /\ info[n].fd \in Fds /\ fds[info[n].fd] # Closed
                /\ fds[info[n].fd].suffix = info[n].suffix
            BY <1>I, <1>T, <5>1 DEF StreamsOK, HasDescriptor, InfoType
          <5>. QED
            BY <3>10, <5>1, <5>2
        <4>. QED
          BY <4>1, <4>2
      <3>16. StreamsOK'
        BY <3>15 DEF StreamsOK, Closed
      <3>. QED
        BY <3>10, <3>14, <3>16
    <2>17. ASSUME info' = [info EXCEPT ![i].used = FALSE, ![i].lost = @ + 1],
                  UNCHANGED <<fds, files, sent>>
           PROVE  /\ info' \in [Slots -> InfoType]
                  /\ fds' \in [Fds -> [suffix : Names, offset : Nat]]
                  /\ files' \in [FileSuffixes -> Seq(Nat)]
                  /\ DescriptorsOK' /\ StreamsOK' /\ files' = sent'
      <3>1. PICK no \in BOOLEAN : no = FALSE
        BY Truth
      <3>2. PICK lost \in Int : lost = info[i].lost + 1
        <4>1. info[i].lost \in Int
          BY <2>8 DEF InfoType
        <4>. QED
          BY <4>1
      <3>3. PICK r \in InfoType : r = [info[i] EXCEPT !.used = no, !.lost = lost]
        BY <2>8, UseLost
      <3>4. r.used = no
        BY <2>8, <3>3, UseLost
      <3>5. info' = [info EXCEPT ![i] = r]
        BY <2>17, <3>1, <3>2, <3>3
      <3>6. /\ info' \in [Slots -> InfoType] /\ ~info'[i].used
            /\ \A n \in Slots : n # i => info'[n] = info[n]
        BY <1>I, <3>1, <3>4, <3>5
      <3>7. StreamsOK'
        BY <1>T, <2>5, <2>17, <3>6 DEF StreamsOK, HasDescriptor
      <3>. QED
        BY <1>T, <2>17, <3>6, <3>7 DEF OutputTypeOK, DescriptorsOK
    <2>18. CASE info[i].file
      <3>1. CASE info[i].fd # -1
        BY <1>10, <2>1, <2>12, <2>18, <3>1 DEF OutputWrite
      <3>2. CASE info[i].fd = -1 /\ shared # -1
        BY <1>10, <2>1, <2>11, <2>13, <2>14, <2>18, <3>2 DEF OutputWrite
      <3>3. CASE info[i].fd = -1 /\ shared = -1
        BY <1>10, <2>1, <2>13, <2>15, <2>16, <2>17, <2>18, <3>3 DEF OutputWrite
      <3>. QED
        BY <3>1, <3>2, <3>3
    <2>. QED
      BY <1>10, <2>1, <2>10, <2>18 DEF OutputWrite
  <1>. QED
    BY <1>1, <1>2, <1>3, <1>4, <1>5, <1>6, <1>7, <1>8, <1>9, <1>10 DEF OutputNext

\* Every line that is not discarded is in the file of its stream, in the order of the
\* writes, and in no other, for any streams, files, descriptors and threads, until
\* one of the accidents that the code does not guard against.
THEOREM LinesArrive == OutputSpec => []FilesHoldTheirLines
  <1>1. OutputInit => OutputInv
    BY InitLines DEF OutputInv
  <1>2. OutputInv /\ [OutputNext]_outputVars => OutputInv'
    <2> SUFFICES ASSUME OutputInv, [OutputNext]_outputVars, accidents' = {} PROVE LinesOK'
      BY DEF OutputInv
    <2>. QED
      BY NextLines
  <1>3. OutputInv => FilesHoldTheirLines
    BY DEF OutputInv, LinesOK, StreamsOK, HasDescriptor, Filling, FilesHoldTheirLines
  <1>. QED
    BY <1>1, <1>2, <1>3, PTL DEF OutputSpec
=============================================================================
