---- MODULE MCData ----
(***************************************************************************)
(* What handles data for model checking: the output streams, the datatype  *)
(* engine, the convertor and the checksums.  They share no state, so one   *)
(* run checks them side by side: `which' is the part that moves, chosen at *)
(* first.  The convertor works on datatypes it builds itself, from fewer   *)
(* additions than those that the datatype engine is checked with.          *)
(***************************************************************************)
EXTENDS Output

CONSTANTS BasicSize, Additions, Resizings, MaxAdds, LONG_MAX
CONSTANTS ConvAdditions, ConvResizings, Iovecs, Architectures, Counts,
          Positions, MaxMoves
CONSTANTS ByteBits, SumBytes, SizeOf, CRC_POLYNOMIAL, CRC_INITIAL_REGISTER,
          MaxPiece, MaxBytes

VARIABLES which
VARIABLES dt, inner, map, inner_map, adds, mishaps
VARIABLES conv, from, moved, moves
VARIABLES routine, partial, crc, fed

typeVars == <<dt, inner, map, inner_map, adds, mishaps>>
convVars == <<conv, from, moved, moves>>
csumVars == <<routine, partial, crc, fed>>
allVars == <<which, outputVars, typeVars, convVars, csumVars>>

Datatype == INSTANCE Datatype
Convertor == INSTANCE Convertor WITH Additions <- ConvAdditions,
                                     Resizings <- ConvResizings
Csum == INSTANCE Csum WITH Bytes <- SumBytes

-----------------------------------------------------------------------------
MCRequest(f, s, a) == [file |-> f, suffix |-> s, append |-> a]
MCRequests == {MCRequest(TRUE, "a", FALSE), MCRequest(TRUE, "b", TRUE)}

MCBasicSize ==
  [t \in {"UINT1", "INT2", "BOOL"} |-> IF t = "INT2" THEN 2 ELSE 1]
MCAdd(t, c, d, e) == [type |-> t, count |-> c, disp |-> d, extent |-> e]

(* Basic and derived types, contiguous, with gaps, merged with what is     *)
(* there already or not, empty, and the markers of the bounds.             *)
MCAdditions ==
  {MCAdd("UINT1", 1, 0, -1), MCAdd("INT2", 2, 1, -1), MCAdd("INT2", 3, 4, 3),
   MCAdd("UINT1", 2, 0, -1), MCAdd("inner", 1, 1, -1),
   MCAdd("inner", 4, 1, -1), MCAdd("inner", 2, 8, 9), MCAdd("INT2", 0, 2, -1),
   MCAdd("USER_UB", 0, 3, 0), MCAdd("USER_LB", 0, -1, 0)}
MCResizings == {[lb |-> 0, extent |-> 3], [lb |-> -1, extent |-> 6]}
MCConvAdditions ==
  {MCAdd("UINT1", 1, 0, -1), MCAdd("INT2", 2, 1, 3), MCAdd("BOOL", 1, 4, -1),
   MCAdd("inner", 3, 1, -1)}
MCConvResizings == {[lb |-> 0, extent |-> 3]}

(* The remote architecture is the local one, or has the other byte order   *)
(* and a larger BOOL.                                                      *)
MCArchitectures ==
  {[swaps |-> FALSE, sizes |-> MCBasicSize],
   [swaps |-> TRUE, sizes |-> [MCBasicSize EXCEPT !["BOOL"] = 2]]}
MCIovecs == {<<1>>, <<5>>, <<3, 2>>}

MCSizeOf == [csum |-> 3, uicsum |-> 2, crc |-> 2]

-----------------------------------------------------------------------------
MCInit ==
  /\ which \in {"output", "datatype", "convertor", "csum"}
  /\ OutputInit /\ Convertor!ConvInit /\ Csum!CsumInit
  /\ which # "output" => directory = FALSE
  /\ which # "csum" => routine = "csum"

(* After an accident what is in the files is not what was sent.            *)
OutputMoves ==
  which = "output" /\ accidents = {} /\ OutputNext
    /\ UNCHANGED <<which, typeVars, convVars, csumVars>>
TypeNext ==
  which = "datatype" /\ Datatype!TypeNext
    /\ UNCHANGED <<which, outputVars, convVars, csumVars>>
(* What is converted was built without mishap.                             *)
ConvNext ==
  which = "convertor" /\ Convertor!Sound /\ Convertor!ConvNext
    /\ UNCHANGED <<which, outputVars, csumVars>>
CsumNext ==
  which = "csum" /\ Csum!CsumNext
    /\ UNCHANGED <<which, outputVars, typeVars, convVars>>

MCNext == OutputMoves \/ TypeNext \/ ConvNext \/ CsumNext

MCSpec == MCInit /\ [][MCNext]_allVars

-----------------------------------------------------------------------------
(* The description a datatype is committed with, and the optimized one,    *)
(* stand for its type map, and the counts of its elements agree with it.   *)
DescriptionsAreSound == which = "datatype" => /\ Datatype!DescribesItsMap
                                              /\ Datatype!CountsAgree

(* The optimized description "moves" what the loop it was merged from did. *)
MergedLoopsAreMoved == which = "datatype" => Datatype!MergedLoopsAreMoved

(* However it is cut into fragments, what is received is what was sent.    *)
MovesTheData == which = "convertor" => Convertor!MovesTheData

(* A checksum does not depend on how the data was cut into calls.          *)
PartialCallsCompose == which = "csum" => Csum!PartialCallsCompose
====
