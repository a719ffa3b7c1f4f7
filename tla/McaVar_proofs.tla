---------------------------- MODULE McaVar_proofs ----------------------------
(***************************************************************************)
(* Proofs about McaVar, for any components and declarations, and about     *)
(* Pvar, for any variables, handles and width of their values.             *)
(*                                                                         *)
(* The performance variables (PvarInv).  The total of a running handle of  *)
(* a sum, with what its variable has grown by since the handle looked      *)
(* last, is what the handle should read; of a stopped one the total alone  *)
(* is.  Both wrap around, and how often does not matter (WrapOfSum).       *)
(*                                                                         *)
(* The variables (VarInv).  As long as no name was registered twice, a     *)
(* variable that is valid and goes with its group is in the valid group of *)
(* a component in memory, and that group is a subgroup of the valid group  *)
(* of the framework.  Only the last group of a name can be valid, and it   *)
(* is the one the hash table finds, so unloading reaches the variable.     *)
(***************************************************************************)
EXTENDS McaVar, Pvar, FiniteSetTheorems, SequenceTheorems, WellFoundedInduction, TLAPS

\* A set of naturals that is not empty has a least element.
LEMMA LeastElement ==
    ASSUME NEW S \in SUBSET Nat, S # {}
    PROVE  \E k \in S : \A j \in S : k <= j
  <1>1. \E R : /\ IsWellFoundedOn(R, Nat)
               /\ \A j, k \in Nat : <<j, k>> \in R <=> j < k
    <2>1. \A j, k \in Nat : <<j, k>> \in OpToRel(<, Nat) <=> j < k
      BY DEF OpToRel
    <2> WITNESS OpToRel(<, Nat)
    <2>. QED
      BY <2>1, NatLessThanWellFounded
  <1>2. PICK R : /\ IsWellFoundedOn(R, Nat)
                 /\ \A j, k \in Nat : <<j, k>> \in R <=> j < k
    BY <1>1
  <1>3. S \subseteq Nat /\ IsWellFoundedOn(R, Nat)
    BY <1>2
  <1>4. \E k \in S : \A j \in S : ~(<<j, k>> \in R)
    BY <1>3, WFMin, Zenon
  <1>5. PICK k \in S : \A j \in S : ~(<<j, k>> \in R)
    BY <1>4
  <1>6. \A j \in S : ~(j < k)
    BY <1>2, <1>3, <1>5, Zenon
  <1>. QED
    BY <1>3, <1>6

\* One that is bounded has a greatest.
LEMMA GreatestElement ==
    ASSUME NEW n \in Nat, NEW S \in SUBSET (0..n), S # {}
    PROVE  \E k \in S : \A j \in S : j <= k
  <1>. DEFINE T == {i \in 0..n : n - i \in S}
  <1>1. T \in SUBSET Nat /\ T # {}
    <2>1. PICK s \in S : TRUE
      OBVIOUS
    <2>2. n - s \in T
      OBVIOUS
    <2>. QED
      BY <2>2
  <1>2. PICK i \in T : \A j \in T : i <= j
    <2>. HIDE DEF T
    <2>. QED
      BY <1>1, LeastElement
  <1>3. n - i \in S /\ i \in 0..n
    BY <1>2
  <1>4. ASSUME NEW j \in S
        PROVE  j <= n - i
    <2>1. n - j \in T /\ i <= n - j
      BY <1>2
    <2>2. i \in Nat /\ j \in Nat
      BY <1>3
    <2>. QED
      BY <2>1, <2>2
  <1>. QED
    BY <1>3, <1>4

\* The members of a sequence.
LEMMA SetOfSequence ==
    ASSUME NEW s, NEW S, s \in Seq(S), NEW e
    PROVE  e \in ToSet(s) <=> \E k \in 1..Len(s) : s[k] = e
  BY DEF ToSet

(***************************************************************************)
(* The performance variables                                               *)
(***************************************************************************)
PvarRecords == [name : {d.name : d \in PvarDeclarations},
                d : PvarDeclarations, valid : BOOLEAN,
                group : {d.owner : d \in PvarDeclarations} \cup {Unlisted}]
HandleRecords == [pvar : Int, started : BOOLEAN, current : Values, last : Values]

PvarTypeOK ==
    /\ pvars \in Seq(PvarRecords)
    /\ underlying \in [PvarDeclarations -> Values]
    /\ handles \in [Handles -> HandleRecords]
    /\ expected \in [Handles -> Values]
    /\ clobbered \in BOOLEAN

\* What a handle of a sum has, with what its variable has counted since the
\* handle looked last, is what it should read.
AddsUp(r, reading, sum) ==
    IF r.started THEN Wrap(r.current + reading - r.last) = sum ELSE r.current = sum

Accounts(r, sum) ==
    r.pvar # -1 =>
      /\ r.pvar + 1 \in DOMAIN pvars
      /\ ~clobbered /\ IsSum(pvars[r.pvar + 1].d)
            => AddsUp(r, underlying[pvars[r.pvar + 1].d], sum)

PvarInv == PvarTypeOK /\ \A h \in Handles : Accounts(handles[h], expected[h])

-----------------------------------------------------------------------------
\* Dividing leaves one remainder.
LEMMA OneRemainder ==
    ASSUME NEW p \in Int, NEW q \in Int, NEW r \in Values, NEW s \in Values,
           p * Modulus + r = q * Modulus + s
    PROVE  r = s
  <1>1. PICK N \in Nat \ {0} : N = Modulus
    BY PvarAssumption
  <1>2. p * N + r = q * N + s /\ r \in 0..(N - 1) /\ s \in 0..(N - 1)
    BY <1>1 DEF Values
  <1>3. p - q \in Int /\ (p - q) * N = s - r /\ (q - p) * N = r - s
    BY <1>2
  <1>4. CASE p - q >= 1
    <2>1. (p - q) * N >= N
      BY <1>3, <1>4
    <2>. QED
      BY <1>2, <1>3, <2>1
  <1>5. CASE p - q <= -1
    <2>1. (q - p) * N >= N
      BY <1>3, <1>5
    <2>. QED
      BY <1>2, <1>3, <2>1
  <1>6. CASE p = q
    BY <1>2, <1>6
  <1>. QED
    BY <1>2, <1>4, <1>5, <1>6

\* A number is its value and a multiple of the modulus.
LEMMA Division ==
    ASSUME NEW x \in Int
    PROVE  Wrap(x) \in Values /\ \E q \in Int : x = q * Modulus + Wrap(x)
  <1>1. PICK N \in Nat \ {0} : N = Modulus
    BY PvarAssumption
  <1>2. PICK q \in Int : q = x \div N
    OBVIOUS
  <1>3. PICK r \in 0..(N - 1) : r = x % N
    OBVIOUS
  <1>4. x = N * q + r
    BY <1>2, <1>3
  <1>5. x = q * Modulus + Wrap(x) /\ Wrap(x) \in Values
    BY <1>1, <1>3, <1>4 DEF Wrap, Values
  <1>. QED
    BY <1>5

LEMMA WrapOfValue ==
    ASSUME NEW x \in Values
    PROVE  Wrap(x) = x
  <1>1. x \in Int
    BY PvarAssumption DEF Values
  <1>2. PICK w \in Values : w = Wrap(x)
    BY <1>1, Division
  <1>3. PICK q \in Int : x = q * Modulus + w
    BY <1>1, <1>2, Division
  <1>4. 0 * Modulus + x = q * Modulus + w
    BY <1>1, <1>3, PvarAssumption
  <1>5. x = w
    BY <1>4, OneRemainder
  <1>. QED
    BY <1>2, <1>5

\* Wrapping around early or late makes no difference.
LEMMA WrapOfSum ==
    ASSUME NEW x \in Int, NEW y \in Int
    PROVE  Wrap(Wrap(x) + y) = Wrap(x + y)
  <1>0. Values \subseteq Int /\ Modulus \in Int
    BY PvarAssumption DEF Values
  <1>1. PICK a \in Values : a = Wrap(x)
    BY Division
  <1>2. PICK p \in Int : x = p * Modulus + a
    BY <1>1, Division
  <1>3. a + y \in Int /\ x + y \in Int
    BY <1>0
  <1>4. PICK b \in Values : b = Wrap(a + y)
    BY <1>3, Division
  <1>5. PICK q \in Int : a + y = q * Modulus + b
    BY <1>3, <1>4, Division
  <1>6. PICK c \in Values : c = Wrap(x + y)
    BY <1>3, Division
  <1>7. PICK r \in Int : x + y = r * Modulus + c
    BY <1>3, <1>6, Division
  <1>8. (p + q) * Modulus + b = r * Modulus + c
    <2>1. (p + q) * Modulus = p * Modulus + q * Modulus
      BY <1>0
    <2>. QED
      BY <1>0, <1>2, <1>5, <1>7, <2>1
  <1>9. b = c
    BY <1>8, OneRemainder
  <1>. QED
    BY <1>1, <1>4, <1>6, <1>9

-----------------------------------------------------------------------------
LEMMA ValuesAreNumbers == 0 \in Values /\ \A x \in Values : x \in Int
  BY PvarAssumption DEF Values

\* The variable goes on from u to v.
LEMMA AddsUpAfterChange ==
    ASSUME NEW r \in HandleRecords, NEW u \in Values, NEW v \in Values, NEW sum \in Values,
           AddsUp(r, u, sum)
    PROVE  IF r.started THEN AddsUp(r, v, Wrap(sum + v - u)) ELSE AddsUp(r, v, sum)
  <1>0. r.current \in Values /\ r.last \in Values /\ r.started \in BOOLEAN
    BY DEF HandleRecords
  <1>1. r.current \in Int /\ r.last \in Int /\ u \in Int /\ v \in Int
    BY <1>0, ValuesAreNumbers
  <1>2. CASE r.started
    <2>1. PICK x \in Int : x = r.current + u - r.last
      BY <1>1
    <2>2. PICK y \in Int : y = v - u
      BY <1>1
    <2>3. Wrap(x) = sum
      BY <1>2, <2>1 DEF AddsUp
    <2>4. Wrap(sum + y) = Wrap(x + y)
      BY <2>3, WrapOfSum
    <2>5. sum \in Int
      BY ValuesAreNumbers
    <2>6. x + y = r.current + v - r.last /\ sum + y = sum + v - u
      BY <1>1, <2>1, <2>2, <2>5
    <2>. QED
      BY <1>2, <2>4, <2>6 DEF AddsUp
  <1>3. CASE ~r.started
    BY <1>3 DEF AddsUp
  <1>. QED
    BY <1>0, <1>2, <1>3

\* A handle that has just looked reads its total.
LEMMA AddsUpAfterLook ==
    ASSUME NEW r \in HandleRecords, NEW u \in Values, r.last = u
    PROVE  AddsUp(r, u, r.current)
  <1>0. r.current \in Values
    BY DEF HandleRecords
  <1>1. r.current \in Int /\ u \in Int
    BY <1>0, ValuesAreNumbers
  <1>2. r.current + u - r.last = r.current
    BY <1>1
  <1>. QED
    BY <1>0, <1>2, WrapOfValue DEF AddsUp

LEMMA UpdatedHandle ==
    ASSUME PvarTypeOK, NEW h \in Handles, Bound(h), handles[h].pvar + 1 \in DOMAIN pvars
    PROVE  /\ Updated(h) \in HandleRecords
           /\ Updated(h).pvar = handles[h].pvar /\ Updated(h).started = handles[h].started
           /\ \A sum \in Values :
                 IsSum(VarOf(h).d) /\ AddsUp(handles[h], Reading(h), sum)
                   => /\ AddsUp(Updated(h), Reading(h), sum)
                      /\ Updated(h).current = sum
  <1>. DEFINE v == handles[h].pvar + 1
  <1>1. pvars[v] \in PvarRecords
    BY ElementOfSeq DEF PvarTypeOK
  <1>2. PICK d \in PvarDeclarations : d = VarOf(h).d
    BY <1>1 DEF PvarRecords, VarOf
  <1>3. PICK u \in Values : u = Reading(h)
    BY <1>2 DEF PvarTypeOK, Reading
  <1>4. PICK r \in HandleRecords : r = handles[h]
    BY DEF PvarTypeOK
  <1>5. r.current \in Values /\ r.last \in Values /\ r.started \in BOOLEAN
    BY <1>4 DEF HandleRecords
  <1>6. r.current \in Int /\ r.last \in Int /\ u \in Int
    BY <1>5, ValuesAreNumbers
  <1>7. PICK c \in Values : c = Wrap(r.current + u - r.last)
    <2>1. PICK x \in Int : x = r.current + u - r.last
      BY <1>6
    <2>. QED
      BY <2>1, Division
  <1>8. Updated(h) =
          CASE ~r.started \/ (d.continuous /\ ~IsSum(d) /\ ~IsWatermark(d)) -> r
            [] r.started /\ IsSum(d) -> [r EXCEPT !.current = c, !.last = u]
            [] r.started /\ d.class = "LOWWATERMARK" -> [r EXCEPT !.current = Min({@, u})]
            [] r.started /\ d.class = "HIGHWATERMARK" -> [r EXCEPT !.current = Max({@, u})]
            [] OTHER -> [r EXCEPT !.current = u]
    BY <1>2, <1>3, <1>4, <1>7 DEF Updated
  <1>9. Min({r.current, u}) \in Values /\ Max({r.current, u}) \in Values
    BY <1>5, <1>6 DEF Min, Max
  <1>10. CASE ~r.started
    <2>1. Updated(h) = r
      BY <1>8, <1>10
    <2>. QED
      BY <1>3, <1>4, <1>10, <2>1 DEF AddsUp
  <1>11. CASE r.started /\ IsSum(d)
    <2>1. Updated(h) = [r EXCEPT !.current = c, !.last = u]
      <3>1. ~(~r.started \/ (d.continuous /\ ~IsSum(d) /\ ~IsWatermark(d)))
        BY <1>11
      <3>2. d.class # "LOWWATERMARK" /\ d.class # "HIGHWATERMARK"
        BY <1>11 DEF IsSum, Sums
      <3>. QED
        BY <1>8, <1>11, <3>1, <3>2, Zenon
    <2>2. /\ Updated(h) \in HandleRecords /\ Updated(h).current = c /\ Updated(h).last = u
          /\ Updated(h).pvar = r.pvar /\ Updated(h).started = r.started
      BY <2>1 DEF HandleRecords
    <2>3. AddsUp(Updated(h), u, c)
      BY <2>2, AddsUpAfterLook
    <2>4. ASSUME NEW sum \in Values, AddsUp(r, u, sum) PROVE sum = c
      BY <1>7, <1>11, <2>4 DEF AddsUp
    <2>. QED
      BY <1>3, <1>4, <2>2, <2>3, <2>4
  <1>12. CASE r.started /\ ~IsSum(d)
    <2>1. PICK c2 \in Values : Updated(h) = [r EXCEPT !.current = c2]
      <3>1. r = [r EXCEPT !.current = r.current]
        BY DEF HandleRecords
      <3>. QED
        BY <1>5, <1>8, <1>9, <1>12, <3>1
    <2>. QED
      BY <1>2, <1>4, <1>12, <2>1 DEF HandleRecords
  <1>. QED
    BY <1>5, <1>10, <1>11, <1>12

\* The operations on one handle h, which leave it as r.
LEMMA HandleStep ==
    ASSUME PvarInv, NEW h \in Handles, NEW r \in HandleRecords, NEW sum \in Values,
           handles' = [handles EXCEPT ![h] = r],
           expected' = [expected EXCEPT ![h] = sum],
           UNCHANGED <<pvars, underlying, clobbered>>,
           Accounts(r, sum)
    PROVE  PvarInv'
  <1>1. PvarTypeOK'
    BY DEF PvarInv, PvarTypeOK
  <1>2. ASSUME NEW g \in Handles PROVE Accounts(handles[g], expected[g])'
    <2>1. CASE g = h
      <3>1. handles'[g] = r /\ expected'[g] = sum
        BY <2>1 DEF PvarInv, PvarTypeOK
      <3>. QED
        BY <3>1 DEF Accounts
    <2>2. CASE g # h
      <3>1. handles'[g] = handles[g] /\ expected'[g] = expected[g]
        BY <2>2 DEF PvarInv, PvarTypeOK
      <3>. QED
        BY <3>1 DEF PvarInv, Accounts
    <2>. QED
      BY <2>1, <2>2
  <1>. QED
    BY <1>1, <1>2 DEF PvarInv

\* What the operations on a bound handle find.
LEMMA BoundHandle ==
    ASSUME PvarInv, NEW h \in Handles, Bound(h)
    PROVE  /\ handles[h] \in HandleRecords /\ expected[h] \in Values
           /\ handles[h].pvar + 1 \in DOMAIN pvars
           /\ VarOf(h).d \in PvarDeclarations /\ Reading(h) \in Values
           /\ Accounts(handles[h], expected[h])
           /\ expected = [expected EXCEPT ![h] = expected[h]]
  <1>1. handles[h] \in HandleRecords /\ expected[h] \in Values
    BY DEF PvarInv, PvarTypeOK
  <1>2. handles[h].pvar + 1 \in DOMAIN pvars
    BY DEF PvarInv, Accounts, Bound
  <1>3. pvars[handles[h].pvar + 1] \in PvarRecords
    BY <1>2, ElementOfSeq DEF PvarInv, PvarTypeOK
  <1>4. VarOf(h).d \in PvarDeclarations
    BY <1>3 DEF VarOf, PvarRecords
  <1>5. Reading(h) \in Values
    BY <1>4 DEF Reading, PvarInv, PvarTypeOK
  <1>6. expected = [expected EXCEPT ![h] = expected[h]]
    BY DEF PvarInv, PvarTypeOK
  <1>. QED
    BY <1>1, <1>2, <1>4, <1>5, <1>6 DEF PvarInv

\* A record for the same variable accounts for a sum if it adds up.
LEMMA AccountsFor ==
    ASSUME PvarInv, NEW h \in Handles, Bound(h), NEW r \in HandleRecords, NEW sum \in Values,
           r.pvar = handles[h].pvar,
           ~clobbered /\ IsSum(VarOf(h).d) => AddsUp(r, Reading(h), sum)
    PROVE  Accounts(r, sum)
  BY BoundHandle DEF Accounts, VarOf, Reading, Bound

LEMMA AccountsAddUp ==
    ASSUME PvarInv, NEW h \in Handles, Bound(h), ~clobbered, IsSum(VarOf(h).d)
    PROVE  AddsUp(handles[h], Reading(h), expected[h])
  BY BoundHandle DEF Accounts, VarOf, Reading, Bound

-----------------------------------------------------------------------------
(* One lemma per operation *)

LEMMA PvarInitInv == PvarInit => PvarInv
  <1>1. SUFFICES ASSUME PvarInit PROVE PvarInv
    OBVIOUS
  <1>2. Unbound \in HandleRecords /\ Unbound.pvar = -1
    BY ValuesAreNumbers DEF Unbound, HandleRecords
  <1>3. PvarTypeOK
    <2>1. <<>> \in Seq(PvarRecords)
      BY EmptySeq
    <2>2. handles \in [Handles -> HandleRecords]
      BY <1>1, <1>2 DEF PvarInit
    <2>. QED
      BY <1>1, <2>1, <2>2, ValuesAreNumbers DEF PvarInit, PvarTypeOK
  <1>. QED
    BY <1>1, <1>2, <1>3 DEF PvarInit, PvarInv, Accounts

LEMMA RegisterPvarInv ==
    ASSUME PvarInv, NEW d \in PvarDeclarations, RegisterPvar(d)
    PROVE  PvarInv'
  <1>. DEFINE new == [name |-> d.name, d |-> d, valid |-> TRUE, group |-> d.owner]
  <1>1. new \in PvarRecords
    BY DEF PvarRecords
  <1>2. UNCHANGED <<underlying, handles, expected>>
    BY DEF RegisterPvar
  <1>3. CASE FindByName(d.name) = -1
    <2>1. pvars' = Append(pvars, new) /\ clobbered' = clobbered
      BY <1>3 DEF RegisterPvar
    <2>. HIDE DEF new
    <2>2. pvars' \in Seq(PvarRecords) /\ \A i \in DOMAIN pvars : i \in DOMAIN pvars' /\ pvars'[i] = pvars[i]
      BY <1>1, <2>1, AppendProperties DEF PvarInv, PvarTypeOK
    <2>3. ASSUME NEW h \in Handles PROVE Accounts(handles[h], expected[h])'
      BY <1>2, <2>1, <2>2 DEF PvarInv, Accounts
    <2>. QED
      BY <1>2, <2>1, <2>2, <2>3 DEF PvarInv, PvarTypeOK
  <1>4. CASE FindByName(d.name) # -1
    <2>1. /\ pvars' = [pvars EXCEPT ![1].d = d, ![1].valid = TRUE]
          /\ clobbered' = (clobbered \/ pvars[1].d # d)
      BY <1>4 DEF RegisterPvar, FindByName
    <2>2. 1 \in DOMAIN pvars
      <3>1. \E i \in DOMAIN pvars : TRUE
        BY <1>4 DEF FindByName
      <3>. QED
        BY <3>1 DEF PvarInv, PvarTypeOK
    <2>3. PICK p \in PvarRecords : p = pvars[1]
      BY <2>2, ElementOfSeq DEF PvarInv, PvarTypeOK
    <2>4. PICK q \in PvarRecords : q = [p EXCEPT !.d = d, !.valid = TRUE] /\ q.d = d
      <3>1. PICK N, G : PvarRecords = [name : N, d : PvarDeclarations, valid : BOOLEAN, group : G]
        BY DEF PvarRecords
      <3>2. /\ [p EXCEPT !.d = d, !.valid = TRUE] \in PvarRecords
            /\ [p EXCEPT !.d = d, !.valid = TRUE].d = d
        BY <3>1
      <3>. QED
        BY <3>2
    <2>5. pvars' = [pvars EXCEPT ![1] = q]
      BY <2>1, <2>3, <2>4
    <2>6. pvars' \in Seq(PvarRecords) /\ DOMAIN pvars' = DOMAIN pvars
      BY <2>2, <2>5, ExceptSeq DEF PvarInv, PvarTypeOK
    <2>7. ASSUME ~clobbered', NEW i \in DOMAIN pvars PROVE pvars'[i].d = pvars[i].d
      BY <2>1, <2>2, <2>4, <2>5, <2>7
    <2>8. ASSUME NEW h \in Handles PROVE Accounts(handles[h], expected[h])'
      BY <1>2, <2>1, <2>6, <2>7 DEF PvarInv, Accounts
    <2>. QED
      BY <1>2, <2>1, <2>6, <2>8 DEF PvarInv, PvarTypeOK
  <1>. QED
    BY <1>3, <1>4

LEMMA MarkInvalidInv ==
    ASSUME PvarInv, NEW c, MarkInvalid(c)
    PROVE  PvarInv'
  <1>1. /\ UNCHANGED <<underlying, handles, expected, clobbered>>
        /\ pvars' = [i \in DOMAIN pvars |->
                       IF pvars[i].group # c THEN pvars[i]
                       ELSE [pvars[i] EXCEPT !.valid = FALSE, !.group = Unlisted]]
    BY DEF MarkInvalid
  <1>2. ASSUME NEW i \in DOMAIN pvars
        PROVE  pvars'[i] \in PvarRecords /\ pvars'[i].d = pvars[i].d
    <2>1. PICK p \in PvarRecords : p = pvars[i]
      BY ElementOfSeq DEF PvarInv, PvarTypeOK
    <2>2. pvars'[i] = p \/ pvars'[i] = [p EXCEPT !.valid = FALSE, !.group = Unlisted]
      BY <1>1, <2>1
    <2>. QED
      BY <2>1, <2>2 DEF PvarRecords
  <1>3. DOMAIN pvars' = DOMAIN pvars /\ pvars' \in Seq(PvarRecords)
    <2>1. DOMAIN pvars = 1..Len(pvars) /\ Len(pvars) \in Nat
      BY DEF PvarInv, PvarTypeOK
    <2>2. DOMAIN pvars' = DOMAIN pvars
      BY <1>1
    <2>3. pvars' \in [1..Len(pvars) -> PvarRecords]
      BY <1>1, <1>2, <2>1
    <2>. QED
      BY <2>1, <2>2, <2>3
  <1>4. ASSUME NEW h \in Handles PROVE Accounts(handles[h], expected[h])'
    BY <1>1, <1>2, <1>3 DEF PvarInv, Accounts
  <1>. QED
    BY <1>1, <1>3, <1>4 DEF PvarInv, PvarTypeOK

LEMMA ChangeInv ==
    ASSUME PvarInv, NEW d \in PvarDeclarations, NEW v \in Values, Change(d, v)
    PROVE  PvarInv'
  <1>1. /\ UNCHANGED <<pvars, handles, clobbered>>
        /\ underlying' = [underlying EXCEPT ![d] = v]
    BY DEF Change
  <1>2. PICK u \in Values : u = underlying[d]
    BY DEF PvarInv, PvarTypeOK
  <1>3. ASSUME NEW h \in Handles
        PROVE  /\ expected'[h] \in Values
               /\ Accounts(handles[h], expected[h])'
    <2>1. PICK r \in HandleRecords, sum \in Values : r = handles[h] /\ sum = expected[h]
      BY DEF PvarInv, PvarTypeOK
    <2>2. r.started \in BOOLEAN
      BY DEF HandleRecords
    <2>3. CASE Bound(h) /\ r.started /\ VarOf(h).d = d
      <3>1. expected'[h] = Wrap(sum + v - u)
        BY <1>2, <2>1, <2>3 DEF Change
      <3>2. sum \in Int /\ v \in Int /\ u \in Int
        BY ValuesAreNumbers
      <3>3. PICK x \in Int : x = sum + v - u
        BY <3>2
      <3>4. expected'[h] \in Values
        BY <3>1, <3>3, Division
      <3>5. Accounts(handles[h], expected[h])'
        <4>1. SUFFICES ASSUME ~clobbered, IsSum(d)
                       PROVE  AddsUp(r, v, Wrap(sum + v - u))
          BY <1>1, <2>1, <2>3, <3>1, BoundHandle DEF Accounts, VarOf, PvarInv, PvarTypeOK
        <4>2. AddsUp(r, u, sum)
          BY <1>2, <2>1, <2>3, <4>1, AccountsAddUp DEF Reading
        <4>. QED
          BY <2>3, <4>2, AddsUpAfterChange
      <3>. QED
        BY <3>4, <3>5
    <2>4. CASE ~(Bound(h) /\ r.started /\ VarOf(h).d = d)
      <3>1. expected'[h] = sum
        BY <2>1, <2>4 DEF Change
      <3>2. Accounts(handles[h], expected[h])'
        <4>1. CASE ~Bound(h)
          BY <1>1, <4>1 DEF Accounts, Bound
        <4>2. CASE Bound(h) /\ VarOf(h).d # d
          BY <1>1, <2>1, <3>1, <4>2, BoundHandle DEF Accounts, VarOf, PvarInv, PvarTypeOK
        <4>3. CASE Bound(h) /\ VarOf(h).d = d /\ ~r.started
          <5>1. SUFFICES ASSUME ~clobbered, IsSum(d)
                         PROVE  AddsUp(r, v, sum)
            BY <1>1, <2>1, <3>1, <4>3, BoundHandle DEF Accounts, VarOf, PvarInv, PvarTypeOK
          <5>2. AddsUp(r, u, sum)
            BY <1>2, <2>1, <4>3, <5>1, AccountsAddUp DEF Reading
          <5>. QED
            BY <4>3, <5>2 DEF AddsUp
        <4>. QED
          BY <2>2, <2>4, <4>1, <4>2, <4>3
      <3>. QED
        BY <3>1, <3>2
    <2>. QED
      BY <2>3, <2>4
  <1>4. expected' \in [Handles -> Values]
    <2>1. \A h \in Handles : expected'[h] \in Values
      BY <1>3
    <2>2. PICK f : expected' = [h \in Handles |-> f[h]]
      <3>1. expected' = [h \in Handles |-> expected'[h]]
        BY DEF Change
      <3>. QED
        BY <3>1
    <2>. QED
      BY <2>1, <2>2
  <1>5. underlying' \in [PvarDeclarations -> Values]
    BY <1>1 DEF PvarInv, PvarTypeOK
  <1>. QED
    BY <1>1, <1>3, <1>4, <1>5 DEF PvarInv, PvarTypeOK

LEMMA HandleAllocInv ==
    ASSUME PvarInv, NEW h \in Handles, NEW i \in 0..(Len(pvars) - 1), HandleAlloc(h, i)
    PROVE  PvarInv'
  <1>1. i \in Int /\ i # -1 /\ i + 1 \in DOMAIN pvars
    BY DEF PvarInv, PvarTypeOK
  <1>2. pvars[i + 1] \in PvarRecords
    BY <1>1, ElementOfSeq DEF PvarInv, PvarTypeOK
  <1>3. PICK d \in PvarDeclarations : d = pvars[i + 1].d
    BY <1>2 DEF PvarRecords
  <1>4. PICK u \in Values : u = underlying[d]
    BY DEF PvarInv, PvarTypeOK
  <1>5. d.continuous \in BOOLEAN
    BY PvarAssumption
  <1>6. PICK r : r = [pvar |-> i, started |-> d.continuous,
                      current |-> IF d.continuous /\ IsWatermark(d) THEN u ELSE 0,
                      last |-> IF d.continuous /\ IsSum(d) THEN u ELSE 0]
    OBVIOUS
  <1>7. r \in HandleRecords /\ r.pvar = i
    BY <1>1, <1>5, <1>6, ValuesAreNumbers DEF HandleRecords
  <1>8. Accounts(r, 0)
    <2>1. SUFFICES ASSUME IsSum(d) PROVE AddsUp(r, u, 0)
      BY <1>1, <1>3, <1>4, <1>7 DEF Accounts
    <2>2. r.current = 0 /\ r.started = d.continuous
      BY <1>6, <2>1 DEF IsSum, IsWatermark, Sums, Watermarks
    <2>3. CASE d.continuous
      <3>1. r.last = u
        BY <1>6, <2>1, <2>3
      <3>. QED
        BY <1>7, <2>2, <3>1, AddsUpAfterLook
    <2>4. CASE ~d.continuous
      BY <2>2, <2>4 DEF AddsUp
    <2>. QED
      BY <2>3, <2>4
  <1>9. /\ handles' = [handles EXCEPT ![h] = r] /\ expected' = [expected EXCEPT ![h] = 0]
        /\ UNCHANGED <<pvars, underlying, clobbered>>
    BY <1>3, <1>4, <1>6 DEF HandleAlloc
  <1>. QED
    BY <1>7, <1>8, <1>9, HandleStep, ValuesAreNumbers

LEMMA HandleFreeInv ==
    ASSUME PvarInv, NEW hs, HandleFree(hs)
    PROVE  PvarInv'
  <1>1. Unbound \in HandleRecords /\ Unbound.pvar = -1
    BY ValuesAreNumbers DEF Unbound, HandleRecords
  <1>2. /\ UNCHANGED <<pvars, underlying, clobbered>>
        /\ handles' = [h \in Handles |-> IF h \in hs THEN Unbound ELSE handles[h]]
        /\ expected' = [h \in Handles |-> IF h \in hs THEN 0 ELSE expected[h]]
    BY DEF HandleFree
  <1>3. PvarTypeOK'
    BY <1>1, <1>2, ValuesAreNumbers DEF PvarInv, PvarTypeOK
  <1>4. ASSUME NEW h \in Handles PROVE Accounts(handles[h], expected[h])'
    <2>1. CASE h \in hs
      <3>1. handles'[h] = Unbound
        BY <1>2, <2>1
      <3>. QED
        BY <1>1, <3>1 DEF Accounts
    <2>2. CASE h \notin hs
      <3>1. handles'[h] = handles[h] /\ expected'[h] = expected[h]
        BY <1>2, <2>2
      <3>. QED
        BY <1>2, <3>1 DEF PvarInv, Accounts
    <2>. QED
      BY <2>1, <2>2
  <1>. QED
    BY <1>3, <1>4 DEF PvarInv

\* An update of a running handle of a sum notes the reading.
LEMMA SumIsUpToDate ==
    ASSUME PvarInv, NEW h \in Handles, Bound(h), handles[h].started, IsSum(VarOf(h).d)
    PROVE  Updated(h).last = Reading(h)
  <1>1. PICK c : Updated(h) = [handles[h] EXCEPT !.current = c, !.last = Reading(h)]
    BY DEF Updated, IsSum, Sums
  <1>2. handles[h] \in HandleRecords
    BY BoundHandle
  <1>. QED
    BY <1>1, <1>2 DEF HandleRecords

\* An update changes neither the variable of a handle nor what it should read.
LEMMA UpdateKeepsAccounts ==
    ASSUME PvarInv, NEW h \in Handles, Bound(h)
    PROVE  /\ Updated(h) \in HandleRecords
           /\ Updated(h).pvar = handles[h].pvar /\ Updated(h).started = handles[h].started
           /\ ~clobbered /\ IsSum(VarOf(h).d) => Updated(h).current = expected[h]
           /\ Accounts(Updated(h), expected[h])
  <1>1. PICK r \in HandleRecords : r = Updated(h)
    BY BoundHandle, UpdatedHandle DEF PvarInv
  <1>2. r.pvar = handles[h].pvar /\ r.started = handles[h].started
    BY <1>1, BoundHandle, UpdatedHandle DEF PvarInv
  <1>3. PICK sum \in Values : sum = expected[h]
    BY BoundHandle
  <1>4. ASSUME ~clobbered, IsSum(VarOf(h).d)
        PROVE  AddsUp(r, Reading(h), sum) /\ r.current = sum
    <2>1. AddsUp(handles[h], Reading(h), sum)
      BY <1>3, <1>4, AccountsAddUp
    <2>. QED
      BY <1>1, <1>4, <2>1, BoundHandle, UpdatedHandle DEF PvarInv
  <1>5. Accounts(r, sum)
    BY <1>2, <1>4, AccountsFor
  <1>. QED
    BY <1>1, <1>2, <1>3, <1>4, <1>5

LEMMA HandleUpdateInv ==
    ASSUME PvarInv, NEW h \in Handles, HandleUpdate(h)
    PROVE  PvarInv'
  <1>1. /\ Bound(h) /\ handles' = [handles EXCEPT ![h] = Updated(h)]
        /\ UNCHANGED <<pvars, underlying, expected, clobbered>>
    BY DEF HandleUpdate
  <1>2. PICK r \in HandleRecords : r = Updated(h) /\ Accounts(r, expected[h])
    BY <1>1, UpdateKeepsAccounts
  <1>3. PICK sum \in Values : sum = expected[h]
    BY <1>1, BoundHandle
  <1>4. expected' = [expected EXCEPT ![h] = sum]
    BY <1>1, <1>3, BoundHandle
  <1>. QED
    BY <1>1, <1>2, <1>3, <1>4, HandleStep

LEMMA UpdateAllHandlesInv ==
    ASSUME PvarInv, NEW i \in 0..(Len(pvars) - 1), UpdateAllHandles(i)
    PROVE  PvarInv'
  <1>1. /\ handles' = [h \in Handles |-> IF handles[h].pvar = i THEN Updated(h) ELSE handles[h]]
        /\ UNCHANGED <<pvars, underlying, expected, clobbered>>
    BY DEF UpdateAllHandles
  <1>2. ASSUME NEW h \in Handles
        PROVE  handles'[h] \in HandleRecords /\ Accounts(handles'[h], expected[h])
    <2>1. CASE handles[h].pvar = i
      <3>1. Bound(h)
        BY <2>1 DEF Bound, PvarInv, PvarTypeOK
      <3>2. handles'[h] = Updated(h)
        BY <1>1, <2>1
      <3>. QED
        BY <3>1, <3>2, UpdateKeepsAccounts
    <2>2. CASE handles[h].pvar # i
      <3>1. handles'[h] = handles[h]
        BY <1>1, <2>2
      <3>. QED
        BY <3>1 DEF PvarInv, PvarTypeOK
    <2>. QED
      BY <2>1, <2>2
  <1>3. handles' \in [Handles -> HandleRecords]
    <2>1. PICK f : handles' = [h \in Handles |-> f[h]]
      <3>1. handles' = [h \in Handles |-> handles'[h]]
        BY <1>1
      <3>. QED
        BY <3>1
    <2>. QED
      BY <1>2, <2>1
  <1>4. ASSUME NEW h \in Handles PROVE Accounts(handles[h], expected[h])'
    BY <1>1, <1>2 DEF Accounts
  <1>. QED
    BY <1>1, <1>3, <1>4 DEF PvarInv, PvarTypeOK

LEMMA HandleWriteInv ==
    ASSUME PvarInv, NEW h \in Handles, NEW v \in Values, HandleWrite(h, v)
    PROVE  PvarInv'
  <1>1. /\ Bound(h) /\ handles' = [handles EXCEPT ![h] = [Updated(h) EXCEPT !.current = v]]
        /\ expected' = [expected EXCEPT ![h] = v]
        /\ UNCHANGED <<pvars, underlying, clobbered>>
    BY DEF HandleWrite
  <1>2. PICK o \in HandleRecords : /\ o = Updated(h) /\ o.pvar = handles[h].pvar
                                   /\ o.started = handles[h].started
    BY <1>1, UpdateKeepsAccounts
  <1>3. PICK r \in HandleRecords : /\ r = [o EXCEPT !.current = v] /\ r.pvar = o.pvar
                                   /\ r.current = v /\ r.last = o.last /\ r.started = o.started
    <2>1. PICK r : r = [o EXCEPT !.current = v]
      OBVIOUS
    <2>2. /\ r \in HandleRecords /\ r.pvar = o.pvar
          /\ r.current = v /\ r.last = o.last /\ r.started = o.started
      BY <2>1 DEF HandleRecords
    <2>. QED
      BY <2>1, <2>2
  <1>4. ASSUME ~clobbered, IsSum(VarOf(h).d) PROVE AddsUp(r, Reading(h), v)
    <2>1. CASE r.started
      <3>1. o.last = Reading(h)
        BY <1>1, <1>2, <1>3, <1>4, <2>1, SumIsUpToDate
      <3>. QED
        BY <1>1, <1>3, <3>1, AddsUpAfterLook, BoundHandle
    <2>2. CASE ~r.started
      BY <1>3, <2>2 DEF AddsUp
    <2>. QED
      BY <2>1, <2>2
  <1>5. Accounts(r, v)
    BY <1>1, <1>2, <1>3, <1>4, AccountsFor
  <1>. QED
    BY <1>1, <1>2, <1>3, <1>5, HandleStep

LEMMA HandleStartInv ==
    ASSUME PvarInv, NEW h \in Handles, HandleStart(h)
    PROVE  PvarInv'
  <1>1. /\ Bound(h) /\ ~handles[h].started /\ handles' = [handles EXCEPT ![h] = Started(h)]
        /\ UNCHANGED <<pvars, underlying, expected, clobbered>>
    BY DEF HandleStart
  <1>2. PICK o \in HandleRecords, u \in Values, sum \in Values :
             o = handles[h] /\ u = Reading(h) /\ sum = expected[h]
    BY <1>1, BoundHandle
  <1>3. PICK r \in HandleRecords :
          /\ r = Started(h) /\ r.pvar = o.pvar /\ r.started
          /\ IsSum(VarOf(h).d) => r.current = o.current /\ r.last = u
    <2>1. PICK l \in Values, c \in Values :
            /\ l = (IF IsSum(VarOf(h).d) THEN u ELSE o.last)
            /\ c = (IF IsWatermark(VarOf(h).d) THEN u ELSE o.current)
      BY DEF HandleRecords
    <2>2. Started(h) = [o EXCEPT !.started = TRUE, !.last = l, !.current = c]
      BY <1>2, <2>1 DEF Started
    <2>3. PICK r : r = [o EXCEPT !.started = TRUE, !.last = l, !.current = c]
      OBVIOUS
    <2>4. /\ r \in HandleRecords
          /\ r.pvar = o.pvar /\ r.started = TRUE /\ r.last = l /\ r.current = c
      BY <2>3 DEF HandleRecords
    <2>5. ASSUME IsSum(VarOf(h).d) PROVE l = u /\ c = o.current
      BY <2>1, <2>5 DEF IsSum, IsWatermark, Sums, Watermarks
    <2>. QED
      BY <2>2, <2>3, <2>5, <2>4
  <1>4. ASSUME ~clobbered, IsSum(VarOf(h).d) PROVE AddsUp(r, Reading(h), sum)
    <2>1. o.current = sum
      BY <1>1, <1>2, <1>4, AccountsAddUp DEF AddsUp
    <2>. QED
      BY <1>2, <1>3, <1>4, <2>1, AddsUpAfterLook
  <1>5. Accounts(r, sum)
    BY <1>1, <1>2, <1>3, <1>4, AccountsFor
  <1>6. expected' = [expected EXCEPT ![h] = sum]
    BY <1>1, <1>2, BoundHandle
  <1>. QED
    BY <1>1, <1>3, <1>5, <1>6, HandleStep

LEMMA HandleStopInv ==
    ASSUME PvarInv, NEW h \in Handles, HandleStop(h)
    PROVE  PvarInv'
  <1>1. /\ Bound(h) /\ handles' = [handles EXCEPT ![h] = [Updated(h) EXCEPT !.started = FALSE]]
        /\ UNCHANGED <<pvars, underlying, expected, clobbered>>
    BY DEF HandleStop
  <1>2. PICK o \in HandleRecords, sum \in Values :
          /\ o = Updated(h) /\ o.pvar = handles[h].pvar /\ sum = expected[h]
          /\ ~clobbered /\ IsSum(VarOf(h).d) => o.current = sum
    BY <1>1, BoundHandle, UpdateKeepsAccounts
  <1>3. PICK r \in HandleRecords : /\ r = [o EXCEPT !.started = FALSE] /\ r.pvar = o.pvar
                                   /\ r.current = o.current /\ r.started = FALSE
    <2>1. PICK r : r = [o EXCEPT !.started = FALSE]
      OBVIOUS
    <2>2. /\ r \in HandleRecords /\ r.pvar = o.pvar
          /\ r.current = o.current /\ r.started = FALSE
      BY <2>1 DEF HandleRecords
    <2>. QED
      BY <2>1, <2>2
  <1>4. Accounts(r, sum)
    <2>1. ~clobbered /\ IsSum(VarOf(h).d) => AddsUp(r, Reading(h), sum)
      BY <1>2, <1>3 DEF AddsUp
    <2>. QED
      BY <1>1, <1>2, <1>3, <2>1, AccountsFor
  <1>5. expected' = [expected EXCEPT ![h] = sum]
    BY <1>1, <1>2, BoundHandle
  <1>. QED
    BY <1>1, <1>2, <1>3, <1>4, <1>5, HandleStep

LEMMA HandleResetInv ==
    ASSUME PvarInv, NEW h \in Handles, HandleReset(h)
    PROVE  PvarInv'
  <1>1. /\ Bound(h) /\ expected' = [expected EXCEPT ![h] = 0]
        /\ UNCHANGED <<pvars, underlying, clobbered>>
    BY DEF HandleReset
  <1>2. PICK o \in HandleRecords, u \in Values : o = handles[h] /\ u = Reading(h)
    BY <1>1, BoundHandle
  <1>3. o.started \in BOOLEAN /\ o.last \in Values
    BY DEF HandleRecords
  <1>4. CASE IsSum(VarOf(h).d)
    <2>1. PICK l \in Values : l = IF o.started THEN u ELSE o.last
      BY <1>3
    <2>2. handles' = [handles EXCEPT ![h] = [o EXCEPT !.current = 0, !.last = l]]
      BY <1>2, <1>4, <2>1 DEF HandleReset
    <2>3. PICK r : r = [o EXCEPT !.current = 0, !.last = l]
      OBVIOUS
    <2>4. /\ r \in HandleRecords /\ r.pvar = o.pvar
          /\ r.started = o.started /\ r.current = 0 /\ r.last = l
      BY <2>3, ValuesAreNumbers DEF HandleRecords
    <2>5. AddsUp(r, u, 0)
      <3>1. CASE o.started
        BY <2>1, <2>4, <3>1, AddsUpAfterLook
      <3>2. CASE ~o.started
        BY <2>4, <3>2 DEF AddsUp
      <3>. QED
        BY <3>1, <3>2
    <2>6. Accounts(r, 0)
      BY <1>1, <1>2, <2>4, <2>5, AccountsFor, ValuesAreNumbers
    <2>. QED
      BY <1>1, <2>2, <2>3, <2>6, <2>4, HandleStep, ValuesAreNumbers
  <1>5. CASE ~IsSum(VarOf(h).d)
    <2>1. handles' = [handles EXCEPT ![h] = [o EXCEPT !.current = u]]
      BY <1>2, <1>5 DEF HandleReset
    <2>2. PICK r : r = [o EXCEPT !.current = u]
      OBVIOUS
    <2>3. r \in HandleRecords /\ r.pvar = o.pvar
      BY <2>2 DEF HandleRecords
    <2>4. Accounts(r, 0)
      BY <1>1, <1>2, <1>5, <2>3, AccountsFor, ValuesAreNumbers
    <2>. QED
      BY <1>1, <2>1, <2>2, <2>4, <2>3, HandleStep, ValuesAreNumbers
  <1>. QED
    BY <1>4, <1>5

LEMMA PvarNextInv == PvarInv /\ [PvarNext]_pvarVars => PvarInv'
  <1>1. SUFFICES ASSUME PvarInv, [PvarNext]_pvarVars PROVE PvarInv'
    OBVIOUS
  <1>2. CASE UNCHANGED pvarVars
    BY <1>1, <1>2 DEF pvarVars, PvarInv, PvarTypeOK, Accounts, Bound
  <1>3. ASSUME NEW d \in PvarDeclarations, RegisterPvar(d) PROVE PvarInv'
    BY <1>1, <1>3, RegisterPvarInv
  <1>4. ASSUME NEW d \in PvarDeclarations, NEW v \in Values, Change(d, v) PROVE PvarInv'
    BY <1>1, <1>4, ChangeInv
  <1>5. ASSUME NEW c, MarkInvalid(c) PROVE PvarInv'
    BY <1>1, <1>5, MarkInvalidInv
  <1>6. ASSUME NEW h \in Handles, NEW i \in 0..(Len(pvars) - 1), HandleAlloc(h, i) PROVE PvarInv'
    BY <1>1, <1>6, HandleAllocInv
  <1>7. ASSUME NEW h \in Handles, HandleUpdate(h) \/ HandleStart(h) \/ HandleStop(h) \/ HandleReset(h)
        PROVE  PvarInv'
    BY <1>1, <1>7, HandleUpdateInv, HandleStartInv, HandleStopInv, HandleResetInv
  <1>8. ASSUME NEW h \in Handles, NEW v \in Values, HandleWrite(h, v) PROVE PvarInv'
    BY <1>1, <1>8, HandleWriteInv
  <1>9. ASSUME NEW hs, HandleFree(hs) PROVE PvarInv'
    BY <1>1, <1>9, HandleFreeInv
  <1>10. ASSUME NEW i \in 0..(Len(pvars) - 1), UpdateAllHandles(i) PROVE PvarInv'
    BY <1>1, <1>10, UpdateAllHandlesInv
  <1>. QED
    BY <1>1, <1>2, <1>3, <1>4, <1>5, <1>6, <1>7, <1>8, <1>9, <1>10 DEF PvarNext

(* ocoms_mca_base_pvar_handle_read_value of a counter, aggregate or timer   *)
(* returns what the variable grew by while the handle was running, whatever *)
(* was started, stopped, reset, written and updated before, for any         *)
(* variables and handles and whatever the width at which values wrap around.*)
THEOREM HandlesAddUp == PvarSpec => []SumsWhatHappened
  <1>1. PvarInit => PvarInv
    BY PvarInitInv
  <1>2. PvarInv /\ [PvarNext]_pvarVars => PvarInv'
    BY PvarNextInv
  <1>3. PvarInv => SumsWhatHappened
    <2>1. SUFFICES ASSUME PvarInv, ~clobbered, NEW h \in Handles, Bound(h), IsSum(VarOf(h).d)
                   PROVE  ReadValue(h) = expected[h]
      BY DEF SumsWhatHappened
    <2>2. ReadValue(h) = Updated(h).current
      BY <2>1 DEF ReadValue
    <2>. QED
      BY <2>1, <2>2, UpdateKeepsAccounts
  <1>. QED
    BY <1>1, <1>2, <1>3, PTL DEF PvarSpec

(***************************************************************************)
(* The variables                                                           *)
(***************************************************************************)
DeclaredFlags == UNION {d.flags : d \in Declarations}
VarFlags == DeclaredFlags \cup {"VALID", "OVERRIDE", "SYNONYM"}
VarRecords ==
    [name : VarNames, long : {LongName(d) : d \in Declarations},
     type : {d.type : d \in Declarations}, group : Nat, source : 0..5,
     synonymFor : Nat, synonyms : Seq(Nat), storage : Seq(Declarations),
     flags : SUBSET VarFlags]

FrameworkGroups == {FullName(<<FrameworkOf[c]>>) : c \in VarComponents}
ComponentGroups == {GroupName(c) : c \in VarComponents}
GroupNames == FrameworkGroups \cup ComponentGroups
GroupRecords == [name : GroupNames, valid : BOOLEAN, vars : Seq(Nat), subgroups : Seq(Nat)]

\* Of the groups of one name only the last may be valid, the subgroups of a
\* framework's are those of its components, and a valid group of a component
\* is one of a valid group.
GroupsOK(gs) ==
    /\ gs \in Seq(GroupRecords)
    /\ \A h, k \in DOMAIN gs : gs[h].valid /\ h < k => gs[k].name # gs[h].name
    /\ \A h \in DOMAIN gs : \A s \in ToSet(gs[h].subgroups) :
          s \in DOMAIN gs /\ gs[s].name \in ComponentGroups /\ gs[h].name \in FrameworkGroups
    /\ \A h \in DOMAIN gs, c \in VarComponents : gs[h].valid /\ gs[h].name = GroupName(c) =>
          \E p \in DOMAIN gs : /\ gs[p].valid /\ gs[p].name = FullName(<<FrameworkOf[c]>>)
                               /\ h \in ToSet(gs[p].subgroups)

\* Variable i, which goes with its group, has storage in a component in memory,
\* and is in the valid group of that component.
Backed(v, i, gs, in) ==
    /\ v.storage # <<>> /\ v.storage[1].owner \in in
    /\ \E h \in DOMAIN gs : /\ gs[h].valid /\ gs[h].name = GroupName(v.storage[1].owner)
                            /\ i \in ToSet(gs[h].vars)

VarsOK(vs, gs, count, in) ==
    /\ vs \in Seq(VarRecords)
    /\ \A i \in DOMAIN vs : count[vs[i].name] >= 1
    /\ \A i \in DOMAIN vs : Is(vs[i], "VALID") /\ Is(vs[i], "DWG") => Backed(vs[i], i, gs, in)

RegisteredOnce(count) == \A n \in VarNames : count[n] <= 1

VarInv ==
    /\ registered \in [VarNames -> Nat]
    /\ RegisteredOnce(registered) =>
          GroupsOK(groups) /\ VarsOK(mcaVars, groups, registered, loaded)

-----------------------------------------------------------------------------
(* Groups *)

LEMMA NamesOfGroups ==
    /\ \A c \in VarComponents : GroupName(c) \in GroupNames /\ FullName(<<FrameworkOf[c]>>) \in GroupNames
    /\ \A c \in VarComponents : GroupName(c) \in ComponentGroups
    /\ \A c \in VarComponents : FullName(<<FrameworkOf[c]>>) \in FrameworkGroups
    /\ FrameworkGroups \cap ComponentGroups = {}
    /\ \A c, e \in VarComponents : GroupName(c) = GroupName(e) => c = e
    /\ \A c, e \in VarComponents : GroupName(c) # FullName(<<FrameworkOf[e]>>)
  BY NamesAssumption, Zenon DEF GroupNames, FrameworkGroups, ComponentGroups

\* What is found is a valid group of the name.
LEMMA FoundIsValid ==
    ASSUME NEW gs \in Seq(GroupRecords), NEW n, GroupFind(gs, n) # 0
    PROVE  /\ GroupFind(gs, n) \in DOMAIN gs
           /\ gs[GroupFind(gs, n)].valid /\ gs[GroupFind(gs, n)].name = n
  <1>. DEFINE S == {i \in 1..Len(gs) : gs[i].name = n}
  <1>1. GroupFind(gs, n) = LET i == IF S # {} THEN Max(S) ELSE 0
                           IN IF i # 0 /\ gs[i].valid THEN i ELSE 0
    BY DEF GroupFind, SelectLastInSeq
  <1>2. ASSUME S # {} PROVE Max(S) \in S
    <2>1. Len(gs) \in Nat /\ S \in SUBSET (0..Len(gs))
      OBVIOUS
    <2>2. \E k \in S : \A j \in S : j <= k
      <3>. HIDE DEF S
      <3>. QED
        BY <1>2, <2>1, GreatestElement
    <2>. QED
      BY <2>2 DEF Max
  <1>3. S # {} /\ GroupFind(gs, n) = Max(S) /\ gs[Max(S)].valid
    <2>. HIDE DEF S
    <2>. QED
      BY <1>1
  <1>. QED
    BY <1>2, <1>3

\* The valid group of a name is found.
LEMMA ValidIsFound ==
    ASSUME NEW gs, GroupsOK(gs), NEW h \in DOMAIN gs, gs[h].valid
    PROVE  GroupFind(gs, gs[h].name) = h
  <1>. DEFINE n == gs[h].name
              S == {i \in 1..Len(gs) : gs[i].name = n}
  <1>1. DOMAIN gs = 1..Len(gs) /\ Len(gs) \in Nat
    BY DEF GroupsOK
  <1>2. h \in S /\ h # 0 /\ \A j \in S : j <= h
    <2>1. ASSUME NEW j \in S PROVE j <= h
      <3>1. j \in DOMAIN gs /\ gs[j].name = n /\ j \in Nat /\ h \in Nat
        BY <1>1
      <3>. QED
        BY <3>1 DEF GroupsOK
    <2>. QED
      BY <1>1, <2>1
  <1>3. Max(S) = h
    <2>1. \A j \in S : (\A k \in S : k <= j) => j = h
      BY <1>1, <1>2
    <2>. HIDE DEF S
    <2>. QED
      BY <1>2, <2>1 DEF Max
  <1>4. GroupFind(gs, n) = LET i == IF S # {} THEN Max(S) ELSE 0
                           IN IF i # 0 /\ gs[i].valid THEN i ELSE 0
    BY DEF GroupFind, SelectLastInSeq
  <1>. QED
    <2>. HIDE DEF S
    <2>. QED
      BY <1>2, <1>3, <1>4

\* What was in a valid group still is.
Keeps(gs, ns) ==
    \A h \in DOMAIN gs : /\ h \in DOMAIN ns /\ ns[h].valid = gs[h].valid
                         /\ ns[h].name = gs[h].name
                         /\ ToSet(gs[h].vars) \subseteq ToSet(ns[h].vars)

NoneValid(gs, n) == \A h \in DOMAIN gs : gs[h].valid => gs[h].name # n

LEMMA NotFoundNotValid ==
    ASSUME NEW gs, GroupsOK(gs), NEW n, GroupFind(gs, n) = 0
    PROVE  NoneValid(gs, n)
  <1>1. ASSUME NEW h \in DOMAIN gs, gs[h].valid, gs[h].name = n PROVE FALSE
    <2>1. GroupFind(gs, n) = h
      BY <1>1, ValidIsFound
    <2>2. h # 0
      BY DEF GroupsOK
    <2>. QED
      BY <2>1, <2>2
  <1>. QED
    BY <1>1 DEF NoneValid

LEMMA NewGroupIs ==
    ASSUME NEW n \in GroupNames
    PROVE  /\ NewGroup(n) \in GroupRecords /\ NewGroup(n).name = n /\ NewGroup(n).valid
           /\ NewGroup(n).subgroups = <<>>
  BY EmptySeq DEF NewGroup, GroupRecords

LEMMA EmptyHasNone == ToSet(<<>>) = {}
  BY DEF ToSet

LEMMA FrameworkRegistered ==
    ASSUME NEW gs, GroupsOK(gs), NEW c \in VarComponents
    PROVE  LET ns == GroupRegisterFramework(gs, FrameworkOf[c]) IN
           /\ GroupsOK(ns) /\ Keeps(gs, ns)
           /\ \E p \in DOMAIN ns : ns[p].valid /\ ns[p].name = FullName(<<FrameworkOf[c]>>)
           /\ \A h \in DOMAIN ns : ns[h].name \in ComponentGroups => h \in DOMAIN gs
  <1>. DEFINE n == FullName(<<FrameworkOf[c]>>)
  <1>1. gs \in Seq(GroupRecords)
    BY DEF GroupsOK
  <1>2. CASE GroupFind(gs, n) # 0
    <2>1. GroupRegisterFramework(gs, FrameworkOf[c]) = gs
      BY <1>2 DEF GroupRegisterFramework
    <2>. QED
      BY <1>1, <1>2, <2>1, FoundIsValid DEF Keeps
  <1>3. CASE GroupFind(gs, n) = 0
    <2>1. PICK g \in GroupRecords : g = NewGroup(n) /\ g.name = n /\ g.valid /\ g.subgroups = <<>>
      BY NamesOfGroups, NewGroupIs
    <2>0. /\ g.name \in FrameworkGroups /\ g.name \notin ComponentGroups
          /\ \A e \in VarComponents : GroupName(e) # g.name
      BY <2>1, NamesOfGroups
    <2>2. PICK ns : ns = Append(gs, g)
      OBVIOUS
    <2>3. GroupRegisterFramework(gs, FrameworkOf[c]) = ns
      BY <1>3, <2>1, <2>2 DEF GroupRegisterFramework
    <2>4. /\ ns \in Seq(GroupRecords) /\ Len(gs) \in Nat
          /\ DOMAIN gs = 1..Len(gs) /\ DOMAIN ns = 1..Len(gs) + 1
          /\ \A h \in DOMAIN gs : ns[h] = gs[h]
          /\ ns[Len(gs) + 1] = g
      BY <1>1, <2>2, AppendProperties
    <2>5. NoneValid(gs, n)
      BY <1>3, NotFoundNotValid
    <2>6. \A h, k \in DOMAIN ns : ns[h].valid /\ h < k => ns[k].name # ns[h].name
      <3>1. ASSUME NEW h \in DOMAIN ns, NEW k \in DOMAIN ns, ns[h].valid, h < k
            PROVE  ns[k].name # ns[h].name
        <4>1. h \in DOMAIN gs
          BY <2>4, <3>1
        <4>2. CASE k \in DOMAIN gs
          BY <2>4, <3>1, <4>1, <4>2 DEF GroupsOK
        <4>3. CASE k = Len(gs) + 1
          BY <2>1, <2>4, <2>5, <3>1, <4>1, <4>3 DEF NoneValid
        <4>. QED
          BY <2>4, <4>2, <4>3
      <3>. QED
        BY <3>1
    <2>7. ASSUME NEW h \in DOMAIN ns, NEW s \in ToSet(ns[h].subgroups)
          PROVE  s \in DOMAIN ns /\ ns[s].name \in ComponentGroups /\ ns[h].name \in FrameworkGroups
      <3>1. h \in DOMAIN gs
        BY <2>1, <2>4, EmptyHasNone
      <3>2. s \in DOMAIN gs /\ gs[s].name \in ComponentGroups /\ gs[h].name \in FrameworkGroups
        BY <2>4, <3>1 DEF GroupsOK
      <3>. QED
        BY <2>4, <3>1, <3>2
    <2>8. ASSUME NEW h \in DOMAIN ns, NEW e \in VarComponents, ns[h].valid, ns[h].name = GroupName(e)
          PROVE  \E p \in DOMAIN ns : /\ ns[p].valid /\ ns[p].name = FullName(<<FrameworkOf[e]>>)
                                      /\ h \in ToSet(ns[p].subgroups)
      <3>1. h \in DOMAIN gs
        BY <2>0, <2>4, <2>8
      <3>2. PICK p \in DOMAIN gs : /\ gs[p].valid /\ gs[p].name = FullName(<<FrameworkOf[e]>>)
                                   /\ h \in ToSet(gs[p].subgroups)
        BY <2>4, <2>8, <3>1 DEF GroupsOK
      <3>. QED
        BY <2>4, <3>2
    <2>9. GroupsOK(ns)
      BY <2>4, <2>6, <2>7, <2>8 DEF GroupsOK
    <2>10. Keeps(gs, ns)
      BY <2>4 DEF Keeps
    <2>11. ASSUME NEW h \in DOMAIN ns, h \notin DOMAIN gs PROVE ns[h].name \notin ComponentGroups
      <3>1. ns[h] = g
        BY <2>4, <2>11
      <3>. QED
        BY <2>0, <3>1
    <2>. QED
      BY <2>1, <2>3, <2>4, <2>9, <2>10, <2>11
  <1>. QED
    BY <1>2, <1>3

LEMMA AppendAdds ==
    ASSUME NEW s \in Seq(Nat), NEW e \in Nat
    PROVE  Append(s, e) \in Seq(Nat) /\ ToSet(Append(s, e)) = ToSet(s) \cup {e}
  <1>1. PICK t : t = Append(s, e)
    OBVIOUS
  <1>2. /\ t \in Seq(Nat) /\ Len(s) \in Nat /\ Len(t) = Len(s) + 1 /\ t[Len(s) + 1] = e
        /\ \A k \in 1..Len(s) : t[k] = s[k]
    BY <1>1, AppendProperties
  <1>3. ASSUME NEW x PROVE x \in ToSet(t) <=> x \in ToSet(s) \/ x = e
    <2>1. x \in ToSet(t) <=> \E k \in 1..Len(s) + 1 : t[k] = x
      BY <1>2, SetOfSequence
    <2>2. x \in ToSet(s) <=> \E k \in 1..Len(s) : s[k] = x
      BY SetOfSequence
    <2>3. \A k \in 1..Len(s) + 1 : k \in 1..Len(s) \/ k = Len(s) + 1
      BY <1>2
    <2>4. Len(s) + 1 \in 1..Len(s) + 1 /\ \A k \in 1..Len(s) : k \in 1..Len(s) + 1
      BY <1>2
    <2>. QED
      BY <1>2, <2>1, <2>2, <2>3, <2>4
  <1>. QED
    BY <1>1, <1>2, <1>3

LEMMA KeepsIsTransitive ==
    ASSUME NEW gs, NEW ms, NEW ns, Keeps(gs, ms), Keeps(ms, ns)
    PROVE  Keeps(gs, ns)
  BY DEF Keeps

\* group_register of a component: the framework's group has it as a subgroup.
LEMMA ComponentRegistered ==
    ASSUME NEW gs, GroupsOK(gs), NEW c \in VarComponents
    PROVE  LET ns == GroupRegister(gs, c) IN
           /\ GroupsOK(ns) /\ Keeps(gs, ns)
           /\ \E g \in DOMAIN ns : ns[g].valid /\ ns[g].name = GroupName(c)
  <1>. DEFINE n == GroupName(c)
  <1>1. CASE GroupFind(gs, n) # 0
    <2>1. GroupRegister(gs, c) = gs
      BY <1>1 DEF GroupRegister
    <2>2. gs \in Seq(GroupRecords)
      BY DEF GroupsOK
    <2>. QED
      BY <1>1, <2>1, <2>2, FoundIsValid DEF Keeps
  <1>2. CASE GroupFind(gs, n) = 0
    <2>1. PICK ms : ms = GroupRegisterFramework(gs, FrameworkOf[c])
      OBVIOUS
    <2>2. /\ GroupsOK(ms) /\ Keeps(gs, ms)
          /\ \A h \in DOMAIN ms : ms[h].name \in ComponentGroups => h \in DOMAIN gs
      BY <2>1, FrameworkRegistered
    <2>3. PICK p \in DOMAIN ms : ms[p].valid /\ ms[p].name = FullName(<<FrameworkOf[c]>>)
      BY <2>1, FrameworkRegistered
    <2>4. GroupFind(ms, FullName(<<FrameworkOf[c]>>)) = p
      BY <2>2, <2>3, ValidIsFound
    <2>5. PICK g \in GroupRecords :
            /\ g = NewGroup(n) /\ g.name = n /\ g.valid /\ g.subgroups = <<>>
      BY NamesOfGroups, NewGroupIs
    <2>6. /\ g.name \in ComponentGroups
          /\ \A e \in VarComponents : g.name = GroupName(e) => e = c
      BY <2>5, NamesOfGroups
    <2>7. PICK last : last = Len(ms) + 1
      OBVIOUS
    <2>8. PICK q : q = [ms[p] EXCEPT !.subgroups = Append(@, last)]
      OBVIOUS
    <2>9. PICK ws : ws = [ms EXCEPT ![p] = q]
      OBVIOUS
    <2>10. PICK ns : ns = Append(ws, g)
      OBVIOUS
    <2>11. GroupRegister(gs, c) = ns
      BY <1>2, <2>1, <2>4, <2>5, <2>7, <2>8, <2>9, <2>10 DEF GroupRegister
    <2>12. /\ ms \in Seq(GroupRecords) /\ Len(ms) \in Nat /\ DOMAIN ms = 1..Len(ms)
           /\ last \in Nat /\ p \in Nat /\ p < last
      BY <2>2, <2>7 DEF GroupsOK
    <2>13. PICK r \in GroupRecords : r = ms[p]
      BY <2>12, ElementOfSeq
    <2>14. /\ q \in GroupRecords /\ q.name = r.name /\ q.valid = r.valid /\ q.vars = r.vars
           /\ ToSet(q.subgroups) = ToSet(r.subgroups) \cup {last}
      <3>1. r.subgroups \in Seq(Nat)
        BY DEF GroupRecords
      <3>2. PICK t \in Seq(Nat) : t = Append(r.subgroups, last)
        BY <2>12, <3>1, AppendProperties
      <3>3. ToSet(t) = ToSet(r.subgroups) \cup {last}
        BY <2>12, <3>1, <3>2, AppendAdds
      <3>4. q = [r EXCEPT !.subgroups = t]
        BY <2>8, <2>13, <3>2
      <3>5. /\ q \in GroupRecords /\ q.name = r.name /\ q.valid = r.valid /\ q.vars = r.vars
            /\ q.subgroups = t
        BY <3>4 DEF GroupRecords
      <3>. QED
        BY <3>3, <3>5
    <2>15. /\ ws \in Seq(GroupRecords) /\ Len(ws) = Len(ms) /\ DOMAIN ws = DOMAIN ms
           /\ ws[p] = q /\ \A h \in DOMAIN ms : h # p => ws[h] = ms[h]
      BY <2>9, <2>12, <2>14, ExceptSeq
    <2>16. /\ ns \in Seq(GroupRecords) /\ DOMAIN ns = 1..last /\ ns[last] = g
           /\ ns[p] = q /\ \A h \in DOMAIN ms : h \in DOMAIN ns /\ (h # p => ns[h] = ms[h])
      BY <2>7, <2>10, <2>12, <2>15, AppendProperties
    <2>17. \A h \in DOMAIN ns : h \in DOMAIN ms \/ h = last
      BY <2>7, <2>12, <2>16
    <2>18. \A h \in DOMAIN ms : /\ ns[h].name = ms[h].name /\ ns[h].valid = ms[h].valid
                                /\ ns[h].vars = ms[h].vars
      BY <2>13, <2>14, <2>16
    <2>19. \A h \in DOMAIN ms : /\ ToSet(ms[h].subgroups) \subseteq ToSet(ns[h].subgroups)
                                /\ ToSet(ns[h].subgroups) \subseteq ToSet(ms[h].subgroups) \cup {last}
                                /\ h # p => ns[h].subgroups = ms[h].subgroups
      BY <2>13, <2>14, <2>16
    <2>20. NoneValid(ms, n)
      <3>1. ASSUME NEW h \in DOMAIN ms, ms[h].valid, ms[h].name = n PROVE FALSE
        <4>1. h \in DOMAIN gs
          BY <2>2, <3>1, NamesOfGroups
        <4>2. gs[h].valid /\ gs[h].name = n
          BY <2>2, <3>1, <4>1 DEF Keeps
        <4>. QED
          BY <1>2, <4>1, <4>2, NotFoundNotValid DEF NoneValid
      <3>. QED
        BY <3>1 DEF NoneValid
    <2>21. \A h, k \in DOMAIN ns : ns[h].valid /\ h < k => ns[k].name # ns[h].name
      <3>1. ASSUME NEW h \in DOMAIN ns, NEW k \in DOMAIN ns, ns[h].valid, h < k
            PROVE  ns[k].name # ns[h].name
        <4>1. h \in DOMAIN ms
          BY <2>7, <2>12, <2>16, <3>1
        <4>2. CASE k \in DOMAIN ms
          BY <2>2, <2>18, <3>1, <4>1, <4>2 DEF GroupsOK
        <4>3. CASE k = last
          BY <2>5, <2>16, <2>18, <2>20, <3>1, <4>1, <4>3 DEF NoneValid
        <4>. QED
          BY <2>17, <4>2, <4>3
      <3>. QED
        BY <3>1
    <2>22. ASSUME NEW h \in DOMAIN ns, NEW s \in ToSet(ns[h].subgroups)
           PROVE  s \in DOMAIN ns /\ ns[s].name \in ComponentGroups /\ ns[h].name \in FrameworkGroups
      <3>1. h \in DOMAIN ms
        BY <2>5, <2>16, <2>17, EmptyHasNone
      <3>2. CASE s \in ToSet(ms[h].subgroups)
        <4>1. s \in DOMAIN ms /\ ms[s].name \in ComponentGroups /\ ms[h].name \in FrameworkGroups
          BY <2>2, <3>1, <3>2 DEF GroupsOK
        <4>. QED
          BY <2>16, <2>18, <3>1, <4>1
      <3>3. CASE s \notin ToSet(ms[h].subgroups)
        <4>1. s = last /\ h = p
          BY <2>19, <3>1, <3>3
        <4>2. last \in DOMAIN ns
          BY <2>7, <2>12, <2>16
        <4>3. ns[p].name = FullName(<<FrameworkOf[c]>>)
          BY <2>3, <2>18
        <4>. QED
          BY <2>6, <2>16, <4>1, <4>2, <4>3, NamesOfGroups
      <3>. QED
        BY <3>2, <3>3
    <2>23. ASSUME NEW h \in DOMAIN ns, NEW e \in VarComponents, ns[h].valid, ns[h].name = GroupName(e)
           PROVE  \E r1 \in DOMAIN ns : /\ ns[r1].valid /\ ns[r1].name = FullName(<<FrameworkOf[e]>>)
                                        /\ h \in ToSet(ns[r1].subgroups)
      <3>1. CASE h \in DOMAIN ms
        <4>1. PICK r1 \in DOMAIN ms : /\ ms[r1].valid /\ ms[r1].name = FullName(<<FrameworkOf[e]>>)
                                      /\ h \in ToSet(ms[r1].subgroups)
          BY <2>2, <2>18, <2>23, <3>1 DEF GroupsOK
        <4>. QED
          BY <2>16, <2>18, <2>19, <4>1
      <3>2. CASE h = last
        <4>1. e = c
          BY <2>6, <2>16, <2>23, <3>2
        <4>2. p \in DOMAIN ns /\ last \in ToSet(ns[p].subgroups) /\ ns[p].valid
          BY <2>3, <2>14, <2>16, <2>18
        <4>3. ns[p].name = FullName(<<FrameworkOf[c]>>)
          BY <2>3, <2>18
        <4>. QED
          BY <3>2, <4>1, <4>2, <4>3
      <3>. QED
        BY <2>17, <3>1, <3>2
    <2>24. GroupsOK(ns)
      BY <2>16, <2>21, <2>22, <2>23 DEF GroupsOK
    <2>25. Keeps(ms, ns)
      BY <2>16, <2>18 DEF Keeps
    <2>26. Keeps(gs, ns)
      BY <2>2, <2>25, KeepsIsTransitive
    <2>27. last \in DOMAIN ns /\ ns[last].valid /\ ns[last].name = n
      BY <2>5, <2>7, <2>12, <2>16
    <2>. QED
      BY <2>11, <2>24, <2>26, <2>27
  <1>. QED
    BY <1>1, <1>2

\* ocoms_mca_base_var_group_add_var: the variable is in the group.
LEMMA VariableAdded ==
    ASSUME NEW gs, GroupsOK(gs), NEW g \in DOMAIN gs, gs[g].valid, NEW i \in Nat
    PROVE  LET ns == GroupAddVar(gs, g, i) IN
           /\ GroupsOK(ns) /\ Keeps(gs, ns)
           /\ g \in DOMAIN ns /\ i \in ToSet(ns[g].vars)
  <1>1. gs \in Seq(GroupRecords) /\ DOMAIN gs = 1..Len(gs)
    BY DEF GroupsOK
  <1>2. PICK r \in GroupRecords : r = gs[g]
    BY <1>1, ElementOfSeq
  <1>3. r.vars \in Seq(Nat)
    BY DEF GroupRecords
  <1>4. CASE Contains(r.vars, i)
    <2>1. GroupAddVar(gs, g, i) = gs
      BY <1>2, <1>4 DEF GroupAddVar
    <2>2. i \in ToSet(r.vars)
      BY <1>3, <1>4 DEF Contains, ToSet
    <2>. QED
      BY <1>2, <2>1, <2>2 DEF Keeps
  <1>5. CASE ~Contains(r.vars, i)
    <2>1. PICK t \in Seq(Nat) : t = Append(r.vars, i)
      BY <1>3, AppendProperties
    <2>2. ToSet(t) = ToSet(r.vars) \cup {i}
      BY <1>3, <2>1, AppendAdds
    <2>3. PICK q : q = [r EXCEPT !.vars = t]
      OBVIOUS
    <2>4. /\ q \in GroupRecords /\ q.name = r.name /\ q.valid = r.valid
          /\ q.vars = t /\ q.subgroups = r.subgroups
      BY <2>3 DEF GroupRecords
    <2>5. PICK ns : ns = [gs EXCEPT ![g] = q]
      OBVIOUS
    <2>6. GroupAddVar(gs, g, i) = ns
      BY <1>2, <1>5, <2>1, <2>3, <2>5 DEF GroupAddVar
    <2>7. /\ ns \in Seq(GroupRecords) /\ DOMAIN ns = DOMAIN gs
          /\ ns[g] = q /\ \A h \in DOMAIN gs : h # g => ns[h] = gs[h]
      BY <1>1, <2>4, <2>5, ExceptSeq
    <2>8. \A h \in DOMAIN gs : /\ ns[h].name = gs[h].name /\ ns[h].valid = gs[h].valid
                               /\ ns[h].subgroups = gs[h].subgroups
                               /\ ToSet(gs[h].vars) \subseteq ToSet(ns[h].vars)
      BY <1>2, <2>2, <2>4, <2>7
    <2>9. GroupsOK(ns)
      <3>1. \A h, k \in DOMAIN ns : ns[h].valid /\ h < k => ns[k].name # ns[h].name
        BY <2>7, <2>8 DEF GroupsOK
      <3>2. ASSUME NEW h \in DOMAIN ns, NEW s \in ToSet(ns[h].subgroups)
            PROVE  s \in DOMAIN ns /\ ns[s].name \in ComponentGroups /\ ns[h].name \in FrameworkGroups
        <4>1. s \in DOMAIN gs /\ gs[s].name \in ComponentGroups /\ gs[h].name \in FrameworkGroups
          BY <2>7, <2>8 DEF GroupsOK
        <4>. QED
          BY <2>7, <2>8, <4>1
      <3>3. ASSUME NEW h \in DOMAIN ns, NEW c \in VarComponents, ns[h].valid,
                   ns[h].name = GroupName(c)
            PROVE  \E p \in DOMAIN ns : /\ ns[p].valid /\ ns[p].name = FullName(<<FrameworkOf[c]>>)
                                        /\ h \in ToSet(ns[p].subgroups)
        <4>1. PICK p \in DOMAIN gs : /\ gs[p].valid /\ gs[p].name = FullName(<<FrameworkOf[c]>>)
                                     /\ h \in ToSet(gs[p].subgroups)
          BY <2>7, <2>8, <3>3 DEF GroupsOK
        <4>. QED
          BY <2>7, <2>8, <4>1
      <3>. QED
        BY <2>7, <3>1, <3>2, <3>3 DEF GroupsOK
    <2>10. Keeps(gs, ns)
      BY <2>7, <2>8 DEF Keeps
    <2>. QED
      BY <2>2, <2>4, <2>6, <2>7, <2>9, <2>10
  <1>. QED
    BY <1>4, <1>5

-----------------------------------------------------------------------------
(* Initial values *)

\* Entries that differ in what the groups do not ask for.
SameVars(vs, ws) ==
    /\ ws \in Seq(VarRecords) /\ DOMAIN ws = DOMAIN vs
    /\ \A i \in DOMAIN vs : /\ ws[i].name = vs[i].name /\ ws[i].storage = vs[i].storage
                            /\ Is(ws[i], "VALID") <=> Is(vs[i], "VALID")
                            /\ Is(ws[i], "DWG") <=> Is(vs[i], "DWG")

IsState(D) ==
    /\ D = [vars |-> D.vars, groups |-> D.groups, store |-> D.store]
    /\ D.vars \in Seq(VarRecords)

Follows(D, E) == IsState(E) /\ E.groups = D.groups /\ SameVars(D.vars, E.vars)

LEMMA FollowsItself ==
    ASSUME NEW D, IsState(D)
    PROVE  Follows(D, D)
  BY DEF IsState, Follows, SameVars

LEMMA FollowsOn ==
    ASSUME NEW D, NEW E, NEW F, Follows(D, E), Follows(E, F)
    PROVE  Follows(D, F)
  BY DEF Follows, SameVars

\* One entry is replaced.
LEMMA EntryChanges ==
    ASSUME NEW vs \in Seq(VarRecords), NEW i, NEW v,
           i \in DOMAIN vs => /\ v \in VarRecords
                              /\ v.name = vs[i].name /\ v.storage = vs[i].storage
                              /\ Is(v, "VALID") <=> Is(vs[i], "VALID")
                              /\ Is(v, "DWG") <=> Is(vs[i], "DWG")
    PROVE  SameVars(vs, [vs EXCEPT ![i] = v])
  <1>1. CASE i \in DOMAIN vs
    <2>1. PICK ws : ws = [vs EXCEPT ![i] = v]
      OBVIOUS
    <2>2. /\ ws \in Seq(VarRecords) /\ DOMAIN ws = DOMAIN vs
          /\ ws[i] = v /\ \A j \in DOMAIN vs : j # i => ws[j] = vs[j]
      BY <1>1, <2>1, ExceptSeq
    <2>. QED
      BY <1>1, <2>1, <2>2 DEF SameVars
  <1>2. CASE i \notin DOMAIN vs
    <2>1. [vs EXCEPT ![i] = v] = vs
      BY <1>2
    <2>. QED
      BY <2>1 DEF SameVars
  <1>. QED
    BY <1>1, <1>2

LEMMA FlagsAdded == "VALID" \in VarFlags /\ "OVERRIDE" \in VarFlags /\ "SYNONYM" \in VarFlags
  BY DEF VarFlags

LEMMA SourceFollows ==
    ASSUME NEW D, IsState(D), NEW o, NEW s \in 0..5
    PROVE  Follows(D, Source(D, o, s))
  <1>1. PICK v : v = [D.vars[o] EXCEPT !.source = s]
    OBVIOUS
  <1>2. PICK ws : ws = [D.vars EXCEPT ![o] = v]
    OBVIOUS
  <1>3. ASSUME o \in DOMAIN D.vars
        PROVE  /\ v \in VarRecords
               /\ v.name = D.vars[o].name /\ v.storage = D.vars[o].storage
               /\ Is(v, "VALID") <=> Is(D.vars[o], "VALID")
               /\ Is(v, "DWG") <=> Is(D.vars[o], "DWG")
    <2>1. PICK r \in VarRecords : r = D.vars[o]
      BY <1>3, ElementOfSeq DEF IsState
    <2>2. /\ v \in VarRecords /\ v.name = r.name /\ v.storage = r.storage /\ v.flags = r.flags
      BY <1>1, <2>1 DEF VarRecords
    <2>. QED
      BY <2>1, <2>2 DEF Is
  <1>4. SameVars(D.vars, ws)
    BY <1>2, <1>3, EntryChanges DEF IsState
  <1>5. PICK E : E = Source(D, o, s)
    OBVIOUS
  <1>6. E = [vars |-> ws, groups |-> D.groups, store |-> D.store]
    BY <1>1, <1>2, <1>5 DEF Source, IsState
  <1>7. ws \in Seq(VarRecords)
    BY <1>4 DEF SameVars
  <1>8. Follows(D, E)
    BY <1>4, <1>6, <1>7 DEF Follows, IsState
  <1>. QED
    BY <1>5, <1>8

LEMMA AssignFollows ==
    ASSUME NEW D, IsState(D), NEW o, NEW text
    PROVE  Follows(D, Assign(D, o, text).D)
  <1>1. PICK v : v = var_set_from_string(D.vars[o].type, text)
    OBVIOUS
  <1>2. CASE v = NoText
    <2>1. Assign(D, o, text).D = D
      BY <1>1, <1>2 DEF Assign
    <2>. QED
      BY <2>1, FollowsItself
  <1>3. CASE v # NoText /\ D.vars[o].storage = <<>>
    <2>1. Assign(D, o, text).D = D
      BY <1>1, <1>3 DEF Assign
    <2>. QED
      BY <2>1, FollowsItself
  <1>4. CASE v # NoText /\ D.vars[o].storage # <<>>
    <2>1. PICK t : t = [D.store EXCEPT ![D.vars[o].storage[1]] = v]
      OBVIOUS
    <2>2. Assign(D, o, text).D = [vars |-> D.vars, groups |-> D.groups, store |-> t]
      BY <1>1, <1>4, <2>1 DEF Assign, IsState
    <2>. QED
      BY <2>2 DEF Follows, IsState, SameVars
  <1>. QED
    BY <1>2, <1>3, <1>4

LEMMA EnvFollows ==
    ASSUME NEW D, IsState(D), NEW i
    PROVE  Follows(D, var_set_from_env(D, i).D)
  <1>1. PICK o : o = Original(D.vars, i)
    OBVIOUS
  <1>2. PICK n : n = D.vars[i].name
    OBVIOUS
  <1>3. PICK s \in 0..5 : s = CASE world.source[n] = "file" -> FILE
                                [] world.source[n] = "override" -> OVERRIDE
                                [] world.source[n] = "command" -> COMMAND_LINE
                                [] OTHER -> ENV
    BY DEF FILE, OVERRIDE, COMMAND_LINE, ENV
  <1>4. PICK text : text = world.env[n]
    OBVIOUS
  <1>5. \/ var_set_from_env(D, i).D = D
        \/ var_set_from_env(D, i) = Assign(Source(D, o, s), o, text)
    BY <1>1, <1>2, <1>3, <1>4, Zenon DEF var_set_from_env
  <1>6. PICK E : E = Source(D, o, s)
    OBVIOUS
  <1>7. Follows(D, E) /\ IsState(E)
    BY <1>6, SourceFollows DEF Follows
  <1>8. Follows(E, Assign(E, o, text).D)
    BY <1>7, AssignFollows
  <1>9. Follows(D, Assign(E, o, text).D)
    BY <1>7, <1>8, FollowsOn
  <1>. QED
    BY <1>5, <1>6, <1>9, FollowsItself

LEMMA FileFollows ==
    ASSUME NEW D, IsState(D), NEW i, NEW values
    PROVE  Follows(D, var_set_from_file(D, i, values).D)
  <1>1. PICK o : o = Original(D.vars, i)
    OBVIOUS
  <1>3. PICK k : k = SelectInSeq(values,
                       LAMBDA e : e.key \in {D.vars[i].name, D.vars[i].long})
    OBVIOUS
  <1>4. PICK text : text = values[k].text
    OBVIOUS
  <1>5. \/ var_set_from_file(D, i, values).D = D
        \/ var_set_from_file(D, i, values) = Assign(Source(D, o, FILE), o, text)
    BY <1>1, <1>3, <1>4, Zenon DEF var_set_from_file
  <1>6. PICK E : E = Source(D, o, FILE)
    OBVIOUS
  <1>7. FILE \in 0..5
    BY DEF FILE
  <1>8. Follows(D, E) /\ IsState(E)
    BY <1>6, <1>7, SourceFollows DEF Follows
  <1>9. Follows(E, Assign(E, o, text).D)
    BY <1>8, AssignFollows
  <1>10. Follows(D, Assign(E, o, text).D)
    BY <1>8, <1>9, FollowsOn
  <1>. QED
    BY <1>5, <1>6, <1>10, FollowsItself

LEMMA OverriddenFollows ==
    ASSUME NEW r, IsState(r.D), NEW i
    PROVE  Follows(r.D, Overridden(r, i))
  <1>1. CASE r.ret # "SUCCESS"
    BY <1>1, FollowsItself DEF Overridden
  <1>2. CASE r.ret = "SUCCESS"
    <2>1. PICK D : D = r.D
      OBVIOUS
    <2>2. PICK v : v = [D.vars[i] EXCEPT !.source = OVERRIDE,
                                         !.flags = (@ \cup {"OVERRIDE"}) \ {"SETTABLE"}]
      OBVIOUS
    <2>3. PICK ws : ws = [D.vars EXCEPT ![i] = v]
      OBVIOUS
    <2>4. ASSUME i \in DOMAIN D.vars
          PROVE  /\ v \in VarRecords
                 /\ v.name = D.vars[i].name /\ v.storage = D.vars[i].storage
                 /\ Is(v, "VALID") <=> Is(D.vars[i], "VALID")
                 /\ Is(v, "DWG") <=> Is(D.vars[i], "DWG")
      <3>1. PICK q \in VarRecords : q = D.vars[i]
        BY <2>1, <2>4, ElementOfSeq DEF IsState
      <3>2. PICK fs : fs = (q.flags \cup {"OVERRIDE"}) \ {"SETTABLE"}
        OBVIOUS
      <3>3. /\ fs \in SUBSET VarFlags
            /\ "VALID" \in fs <=> "VALID" \in q.flags
            /\ "DWG" \in fs <=> "DWG" \in q.flags
        <4>1. q.flags \in SUBSET VarFlags
          BY DEF VarRecords
        <4>. QED
          BY <3>2, <4>1, FlagsAdded
      <3>4. v = [q EXCEPT !.source = OVERRIDE, !.flags = fs]
        BY <2>2, <3>1, <3>2
      <3>5. OVERRIDE \in 0..5
        BY DEF OVERRIDE
      <3>6. /\ v \in VarRecords /\ v.name = q.name /\ v.storage = q.storage /\ v.flags = fs
        BY <3>3, <3>4, <3>5 DEF VarRecords
      <3>. QED
        BY <3>1, <3>3, <3>6 DEF Is
    <2>5. SameVars(D.vars, ws)
      BY <2>1, <2>3, <2>4, EntryChanges DEF IsState
    <2>6. PICK E : E = Overridden(r, i)
      OBVIOUS
    <2>7. E = [vars |-> ws, groups |-> D.groups, store |-> D.store]
      BY <1>2, <2>1, <2>2, <2>3, <2>6 DEF Overridden, IsState
    <2>8. Follows(D, E)
      BY <2>5, <2>7 DEF Follows, IsState, SameVars
    <2>. QED
      BY <2>1, <2>6, <2>8
  <1>. QED
    BY <1>1, <1>2

\* var_set_initial changes values and sources, and no more.
LEMMA InitialFollows ==
    ASSUME NEW D, IsState(D), NEW i
    PROVE  Follows(D, var_set_initial(D, i).D)
  <1>1. PICK E : E = Source(D, i, DEFAULT)
    OBVIOUS
  <1>2. Follows(D, E) /\ IsState(E)
    BY <1>1, SourceFollows DEF DEFAULT, Follows
  <1>3. PICK r : r = var_set_from_file(E, i, world.override)
    OBVIOUS
  <1>4. Follows(E, r.D) /\ IsState(r.D)
    BY <1>2, <1>3, FileFollows DEF Follows
  <1>5. PICK F : F = Overridden(r, i)
    OBVIOUS
  <1>6. Follows(r.D, F) /\ IsState(F)
    BY <1>4, <1>5, OverriddenFollows DEF Follows
  <1>7. Follows(D, F)
    BY <1>2, <1>4, <1>6, FollowsOn
  <1>8. Follows(F, EnvBeforeFiles(F, i).D)
    <2>1. PICK e : e = var_set_from_env(F, i)
      OBVIOUS
    <2>2. PICK f : f = var_set_from_file(F, i, world.file)
      OBVIOUS
    <2>3. Follows(F, e.D) /\ Follows(F, f.D) /\ Follows(F, KeepDefault(F).D)
      BY <1>6, <2>1, <2>2, EnvFollows, FileFollows, FollowsItself DEF KeepDefault
    <2>4. PICK k : k = KeepDefault(F)
      OBVIOUS
    <2>5. EnvBeforeFiles(F, i) \in {e, f, k}
      BY <2>1, <2>2, <2>4 DEF EnvBeforeFiles, FirstFound
    <2>. QED
      BY <2>3, <2>4, <2>5
  <1>9. Follows(D, EnvBeforeFiles(F, i).D)
    BY <1>7, <1>8, FollowsOn
  <1>10. var_set_initial(D, i) \in {r, EnvBeforeFiles(F, i)}
    BY <1>1, <1>3, <1>5 DEF var_set_initial
  <1>11. Follows(D, r.D)
    BY <1>2, <1>4, FollowsOn
  <1>. QED
    BY <1>9, <1>10, <1>11

\* The initial value can make entry i valid, and no other.
LEMMA InitializedFollows ==
    ASSUME NEW D, IsState(D), NEW i
    PROVE  LET E == Initialized([i |-> i, D |-> D]) IN
           /\ IsState(E) /\ E.groups = D.groups /\ DOMAIN E.vars = DOMAIN D.vars
           /\ \A j \in DOMAIN D.vars :
                /\ E.vars[j].name = D.vars[j].name /\ E.vars[j].storage = D.vars[j].storage
                /\ Is(E.vars[j], "DWG") <=> Is(D.vars[j], "DWG")
                /\ j # i => (Is(E.vars[j], "VALID") <=> Is(D.vars[j], "VALID"))
  <1>1. PICK r : r = var_set_initial(D, i)
    OBVIOUS
  <1>2. PICK F : F = r.D
    OBVIOUS
  <1>3. Follows(D, F)
    BY <1>1, <1>2, InitialFollows
  <1>4. PICK E : E = Validated(r, i)
    OBVIOUS
  <1>5. Initialized([i |-> i, D |-> D]) = E
    BY <1>1, <1>4 DEF Initialized
  <1>6. CASE r.ret # "SUCCESS"
    <2>1. E = F
      BY <1>2, <1>4, <1>6 DEF Validated
    <2>. QED
      BY <1>3, <1>5, <2>1 DEF Follows, SameVars
  <1>7. CASE r.ret = "SUCCESS"
    <2>1. PICK v : v = [F.vars[i] EXCEPT !.flags = @ \cup {"VALID"}]
      OBVIOUS
    <2>2. PICK ws : ws = [F.vars EXCEPT ![i] = v]
      OBVIOUS
    <2>3. E = [vars |-> ws, groups |-> F.groups, store |-> F.store]
      BY <1>2, <1>3, <1>4, <1>7, <2>1, <2>2 DEF Validated, Follows, IsState
    <2>4. F.vars \in Seq(VarRecords)
      BY <1>3 DEF Follows, IsState
    <2>5. CASE i \notin DOMAIN F.vars
      <3>1. ws = F.vars
        BY <2>2, <2>4, <2>5
      <3>. QED
        BY <1>3, <1>5, <2>3, <2>4, <3>1 DEF Follows, SameVars, IsState
    <2>6. CASE i \in DOMAIN F.vars
      <3>1. PICK q \in VarRecords : q = F.vars[i]
        BY <2>4, <2>6, ElementOfSeq
      <3>2. /\ v \in VarRecords /\ v.name = q.name /\ v.storage = q.storage
            /\ v.flags = q.flags \cup {"VALID"}
        <4>1. PICK fs : fs = q.flags \cup {"VALID"}
          OBVIOUS
        <4>2. q.flags \in SUBSET VarFlags
          BY DEF VarRecords
        <4>3. fs \in SUBSET VarFlags
          BY <4>1, <4>2, FlagsAdded
        <4>4. v = [q EXCEPT !.flags = fs]
          BY <2>1, <3>1, <4>1
        <4>. QED
          BY <4>1, <4>3, <4>4 DEF VarRecords
      <3>3. /\ ws \in Seq(VarRecords) /\ DOMAIN ws = DOMAIN F.vars
            /\ ws[i] = v /\ \A j \in DOMAIN F.vars : j # i => ws[j] = F.vars[j]
        BY <2>2, <2>4, <2>6, <3>2, ExceptSeq
      <3>4. Is(v, "DWG") <=> Is(q, "DWG")
        BY <3>2 DEF Is
      <3>5. \A j \in DOMAIN F.vars :
                /\ ws[j].name = F.vars[j].name /\ ws[j].storage = F.vars[j].storage
                /\ Is(ws[j], "DWG") <=> Is(F.vars[j], "DWG")
                /\ j # i => (Is(ws[j], "VALID") <=> Is(F.vars[j], "VALID"))
        BY <3>1, <3>2, <3>3, <3>4
      <3>6. DOMAIN D.vars = DOMAIN F.vars /\ F.groups = D.groups
        BY <1>3 DEF Follows, SameVars
      <3>7. \A j \in DOMAIN D.vars :
                /\ ws[j].name = D.vars[j].name /\ ws[j].storage = D.vars[j].storage
                /\ Is(ws[j], "DWG") <=> Is(D.vars[j], "DWG")
                /\ j # i => (Is(ws[j], "VALID") <=> Is(D.vars[j], "VALID"))
        BY <1>3, <3>5, <3>6 DEF Follows, SameVars
      <3>8. IsState(E) /\ E.groups = D.groups /\ E.vars = ws
        BY <2>3, <3>3, <3>6 DEF IsState
      <3>. QED
        BY <1>5, <3>3, <3>6, <3>7, <3>8
    <2>. QED
      BY <2>5, <2>6
  <1>. QED
    BY <1>6, <1>7

-----------------------------------------------------------------------------
(* Registering *)

LEMMA FoundVariable ==
    ASSUME NEW vs, vs \in Seq(VarRecords), NEW n
    PROVE  /\ FindVar(vs, n) \in Nat
           /\ FindVar(vs, n) # 0 => FindVar(vs, n) \in DOMAIN vs /\ vs[FindVar(vs, n)].name = n
  <1>. DEFINE S == {i \in 1..Len(vs) : vs[i].name = n}
  <1>1. FindVar(vs, n) = IF S # {} THEN Min(S) ELSE 0
    BY DEF FindVar, SelectInSeq
  <1>2. S \in SUBSET Nat /\ \A i \in S : i \in DOMAIN vs /\ vs[i].name = n
    OBVIOUS
  <1>3. ASSUME S # {} PROVE Min(S) \in S
    <2>1. \E k \in S : \A j \in S : k <= j
      <3>. HIDE DEF S
      <3>. QED
        BY <1>2, <1>3, LeastElement
    <2>. HIDE DEF S
    <2>. QED
      BY <2>1 DEF Min
  <1>4. PICK k : k = FindVar(vs, n)
    OBVIOUS
  <1>5. k = 0 \/ k \in S
    <2>. HIDE DEF S
    <2>. QED
      BY <1>1, <1>3, <1>4
  <1>6. CASE k = 0
    BY <1>4, <1>6
  <1>7. CASE k \in S
    <2>1. k \in Nat /\ k \in DOMAIN vs /\ vs[k].name = n
      <3>. HIDE DEF S
      <3>. QED
        BY <1>2, <1>7
    <2>. QED
      BY <1>4, <2>1
  <1>. QED
    BY <1>5, <1>6, <1>7

LEMMA NewVarIs ==
    ASSUME NEW d \in Declarations, NEW g \in Nat, NEW o \in Nat
    PROVE  LET v == NewVar(d, g, o) IN
           /\ v \in VarRecords /\ v.name = d.name
           /\ v.flags \subseteq d.flags \cup {"SYNONYM"}
  <1>1. PICK fs : fs = (d.flags \ (IF d.flags \cap {"READONLY", "DEFAULT_ONLY"} # {}
                                   THEN {"SETTABLE"} ELSE {}))
                       \cup (IF d.synonymFor = "" THEN {} ELSE {"SYNONYM"})
    OBVIOUS
  <1>2. fs \subseteq d.flags \cup {"SYNONYM"}
    BY <1>1
  <1>3. d.flags \subseteq DeclaredFlags
    BY DEF DeclaredFlags
  <1>4. fs \in SUBSET VarFlags
    BY <1>2, <1>3, FlagsAdded DEF VarFlags
  <1>5. PICK long \in {LongName(e) : e \in Declarations} : long = LongName(d)
    OBVIOUS
  <1>6. d.name \in VarNames /\ d.type \in {e.type : e \in Declarations}
    BY DEF VarNames
  <1>7. /\ <<>> \in Seq(Nat) /\ <<>> \in Seq(Declarations) /\ DEFAULT \in 0..5
    BY EmptySeq DEF DEFAULT
  <1>8. PICK v : v = [name |-> d.name, long |-> long, type |-> d.type, group |-> g,
                      source |-> DEFAULT, synonymFor |-> o, synonyms |-> <<>>,
                      storage |-> <<>>, flags |-> fs]
    OBVIOUS
  <1>9. v \in VarRecords /\ v.name = d.name /\ v.flags = fs
    BY <1>4, <1>5, <1>6, <1>7, <1>8 DEF VarRecords
  <1>10. NewVar(d, g, o) = v
    BY <1>1, <1>5, <1>8 DEF NewVar
  <1>. QED
    BY <1>2, <1>9, <1>10

\* What a name that is not known gets: an entry after the others, and if it
\* goes with its group, storage and a place in the owner's group.
EnteredAs(D, d, i, E) ==
    /\ IsState(E) /\ GroupsOK(E.groups) /\ Keeps(D.groups, E.groups)
    /\ i \notin DOMAIN D.vars /\ DOMAIN E.vars = DOMAIN D.vars \cup {i}
    /\ \A j \in DOMAIN D.vars :
         /\ E.vars[j].name = D.vars[j].name /\ E.vars[j].storage = D.vars[j].storage
         /\ Is(E.vars[j], "VALID") <=> Is(D.vars[j], "VALID")
         /\ Is(E.vars[j], "DWG") <=> Is(D.vars[j], "DWG")
    /\ E.vars[i].name = d.name
    /\ Is(E.vars[i], "DWG") =>
          /\ E.vars[i].storage = <<d>>
          /\ \E h \in DOMAIN E.groups :
                /\ E.groups[h].valid /\ E.groups[h].name = GroupName(d.owner)
                /\ i \in ToSet(E.groups[h].vars)

\* A synonym is one of a variable.
OriginalFound(D, d) == d.synonymFor # "" => FindVar(D.vars, d.synonymFor) # 0

LEMMA EnteredIs ==
    ASSUME NEW D, IsState(D), GroupsOK(D.groups), NEW d \in Declarations,
           FindVar(D.vars, d.name) = 0,
           OriginalFound(D, d)
    PROVE  \E i : /\ Entered(D, d) = [i |-> i, D |-> Entered(D, d).D]
                  /\ EnteredAs(D, d, i, Entered(D, d).D)
  <1>1. d.owner \in VarComponents /\ (d.synonymFor # "" => "DWG" \notin d.flags)
    BY VarAssumption
  <1>2. PICK vs \in Seq(VarRecords) : vs = D.vars
    BY DEF IsState
  <1>3. PICK gs : gs = GroupRegister(D.groups, d.owner)
    OBVIOUS
  <1>4. GroupsOK(gs) /\ Keeps(D.groups, gs)
    BY <1>1, <1>3, ComponentRegistered
  <1>5. PICK g \in DOMAIN gs : gs[g].valid /\ gs[g].name = GroupName(d.owner)
    <2>1. PICK c \in VarComponents : c = d.owner
      BY <1>1
    <2>2. \E g \in DOMAIN gs : gs[g].valid /\ gs[g].name = GroupName(c)
      BY <1>3, <2>1, ComponentRegistered
    <2>. QED
      BY <2>1, <2>2
  <1>6. GroupFind(gs, GroupName(d.owner)) = g
    BY <1>4, <1>5, ValidIsFound
  <1>7. g \in Nat
    <2>1. gs \in Seq(GroupRecords)
      BY <1>4 DEF GroupsOK
    <2>. QED
      BY <1>5, <2>1
  <1>8. PICK o \in Nat : o = FindVar(vs, d.synonymFor)
    BY <1>2, FoundVariable
  <1>9. PICK i : i = Len(vs) + 1
    OBVIOUS
  <1>10. PICK v \in VarRecords : /\ v = NewVar(d, g, o) /\ v.name = d.name
                                 /\ v.flags \subseteq d.flags \cup {"SYNONYM"}
    BY <1>7, NewVarIs
  <1>11. PICK us : us = Append(vs, v)
    OBVIOUS
  <1>12. /\ us \in Seq(VarRecords) /\ Len(vs) \in Nat /\ i \in Nat /\ us[i] = v
         /\ DOMAIN vs = 1..Len(vs) /\ DOMAIN us = 1..i
         /\ \A j \in DOMAIN vs : us[j] = vs[j]
    <2>1. /\ us \in Seq(VarRecords) /\ Len(us) = Len(vs) + 1 /\ us[Len(vs) + 1] = v
          /\ \A j \in 1..Len(vs) : us[j] = vs[j]
      BY <1>11, AppendProperties
    <2>2. Len(vs) \in Nat /\ DOMAIN vs = 1..Len(vs) /\ DOMAIN us = 1..Len(us)
      BY <2>1
    <2>. QED
      BY <1>9, <2>1, <2>2
  <1>13. /\ i \notin DOMAIN vs /\ i \in DOMAIN us /\ DOMAIN us = DOMAIN vs \cup {i}
         /\ \A j \in DOMAIN vs : j # i
    BY <1>9, <1>12
  <1>14. PICK ns : ns = GroupAddVar(gs, g, i)
    OBVIOUS
  <1>15. /\ GroupsOK(ns) /\ Keeps(gs, ns) /\ g \in DOMAIN ns /\ i \in ToSet(ns[g].vars)
    BY <1>4, <1>5, <1>12, <1>14, VariableAdded
  <1>16. Keeps(D.groups, ns)
    BY <1>4, <1>15, KeepsIsTransitive
  <1>17. ns[g].valid /\ ns[g].name = GroupName(d.owner)
    BY <1>5, <1>15 DEF Keeps
  <1>20. PICK D1 : D1 = [D EXCEPT !.vars = Append(D.vars, NewVar(d, g, o)), !.groups = ns]
    OBVIOUS
  <1>21. D1 = [vars |-> us, groups |-> ns, store |-> D.store]
    BY <1>2, <1>10, <1>11, <1>20 DEF IsState
  <1>22. FindVar(D.vars, d.name) = 0 /\ FindVar(D.vars, d.synonymFor) = o /\ Len(D.vars) + 1 = i
    BY <1>2, <1>8, <1>9
  <1>23. Entered(D, d) =
           [i |-> i, D |-> IF d.synonymFor # "" THEN [D1 EXCEPT !.vars[o].synonyms = Append(@, i)]
                           ELSE [D1 EXCEPT !.vars[i].storage = <<d>>]]
    <2>1. PICK x : x = [D EXCEPT !.vars = Append(@, NewVar(d, g, o)), !.groups = ns]
      OBVIOUS
    <2>2. x = D1
      BY <1>20, <2>1 DEF IsState
    <2>3. Entered(D, d) =
            LET ms == GroupRegister(D.groups, d.owner)
                k == GroupFind(ms, GroupName(d.owner))
                e == FindVar(D.vars, d.synonymFor)
                j == Len(D.vars) + 1
                C == [D EXCEPT !.vars = Append(@, NewVar(d, k, e)),
                               !.groups = GroupAddVar(ms, k, j)] IN
            [i |-> j, D |-> IF d.synonymFor # "" THEN [C EXCEPT !.vars[e].synonyms = Append(@, j)]
                            ELSE [C EXCEPT !.vars[j].storage = <<d>>]]
      BY Zenon DEF Entered
    <2>. QED
      BY <1>3, <1>6, <1>14, <1>22, <2>1, <2>2, <2>3, Zenon
  <1>18. CASE d.synonymFor = ""
    <2>1. PICK q : q = [v EXCEPT !.storage = <<d>>]
      OBVIOUS
    <2>2. q \in VarRecords /\ q.name = d.name /\ q.storage = <<d>>
      <3>1. <<d>> \in Seq(Declarations)
        OBVIOUS
      <3>. QED
        BY <1>10, <2>1, <3>1 DEF VarRecords
    <2>3. PICK ws : ws = [us EXCEPT ![i] = q]
      OBVIOUS
    <2>4. /\ ws \in Seq(VarRecords) /\ DOMAIN ws = DOMAIN us
          /\ ws[i] = q /\ \A j \in DOMAIN us : j # i => ws[j] = us[j]
      BY <1>12, <1>13, <2>2, <2>3, ExceptSeq
    <2>5. PICK E : E = [vars |-> ws, groups |-> ns, store |-> D.store]
      OBVIOUS
    <2>6. Entered(D, d) = [i |-> i, D |-> E]
      <3>1. Entered(D, d) = [i |-> i, D |-> [D1 EXCEPT !.vars[i].storage = <<d>>]]
        BY <1>18, <1>23
      <3>2. us[i] = v
        BY <1>12
      <3>3. [D1 EXCEPT !.vars[i].storage = <<d>>] = E
        BY <1>21, <2>1, <2>3, <2>5, <3>2
      <3>. QED
        BY <3>1, <3>3
    <2>7. \A j \in DOMAIN vs : ws[j] = vs[j]
      BY <1>12, <1>13, <2>4
    <2>8. EnteredAs(D, d, i, E)
      BY <1>2, <1>13, <1>15, <1>16, <1>17, <2>2, <2>4, <2>5, <2>7 DEF EnteredAs, IsState
    <2>. QED
      BY <2>6, <2>8
  <1>19. CASE d.synonymFor # ""
    <2>1. o \in DOMAIN vs
      <3>1. o # 0
        BY <1>2, <1>8, <1>19 DEF OriginalFound
      <3>. QED
        BY <1>8, <3>1, FoundVariable
    <2>6. PICK r \in VarRecords : r = us[o]
      BY <1>12, <1>13, <2>1, ElementOfSeq
    <2>2. PICK q : q = [us[o] EXCEPT !.synonyms = Append(@, i)]
      OBVIOUS
    <2>3. PICK ws : ws = [us EXCEPT ![o] = q]
      OBVIOUS
    <2>4. PICK E : E = [vars |-> ws, groups |-> ns, store |-> D.store]
      OBVIOUS
    <2>5. Entered(D, d) = [i |-> i, D |-> E]
      <3>1. Entered(D, d) = [i |-> i, D |-> [D1 EXCEPT !.vars[o].synonyms = Append(@, i)]]
        BY <1>19, <1>23
      <3>2. [D1 EXCEPT !.vars[o].synonyms = Append(@, i)] = E
        <4>1. PICK t : t = Append(r.synonyms, i)
          OBVIOUS
        <4>2. q = [r EXCEPT !.synonyms = t]
          BY <2>2, <2>6, <4>1
        <4>3. PICK F : F = [D1 EXCEPT !.vars[o].synonyms = Append(@, i)]
          OBVIOUS
        <4>4. F = [D1 EXCEPT !.vars[o].synonyms = t]
          BY <1>21, <2>6, <4>1, <4>3
        <4>6. q = [us[o] EXCEPT !.synonyms = t]
          BY <2>6, <4>2
        <4>7. F = [vars |-> [us EXCEPT ![o] = [us[o] EXCEPT !.synonyms = t]],
                   groups |-> ns, store |-> D.store]
          BY <1>21, <4>4
        <4>5. F = E
          BY <2>3, <2>4, <4>6, <4>7
        <4>. QED
          BY <4>3, <4>5
      <3>. QED
        BY <3>1, <3>2
    <2>7. q \in VarRecords /\ q.name = r.name /\ q.storage = r.storage /\ q.flags = r.flags
      <3>1. PICK t \in Seq(Nat) : t = Append(r.synonyms, i)
        BY <1>12, AppendProperties DEF VarRecords
      <3>2. q = [r EXCEPT !.synonyms = t]
        BY <2>2, <2>6, <3>1
      <3>. QED
        BY <3>2 DEF VarRecords
    <2>8. SameVars(us, ws)
      BY <1>12, <2>3, <2>6, <2>7, EntryChanges DEF Is
    <2>9. \A j \in DOMAIN vs : /\ ws[j].name = vs[j].name /\ ws[j].storage = vs[j].storage
                               /\ Is(ws[j], "VALID") <=> Is(vs[j], "VALID")
                               /\ Is(ws[j], "DWG") <=> Is(vs[j], "DWG")
      BY <1>12, <1>13, <2>8 DEF SameVars
    <2>10. ws[i] = v
      <3>1. o # i
        BY <1>13, <2>1
      <3>. QED
        BY <1>12, <1>13, <2>3, <3>1
    <2>11. ~Is(v, "DWG")
      BY <1>1, <1>10, <1>19 DEF Is
    <2>12. ws \in Seq(VarRecords) /\ DOMAIN ws = DOMAIN us
      BY <2>8 DEF SameVars
    <2>13. EnteredAs(D, d, i, E)
      BY <1>2, <1>10, <1>13, <1>15, <1>16, <2>4, <2>9, <2>10, <2>11, <2>12 DEF EnteredAs, IsState
    <2>. QED
      BY <2>5, <2>13
  <1>. QED
    BY <1>18, <1>19

\* An entry that is backed stays so while groups only grow.
LEMMA StaysBacked ==
    ASSUME NEW v, NEW w, NEW i, NEW gs, NEW ns, NEW in, Keeps(gs, ns), Backed(v, i, gs, in),
           w.storage = v.storage
    PROVE  Backed(w, i, ns, in)
  <1>1. PICK h \in DOMAIN gs : /\ gs[h].valid /\ gs[h].name = GroupName(v.storage[1].owner)
                               /\ i \in ToSet(gs[h].vars)
    BY DEF Backed
  <1>2. /\ h \in DOMAIN ns /\ ns[h].valid /\ ns[h].name = GroupName(v.storage[1].owner)
        /\ i \in ToSet(ns[h].vars)
    BY <1>1 DEF Keeps
  <1>. QED
    BY <1>2 DEF Backed

LEMMA RegisteredKeepsVars ==
    ASSUME NEW vs, NEW gs, NEW count, NEW more, NEW in, GroupsOK(gs), VarsOK(vs, gs, count, in),
           count \in [VarNames -> Nat], more \in [VarNames -> Nat],
           NEW d \in Declarations, d.owner \in in,
           \A n \in VarNames : more[n] >= count[n], more[d.name] >= 1,
           NEW D, IsState(D), D.vars = vs, D.groups = gs,
           FindVar(vs, d.name) = 0, OriginalFound(D, d)
    PROVE  LET F == Initialized(Entered(D, d)) IN
           GroupsOK(F.groups) /\ VarsOK(F.vars, F.groups, more, in)
  <1>1. PICK i, E : Entered(D, d) = [i |-> i, D |-> E] /\ EnteredAs(D, d, i, E)
    BY EnteredIs
  <1>2. PICK F : F = Initialized([i |-> i, D |-> E])
    OBVIOUS
  <1>3. IsState(E)
    BY <1>1 DEF EnteredAs
  <1>4. /\ IsState(F) /\ F.groups = E.groups /\ DOMAIN F.vars = DOMAIN E.vars
        /\ \A j \in DOMAIN E.vars :
             /\ F.vars[j].name = E.vars[j].name /\ F.vars[j].storage = E.vars[j].storage
             /\ Is(F.vars[j], "DWG") <=> Is(E.vars[j], "DWG")
             /\ j # i => (Is(F.vars[j], "VALID") <=> Is(E.vars[j], "VALID"))
    BY <1>2, <1>3, InitializedFollows
  <1>5. PICK ws \in Seq(VarRecords) : ws = F.vars
    BY <1>4 DEF IsState
  <1>6. PICK ns : ns = F.groups /\ ns = E.groups
    BY <1>4
  <1>7. GroupsOK(ns) /\ Keeps(gs, ns)
    BY <1>1, <1>6 DEF EnteredAs
  <1>8. i \notin DOMAIN vs /\ DOMAIN ws = DOMAIN vs \cup {i}
    BY <1>1, <1>4, <1>5 DEF EnteredAs
  <1>9. ASSUME NEW j \in DOMAIN vs
        PROVE  /\ ws[j].name = vs[j].name /\ ws[j].storage = vs[j].storage
               /\ Is(ws[j], "VALID") <=> Is(vs[j], "VALID")
               /\ Is(ws[j], "DWG") <=> Is(vs[j], "DWG")
    <2>1. j # i /\ j \in DOMAIN E.vars
      BY <1>1, <1>8 DEF EnteredAs
    <2>. QED
      BY <1>1, <1>4, <1>5, <2>1 DEF EnteredAs
  <1>10. ws[i].name = d.name
    BY <1>1, <1>4, <1>5, <1>8 DEF EnteredAs
  <1>11. ASSUME NEW j \in DOMAIN ws
         PROVE  more[ws[j].name] >= 1
    <2>1. CASE j = i
      BY <1>10, <2>1
    <2>2. CASE j \in DOMAIN vs
      <3>1. PICK r \in VarRecords : r = vs[j]
        BY <2>2, ElementOfSeq DEF VarsOK
      <3>2. r.name \in VarNames /\ count[r.name] >= 1 /\ ws[j].name = r.name
        BY <1>9, <2>2, <3>1 DEF VarsOK, VarRecords
      <3>3. more[r.name] >= count[r.name] /\ more[r.name] \in Nat /\ count[r.name] \in Nat
        BY <3>2
      <3>. QED
        BY <3>2, <3>3
    <2>. QED
      BY <1>8, <2>1, <2>2
  <1>12. ASSUME NEW j \in DOMAIN ws, Is(ws[j], "VALID"), Is(ws[j], "DWG")
         PROVE  Backed(ws[j], j, ns, in)
    <2>1. CASE j \in DOMAIN vs
      <3>1. Backed(vs[j], j, gs, in)
        BY <1>9, <1>12, <2>1 DEF VarsOK
      <3>. QED
        BY <1>7, <1>9, <2>1, <3>1, StaysBacked
    <2>2. CASE j = i
      <3>1. i \in DOMAIN E.vars /\ Is(E.vars[i], "DWG") /\ ws[i].storage = E.vars[i].storage
        BY <1>4, <1>5, <1>8, <1>12, <2>2
      <3>2. ws[i].storage = <<d>>
        BY <1>1, <3>1 DEF EnteredAs
      <3>3. PICK h \in DOMAIN ns : /\ ns[h].valid /\ ns[h].name = GroupName(d.owner)
                                   /\ i \in ToSet(ns[h].vars)
        BY <1>1, <1>6, <3>1 DEF EnteredAs
      <3>4. ws[i].storage # <<>> /\ ws[i].storage[1] = d
        BY <3>2
      <3>. QED
        BY <2>2, <3>3, <3>4 DEF Backed
    <2>. QED
      BY <1>8, <2>1, <2>2
  <1>13. VarsOK(ws, ns, more, in)
    BY <1>11, <1>12 DEF VarsOK
  <1>. QED
    BY <1>1, <1>2, <1>5, <1>6, <1>7, <1>13

\* A refused registration leaves a group at most.
LEMMA RefusedKeepsVars ==
    ASSUME NEW count \in [VarNames -> Nat], NEW more \in [VarNames -> Nat],
           \A n \in VarNames : more[n] >= count[n], NEW c \in VarComponents,
           NEW vs, NEW gs, NEW in, GroupsOK(gs), VarsOK(vs, gs, count, in)
    PROVE  GroupsOK(GroupRegister(gs, c)) /\ VarsOK(vs, GroupRegister(gs, c), more, in)
  <1>1. PICK ns : ns = GroupRegister(gs, c)
    OBVIOUS
  <1>2. GroupsOK(ns) /\ Keeps(gs, ns)
    BY <1>1, ComponentRegistered
  <1>3. ASSUME NEW i \in DOMAIN vs
        PROVE  more[vs[i].name] >= 1
    <2>1. PICK r \in VarRecords : r = vs[i]
      BY ElementOfSeq DEF VarsOK
    <2>2. r.name \in VarNames /\ count[r.name] >= 1
      BY <2>1 DEF VarsOK, VarRecords
    <2>3. more[r.name] >= count[r.name] /\ more[r.name] \in Nat /\ count[r.name] \in Nat
      BY <2>2
    <2>. QED
      BY <2>1, <2>2, <2>3
  <1>4. ASSUME NEW i \in DOMAIN vs, Is(vs[i], "VALID"), Is(vs[i], "DWG")
        PROVE  Backed(vs[i], i, ns, in)
    <2>1. Backed(vs[i], i, gs, in)
      BY <1>4 DEF VarsOK
    <2>. QED
      BY <1>2, <2>1, StaysBacked
  <1>. QED
    BY <1>1, <1>2, <1>3, <1>4 DEF VarsOK

LEMMA RegisterVarInv ==
    ASSUME VarInv, NEW d \in Declarations, RegisterVar(d)
    PROVE  VarInv'
  <1>1. PICK count : count = registered
    OBVIOUS
  <1>2. PICK more : more = [count EXCEPT ![d.name] = @ + 1]
    OBVIOUS
  <1>3. registered' = more
    BY <1>1, <1>2 DEF RegisterVar
  <1>4. count \in [VarNames -> Nat] /\ d.name \in VarNames
    BY <1>1 DEF VarInv, VarNames
  <1>5. /\ more \in [VarNames -> Nat] /\ \A n \in VarNames : more[n] >= count[n]
        /\ more[d.name] = count[d.name] + 1 /\ more[d.name] >= 1
    BY <1>2, <1>4
  <1>6. ASSUME RegisteredOnce(more)
        PROVE  GroupsOK(groups') /\ VarsOK(mcaVars', groups', more, loaded')
    <2>1. \A n \in VarNames : more[n] <= 1 /\ more[n] >= count[n] /\ more[n] \in Nat /\ count[n] \in Nat
      BY <1>4, <1>5, <1>6 DEF RegisteredOnce
    <2>2. RegisteredOnce(count)
      BY <2>1 DEF RegisteredOnce
    <2>3. PICK vs : vs = mcaVars
      OBVIOUS
    <2>4. PICK gs : gs = groups
      OBVIOUS
    <2>5. PICK in : in = loaded
      OBVIOUS
    <2>6. GroupsOK(gs) /\ VarsOK(vs, gs, count, in)
      BY <1>1, <2>2, <2>3, <2>4, <2>5 DEF VarInv
    <2>7. FindVar(vs, d.name) = 0
      <3>1. PICK k : k = FindVar(vs, d.name)
        OBVIOUS
      <3>2. k # 0 => k \in DOMAIN vs /\ vs[k].name = d.name
        BY <2>6, <3>1, FoundVariable DEF VarsOK
      <3>3. k # 0 => count[d.name] >= 1
        BY <2>6, <3>2 DEF VarsOK
      <3>. QED
        BY <1>4, <1>5, <2>1, <3>1, <3>3
    <2>8. PICK D : D = [State EXCEPT !.store[d] = d.default]
      OBVIOUS
    <2>9. D = [vars |-> vs, groups |-> gs, store |-> [store EXCEPT ![d] = d.default]]
      BY <2>3, <2>4, <2>8 DEF State
    <2>10. IsState(D) /\ D.vars = vs /\ D.groups = gs
      BY <2>6, <2>9 DEF IsState, VarsOK
    <2>11. d.owner \in in /\ OriginalFound(D, d) /\ loaded' = in
      <3>1. d.owner \in loaded /\ loaded' = loaded
        BY DEF RegisterVar
      <3>2. d.synonymFor # "" => FindVar(mcaVars, d.synonymFor) # 0
        BY Zenon DEF RegisterVar
      <3>. QED
        BY <2>3, <2>5, <2>10, <3>1, <3>2, Zenon DEF OriginalFound
    <2>12. \/ Become([D EXCEPT !.groups = GroupRegister(groups, d.owner)])
           \/ Become(Initialized(Entered(D, d)))
      <3>1. FindVar(mcaVars, d.name) = 0
        BY <2>3, <2>7
      <3>. QED
        BY <2>8, <3>1, Zenon DEF RegisterVar
    <2>13. PICK F : F = Initialized(Entered(D, d))
      OBVIOUS
    <2>14. GroupsOK(F.groups) /\ VarsOK(F.vars, F.groups, more, in)
      BY <1>4, <1>5, <2>6, <2>7, <2>10, <2>11, <2>13, RegisteredKeepsVars
    <2>15. CASE Become(Initialized(Entered(D, d)))
      <3>1. mcaVars' = F.vars /\ groups' = F.groups
        BY <2>13, <2>15 DEF Become
      <3>. QED
        BY <2>11, <2>14, <3>1
    <2>16. CASE Become([D EXCEPT !.groups = GroupRegister(groups, d.owner)])
      <3>1. PICK ns : ns = GroupRegister(gs, d.owner)
        OBVIOUS
      <3>2. mcaVars' = vs /\ groups' = ns
        BY <2>4, <2>9, <2>16, <3>1 DEF Become
      <3>3. GroupsOK(ns) /\ VarsOK(vs, ns, more, in)
        BY <1>4, <1>5, <2>6, <3>1, RefusedKeepsVars, VarAssumption
      <3>. QED
        BY <2>11, <3>2, <3>3
    <2>. QED
      BY <2>12, <2>15, <2>16
  <1>. QED
    BY <1>3, <1>5, <1>6 DEF VarInv

-----------------------------------------------------------------------------
(* Deregistering *)

\* The variables that are left, and the groups that are.
Undone(vs, valid) == [i \in DOMAIN vs |-> IF i \in valid THEN DeregisteredVar(vs[i]) ELSE vs[i]]
Emptied(gs, gone) == [h \in DOMAIN gs |-> IF h \in gone THEN NoGroup(gs[h]) ELSE gs[h]]

LEMMA DeregisteredVars ==
    ASSUME NEW D, IsState(D), NEW is
    PROVE  LET E == DeregisterVars(D, is) IN
           /\ E = [vars |-> E.vars, groups |-> D.groups, store |-> E.store]
           /\ E.vars \in Seq(VarRecords) /\ DOMAIN E.vars = DOMAIN D.vars
           /\ \A i \in DOMAIN D.vars :
                /\ E.vars[i].name = D.vars[i].name
                /\ Is(E.vars[i], "DWG") => Is(D.vars[i], "DWG")
                /\ Is(E.vars[i], "VALID") => /\ i \notin is /\ Is(D.vars[i], "VALID")
                                             /\ E.vars[i].storage = D.vars[i].storage
  <1>1. PICK vs \in Seq(VarRecords) : vs = D.vars
    BY DEF IsState
  <1>2. PICK valid : valid = {i \in is : Is(vs[i], "VALID")}
    OBVIOUS
  <1>. DEFINE w(i) == IF i \in valid THEN DeregisteredVar(vs[i]) ELSE vs[i]
  <1>4. ASSUME NEW i \in DOMAIN vs
        PROVE  /\ w(i) \in VarRecords /\ w(i).name = vs[i].name
               /\ Is(w(i), "DWG") => Is(vs[i], "DWG")
               /\ Is(w(i), "VALID") => /\ i \notin is /\ Is(vs[i], "VALID")
                                       /\ w(i).storage = vs[i].storage
    <2>1. PICK r \in VarRecords : r = vs[i]
      BY <1>4, ElementOfSeq
    <2>2. r.flags \in SUBSET VarFlags
      BY DEF VarRecords
    <2>3. PICK q : q = DeregisteredVar(r)
      OBVIOUS
    <2>4. q \in VarRecords /\ q.name = r.name /\ q.flags = r.flags \ {"VALID"}
      <3>1. PICK fs : fs = r.flags \ {"VALID"}
        OBVIOUS
      <3>2. fs \in SUBSET VarFlags
        BY <2>2, <3>1
      <3>3. q = [r EXCEPT !.flags = fs] \/ q = [r EXCEPT !.flags = fs, !.storage = <<>>]
        BY <2>3, <3>1, Zenon DEF DeregisteredVar
      <3>. QED
        BY <3>1, <3>2, <3>3, EmptySeq DEF VarRecords
    <2>5. ~Is(q, "VALID") /\ (Is(q, "DWG") => Is(r, "DWG"))
      BY <2>4 DEF Is
    <2>6. CASE i \in valid
      BY <2>1, <2>3, <2>4, <2>5, <2>6
    <2>7. CASE i \notin valid
      BY <1>2, <2>1, <2>7
    <2>. QED
      BY <2>6, <2>7
  <1>5. PICK ws : ws = [i \in DOMAIN vs |-> w(i)]
    OBVIOUS
  <1>6. ws \in Seq(VarRecords) /\ DOMAIN ws = DOMAIN vs /\ \A i \in DOMAIN vs : ws[i] = w(i)
    <2>1. DOMAIN vs = 1..Len(vs) /\ Len(vs) \in Nat
      OBVIOUS
    <2>2. \A i \in DOMAIN vs : w(i) \in VarRecords
      BY <1>4
    <2>. HIDE DEF w
    <2>3. ws \in [1..Len(vs) -> VarRecords]
      BY <1>5, <2>1, <2>2
    <2>. QED
      BY <1>5, <2>1, <2>3
  <1>7. PICK E : E = DeregisterVars(D, is)
    OBVIOUS
  <1>8. E = [vars |-> ws, groups |-> D.groups, store |-> E.store]
    <2>1. \E st : E = [D EXCEPT !.vars = Undone(D.vars, valid), !.store = st]
      BY <1>1, <1>2, <1>7, Zenon DEF DeregisterVars, Undone
    <2>2. PICK st : E = [D EXCEPT !.vars = Undone(D.vars, valid), !.store = st]
      BY <2>1
    <2>3. ws = Undone(D.vars, valid)
      BY <1>1, <1>5 DEF Undone
    <2>4. E = [vars |-> ws, groups |-> D.groups, store |-> st]
      BY <2>2, <2>3 DEF IsState
    <2>. QED
      BY <2>4
  <1>9. E.vars = ws
    BY <1>8
  <1>. HIDE DEF w
  <1>. QED
    BY <1>1, <1>4, <1>6, <1>7, <1>8, <1>9

\* A group that is deregistered takes its subgroups with it.
LEMMA GroupsDeregistered ==
    ASSUME NEW gs, GroupsOK(gs), NEW g \in DOMAIN gs, gs[g].valid, NEW gone,
           gone = DeregisteredGroups(gs, g), NEW ns, ns = Emptied(gs, gone)
    PROVE  /\ GroupsOK(ns) /\ DOMAIN ns = DOMAIN gs
           /\ \A h \in DOMAIN gs : h \notin gone => ns[h] = gs[h]
  <1>1. gs \in Seq(GroupRecords) /\ DOMAIN gs = 1..Len(gs) /\ Len(gs) \in Nat
    BY DEF GroupsOK
  <1>2. ASSUME NEW h \in DOMAIN gs
        PROVE  /\ ns[h] \in GroupRecords /\ ns[h].name = gs[h].name
               /\ h \notin gone => ns[h] = gs[h]
               /\ h \in gone => ~ns[h].valid /\ ns[h].subgroups = <<>>
    <2>1. PICK r \in GroupRecords : r = gs[h]
      BY <1>1, <1>2, ElementOfSeq
    <2>2. PICK q : q = NoGroup(r)
      OBVIOUS
    <2>3. q \in GroupRecords /\ q.name = r.name /\ ~q.valid /\ q.subgroups = <<>>
      BY <2>2, EmptySeq DEF NoGroup, GroupRecords
    <2>4. ns[h] = IF h \notin gone THEN r ELSE q
      BY <2>1, <2>2 DEF Emptied
    <2>. QED
      BY <2>1, <2>3, <2>4
  <1>3. ns \in Seq(GroupRecords) /\ DOMAIN ns = DOMAIN gs
    <2>1. ns \in [1..Len(gs) -> GroupRecords]
      BY <1>1, <1>2 DEF Emptied
    <2>. QED
      BY <1>1, <2>1
  <1>4. \A h, k \in DOMAIN ns : ns[h].valid /\ h < k => ns[k].name # ns[h].name
    <2>1. \A h \in DOMAIN gs : ns[h].valid => gs[h].valid
      BY <1>2
    <2>. QED
      BY <1>2, <1>3, <2>1 DEF GroupsOK
  <1>5. ASSUME NEW h \in DOMAIN ns, NEW s \in ToSet(ns[h].subgroups)
        PROVE  s \in DOMAIN ns /\ ns[s].name \in ComponentGroups /\ ns[h].name \in FrameworkGroups
    <2>1. h \notin gone /\ ns[h] = gs[h]
      BY <1>2, <1>3, <1>5, EmptyHasNone
    <2>2. s \in DOMAIN gs /\ gs[s].name \in ComponentGroups /\ gs[h].name \in FrameworkGroups
      BY <1>3, <1>5, <2>1 DEF GroupsOK
    <2>. QED
      BY <1>2, <1>3, <2>1, <2>2
  <1>6. ASSUME NEW h \in DOMAIN ns, NEW c \in VarComponents, ns[h].valid, ns[h].name = GroupName(c)
        PROVE  \E p \in DOMAIN ns : /\ ns[p].valid /\ ns[p].name = FullName(<<FrameworkOf[c]>>)
                                    /\ h \in ToSet(ns[p].subgroups)
    <2>1. h \notin gone /\ ns[h] = gs[h]
      BY <1>2, <1>3, <1>6
    <2>2. PICK p \in DOMAIN gs : /\ gs[p].valid /\ gs[p].name = FullName(<<FrameworkOf[c]>>)
                                 /\ h \in ToSet(gs[p].subgroups)
      BY <1>3, <1>6, <2>1 DEF GroupsOK
    <2>3. gone = {g} \cup {k \in ToSet(gs[g].subgroups) : gs[k].valid}
      BY DEF DeregisteredGroups
    <2>4. p # g
      BY <1>6, <2>1, <2>2, <2>3
    <2>5. p \notin ToSet(gs[g].subgroups)
      <3>1. gs[p].name \notin ComponentGroups
        BY <2>2, NamesOfGroups
      <3>2. p \in ToSet(gs[g].subgroups) => gs[p].name \in ComponentGroups
        BY DEF GroupsOK
      <3>. QED
        BY <3>1, <3>2
    <2>6. ns[p] = gs[p]
      BY <1>2, <2>3, <2>4, <2>5
    <2>. QED
      BY <1>3, <2>2, <2>6
  <1>7. GroupsOK(ns)
    BY <1>3, <1>4, <1>5, <1>6 DEF GroupsOK
  <1>. QED
    BY <1>2, <1>3, <1>7

\* What goes out of memory is what the groups that are deregistered are of.
LEMMA GroupDeregistered ==
    ASSUME NEW vs, NEW gs, NEW count, NEW in, NEW out, GroupsOK(gs), VarsOK(vs, gs, count, in),
           NEW D, IsState(D), D.vars = vs, D.groups = gs,
           NEW g \in DOMAIN gs, gs[g].valid,
           \A h \in DOMAIN gs, c \in VarComponents :
              gs[h].valid /\ gs[h].name = GroupName(c) /\ c \in in /\ c \notin out
              => h \in DeregisteredGroups(gs, g)
    PROVE  LET E == GroupDeregister(D, g) IN
           GroupsOK(E.groups) /\ VarsOK(E.vars, E.groups, count, out)
  <1>1. PICK gone : gone = DeregisteredGroups(gs, g)
    OBVIOUS
  <1>2. PICK is : is = {i \in UNION {ToSet(gs[h].vars) : h \in gone} : Is(vs[i], "DWG")}
    OBVIOUS
  <1>3. PICK C : C = DeregisterVars(D, is)
    OBVIOUS
  <1>4. PICK ns : ns = Emptied(gs, gone)
    OBVIOUS
  <1>5. GroupsOK(ns) /\ DOMAIN ns = DOMAIN gs /\ \A h \in DOMAIN gs : h \notin gone => ns[h] = gs[h]
    BY <1>1, <1>4, GroupsDeregistered
  <1>6. /\ C = [vars |-> C.vars, groups |-> gs, store |-> C.store]
        /\ C.vars \in Seq(VarRecords) /\ DOMAIN C.vars = DOMAIN vs
        /\ \A i \in DOMAIN vs :
             /\ C.vars[i].name = vs[i].name
             /\ Is(C.vars[i], "DWG") => Is(vs[i], "DWG")
             /\ Is(C.vars[i], "VALID") => /\ i \notin is /\ Is(vs[i], "VALID")
                                          /\ C.vars[i].storage = vs[i].storage
    BY <1>3, DeregisteredVars
  <1>7. PICK ws \in Seq(VarRecords) : ws = C.vars
    BY <1>6
  <1>8. PICK E : E = GroupDeregister(D, g)
    OBVIOUS
  <1>9. E.vars = ws /\ E.groups = ns
    <2>1. E = [C EXCEPT !.groups = Emptied(@, gone)]
      BY <1>1, <1>2, <1>3, <1>8, Zenon DEF GroupDeregister, Emptied
    <2>2. E = [vars |-> ws, groups |-> ns, store |-> C.store]
      BY <1>4, <1>6, <1>7, <2>1
    <2>. QED
      BY <2>2
  <1>10. ASSUME NEW i \in DOMAIN ws, Is(ws[i], "VALID"), Is(ws[i], "DWG")
         PROVE  Backed(ws[i], i, ns, out)
    <2>1. /\ i \in DOMAIN vs /\ i \notin is /\ Is(vs[i], "VALID") /\ Is(vs[i], "DWG")
          /\ ws[i].storage = vs[i].storage
      BY <1>6, <1>7, <1>10
    <2>2. Backed(vs[i], i, gs, in)
      BY <2>1 DEF VarsOK
    <2>3. PICK c : c = vs[i].storage[1].owner
      OBVIOUS
    <2>4. vs[i].storage # <<>> /\ c \in in
      BY <2>2, <2>3 DEF Backed
    <2>5. PICK h \in DOMAIN gs : gs[h].valid /\ gs[h].name = GroupName(c) /\ i \in ToSet(gs[h].vars)
      BY <2>2, <2>3 DEF Backed
    <2>6. h \notin gone
      BY <1>2, <2>1, <2>5
    <2>7. c \in VarComponents
      <3>1. PICK r \in VarRecords : r = vs[i]
        BY <2>1, ElementOfSeq DEF VarsOK
      <3>2. r.storage \in Seq(Declarations) /\ r.storage # <<>>
        BY <2>4, <3>1 DEF VarRecords
      <3>3. r.storage[1] \in Declarations
        BY <3>2
      <3>. QED
        BY <2>3, <3>1, <3>3, VarAssumption
    <2>8. c \in out
      BY <1>1, <2>4, <2>5, <2>6, <2>7
    <2>9. h \in DOMAIN ns /\ ns[h] = gs[h]
      BY <1>5, <2>6
    <2>. QED
      BY <2>1, <2>3, <2>4, <2>5, <2>8, <2>9 DEF Backed
  <1>11. \A i \in DOMAIN ws : count[ws[i].name] >= 1
    BY <1>6, <1>7 DEF VarsOK
  <1>12. VarsOK(ws, ns, count, out)
    BY <1>10, <1>11 DEF VarsOK
  <1>. QED
    BY <1>5, <1>8, <1>9, <1>12

\* Less in memory, where nothing refers to what goes.
LEMMA NothingLost ==
    ASSUME NEW vs, NEW gs, NEW count, NEW in, NEW out, VarsOK(vs, gs, count, in),
           \A h \in DOMAIN gs, c \in VarComponents :
              gs[h].valid /\ gs[h].name = GroupName(c) /\ c \in in => c \in out
    PROVE  VarsOK(vs, gs, count, out)
  <1>1. ASSUME NEW i \in DOMAIN vs, Is(vs[i], "VALID"), Is(vs[i], "DWG")
        PROVE  Backed(vs[i], i, gs, out)
    <2>1. Backed(vs[i], i, gs, in)
      BY <1>1 DEF VarsOK
    <2>2. PICK c : c = vs[i].storage[1].owner
      OBVIOUS
    <2>3. vs[i].storage # <<>> /\ c \in in
      BY <2>1, <2>2 DEF Backed
    <2>4. PICK h \in DOMAIN gs : gs[h].valid /\ gs[h].name = GroupName(c) /\ i \in ToSet(gs[h].vars)
      BY <2>1, <2>2 DEF Backed
    <2>5. c \in VarComponents
      <3>1. PICK r \in VarRecords : r = vs[i]
        BY <1>1, ElementOfSeq DEF VarsOK
      <3>2. r.storage \in Seq(Declarations) /\ r.storage # <<>>
        BY <2>3, <3>1 DEF VarRecords
      <3>3. r.storage[1] \in Declarations
        BY <3>2
      <3>. QED
        BY <2>2, <3>1, <3>3, VarAssumption
    <2>6. c \in out
      BY <2>3, <2>4, <2>5
    <2>. QED
      BY <2>2, <2>3, <2>4, <2>6 DEF Backed
  <1>. QED
    BY <1>1 DEF VarsOK

LEMMA UnloadComponentInv ==
    ASSUME VarInv, NEW c \in VarComponents, UnloadComponent(c)
    PROVE  VarInv'
  <1>1. PICK vs : vs = mcaVars
    OBVIOUS
  <1>2. PICK gs : gs = groups
    OBVIOUS
  <1>3. PICK in : in = loaded
    OBVIOUS
  <1>4. PICK count : count = registered
    OBVIOUS
  <1>5. registered' = count /\ loaded' = in \ {c} /\ count \in [VarNames -> Nat]
    BY <1>3, <1>4 DEF UnloadComponent, VarInv
  <1>6. ASSUME RegisteredOnce(count)
        PROVE  GroupsOK(groups') /\ VarsOK(mcaVars', groups', count, in \ {c})
    <2>1. GroupsOK(gs) /\ VarsOK(vs, gs, count, in)
      BY <1>1, <1>2, <1>3, <1>4, <1>6 DEF VarInv
    <2>2. PICK g : g = GroupFind(gs, GroupName(c))
      OBVIOUS
    <2>3. PICK D : D = State
      OBVIOUS
    <2>4. IsState(D) /\ D.vars = vs /\ D.groups = gs
      BY <1>1, <1>2, <2>1, <2>3 DEF State, IsState, VarsOK
    <2>5. Become(IF g = 0 THEN D ELSE GroupDeregister(D, g))
      BY <1>2, <2>2, <2>3, Zenon DEF UnloadComponent
    <2>6. \A e \in VarComponents : GroupName(e) = GroupName(c) => e = c
      BY NamesOfGroups
    <2>7. CASE g = 0
      <3>1. mcaVars' = vs /\ groups' = gs
        BY <2>4, <2>5, <2>7 DEF Become
      <3>2. NoneValid(gs, GroupName(c))
        BY <2>1, <2>2, <2>7, NotFoundNotValid
      <3>3. VarsOK(vs, gs, count, in \ {c})
        BY <2>1, <3>2, NothingLost DEF NoneValid
      <3>. QED
        BY <2>1, <3>1, <3>3
    <2>8. CASE g # 0
      <3>1. g \in DOMAIN gs /\ gs[g].valid /\ gs[g].name = GroupName(c)
        BY <2>1, <2>2, <2>8, FoundIsValid DEF GroupsOK
      <3>2. g \in DeregisteredGroups(gs, g)
        BY <3>1 DEF DeregisteredGroups
      <3>3. ASSUME NEW h \in DOMAIN gs, NEW e \in VarComponents, gs[h].valid,
                   gs[h].name = GroupName(e), e \in in, e \notin in \ {c}
            PROVE  h \in DeregisteredGroups(gs, g)
        <4>1. e = c
          BY <3>3
        <4>2. GroupFind(gs, gs[h].name) = h
          BY <2>1, <3>3, ValidIsFound
        <4>. QED
          BY <2>2, <3>2, <3>3, <4>1, <4>2
      <3>4. PICK E : E = GroupDeregister(D, g)
        OBVIOUS
      <3>5. GroupsOK(E.groups) /\ VarsOK(E.vars, E.groups, count, in \ {c})
        BY <2>1, <2>4, <3>1, <3>3, <3>4, GroupDeregistered
      <3>6. mcaVars' = E.vars /\ groups' = E.groups
        BY <2>5, <2>8, <3>4 DEF Become
      <3>. QED
        BY <3>5, <3>6
    <2>. QED
      BY <2>7, <2>8
  <1>. QED
    BY <1>5, <1>6 DEF VarInv

LEMMA UnloadFrameworkInv ==
    ASSUME VarInv, NEW f, UnloadFramework(f)
    PROVE  VarInv'
  <1>1. PICK vs : vs = mcaVars
    OBVIOUS
  <1>2. PICK gs : gs = groups
    OBVIOUS
  <1>3. PICK in : in = loaded
    OBVIOUS
  <1>4. PICK count : count = registered
    OBVIOUS
  <1>5. PICK out : out = {c \in in : FrameworkOf[c] # f}
    OBVIOUS
  <1>6. registered' = count /\ loaded' = out /\ count \in [VarNames -> Nat]
    BY <1>3, <1>4, <1>5 DEF UnloadFramework, VarInv
  <1>7. ASSUME RegisteredOnce(count)
        PROVE  GroupsOK(groups') /\ VarsOK(mcaVars', groups', count, out)
    <2>1. GroupsOK(gs) /\ VarsOK(vs, gs, count, in)
      BY <1>1, <1>2, <1>3, <1>4, <1>7 DEF VarInv
    <2>2. PICK g : g = GroupFind(gs, FullName(<<f>>))
      OBVIOUS
    <2>3. PICK D : D = State
      OBVIOUS
    <2>4. IsState(D) /\ D.vars = vs /\ D.groups = gs
      BY <1>1, <1>2, <2>1, <2>3 DEF State, IsState, VarsOK
    <2>5. Become(IF g = 0 THEN D ELSE GroupDeregister(D, g))
      BY <1>2, <2>2, <2>3, Zenon DEF UnloadFramework
    <2>6. ASSUME NEW h \in DOMAIN gs, NEW e \in VarComponents, gs[h].valid,
                 gs[h].name = GroupName(e), e \in in, e \notin out
          PROVE  \E p \in DOMAIN gs : /\ gs[p].valid /\ gs[p].name = FullName(<<f>>)
                                      /\ h \in ToSet(gs[p].subgroups)
      <3>1. FrameworkOf[e] = f
        BY <1>5, <2>6
      <3>2. PICK p \in DOMAIN gs : /\ gs[p].valid /\ gs[p].name = FullName(<<FrameworkOf[e]>>)
                                   /\ h \in ToSet(gs[p].subgroups)
        BY <2>1, <2>6 DEF GroupsOK
      <3>. QED
        BY <3>1, <3>2
    <2>7. CASE g = 0
      <3>1. mcaVars' = vs /\ groups' = gs
        BY <2>4, <2>5, <2>7 DEF Become
      <3>2. NoneValid(gs, FullName(<<f>>))
        BY <2>1, <2>2, <2>7, NotFoundNotValid
      <3>3. VarsOK(vs, gs, count, out)
        <4>1. \A h \in DOMAIN gs, e \in VarComponents :
                 gs[h].valid /\ gs[h].name = GroupName(e) /\ e \in in => e \in out
          BY <2>6, <3>2 DEF NoneValid
        <4>. QED
          BY <2>1, <4>1, NothingLost
      <3>. QED
        BY <2>1, <3>1, <3>3
    <2>8. CASE g # 0
      <3>1. g \in DOMAIN gs /\ gs[g].valid /\ gs[g].name = FullName(<<f>>)
        BY <2>1, <2>2, <2>8, FoundIsValid DEF GroupsOK
      <3>3. ASSUME NEW h \in DOMAIN gs, NEW e \in VarComponents, gs[h].valid,
                   gs[h].name = GroupName(e), e \in in, e \notin out
            PROVE  h \in DeregisteredGroups(gs, g)
        <4>1. PICK p \in DOMAIN gs : /\ gs[p].valid /\ gs[p].name = FullName(<<f>>)
                                     /\ h \in ToSet(gs[p].subgroups)
          BY <2>6, <3>3
        <4>2. GroupFind(gs, gs[p].name) = p
          BY <2>1, <4>1, ValidIsFound
        <4>3. h \in ToSet(gs[g].subgroups)
          BY <2>2, <4>1, <4>2
        <4>. QED
          BY <3>1, <3>3, <4>3 DEF DeregisteredGroups
      <3>4. PICK E : E = GroupDeregister(D, g)
        OBVIOUS
      <3>5. GroupsOK(E.groups) /\ VarsOK(E.vars, E.groups, count, out)
        BY <2>1, <2>4, <3>1, <3>3, <3>4, GroupDeregistered
      <3>6. mcaVars' = E.vars /\ groups' = E.groups
        BY <2>5, <2>8, <3>4 DEF Become
      <3>. QED
        BY <3>5, <3>6
    <2>. QED
      BY <2>7, <2>8
  <1>. QED
    BY <1>6, <1>7 DEF VarInv

LEMMA DeregisterInv ==
    ASSUME VarInv, NEW i, Deregister(i)
    PROVE  VarInv'
  <1>1. PICK vs : vs = mcaVars
    OBVIOUS
  <1>2. PICK gs : gs = groups
    OBVIOUS
  <1>3. registered' = registered /\ loaded' = loaded
    BY DEF Deregister
  <1>4. PICK in : in = loaded
    OBVIOUS
  <1>5. PICK count : count = registered
    OBVIOUS
  <1>6. ASSUME RegisteredOnce(count)
        PROVE  GroupsOK(groups') /\ VarsOK(mcaVars', groups', count, in)
    <2>1. GroupsOK(gs) /\ VarsOK(vs, gs, count, in)
      BY <1>1, <1>2, <1>4, <1>5, <1>6 DEF VarInv
    <2>2. PICK D : D = State
      OBVIOUS
    <2>3. IsState(D) /\ D.vars = vs /\ D.groups = gs
      BY <1>1, <1>2, <2>1, <2>2 DEF State, IsState, VarsOK
    <2>12. PICK is : is = {i}
      OBVIOUS
    <2>4. PICK E : E = DeregisterVars(D, is)
      OBVIOUS
    <2>5. /\ E = [vars |-> E.vars, groups |-> gs, store |-> E.store]
          /\ E.vars \in Seq(VarRecords) /\ DOMAIN E.vars = DOMAIN vs
          /\ \A j \in DOMAIN vs :
               /\ E.vars[j].name = vs[j].name
               /\ Is(E.vars[j], "DWG") => Is(vs[j], "DWG")
               /\ Is(E.vars[j], "VALID") => /\ j \notin is /\ Is(vs[j], "VALID")
                                            /\ E.vars[j].storage = vs[j].storage
      BY <2>3, <2>4, DeregisteredVars
    <2>6. mcaVars' = E.vars /\ groups' = E.groups
      BY <2>2, <2>4, <2>12 DEF Deregister, Become
    <2>7. E.groups = gs
      BY <2>5
    <2>8. PICK ws \in Seq(VarRecords) : ws = E.vars
      BY <2>5
    <2>9. \A j \in DOMAIN ws : Is(ws[j], "VALID") /\ Is(ws[j], "DWG") => Backed(ws[j], j, gs, in)
      BY <2>1, <2>5, <2>8 DEF VarsOK, Backed
    <2>10. \A j \in DOMAIN ws : count[ws[j].name] >= 1
      BY <2>1, <2>5, <2>8 DEF VarsOK
    <2>11. VarsOK(ws, gs, count, in)
      BY <2>9, <2>10 DEF VarsOK
    <2>. QED
      BY <2>1, <2>6, <2>7, <2>8, <2>11
  <1>7. PICK more : more = registered'
    OBVIOUS
  <1>8. more = count /\ loaded' = in /\ count \in [VarNames -> Nat]
    BY <1>3, <1>4, <1>5, <1>7 DEF VarInv
  <1>. QED
    BY <1>6, <1>7, <1>8 DEF VarInv

LEMMA SameVarsOK ==
    ASSUME NEW vs, NEW ws, NEW gs, NEW count, NEW in, VarsOK(vs, gs, count, in), SameVars(vs, ws)
    PROVE  VarsOK(ws, gs, count, in)
  <1>1. \A j \in DOMAIN ws : Is(ws[j], "VALID") /\ Is(ws[j], "DWG") => Backed(ws[j], j, gs, in)
    BY DEF SameVars, VarsOK, Backed
  <1>2. \A j \in DOMAIN ws : count[ws[j].name] >= 1
    BY DEF SameVars, VarsOK
  <1>. QED
    BY <1>1, <1>2 DEF SameVars, VarsOK

LEMMA SetValueInv ==
    ASSUME VarInv, NEW i, NEW v, SetValue(i, v)
    PROVE  VarInv'
  <1>1. PICK vs : vs = mcaVars
    OBVIOUS
  <1>2. PICK o : o = Original(vs, i)
    OBVIOUS
  <1>3. PICK q : q = [vs[o] EXCEPT !.source = SET]
    OBVIOUS
  <1>4. PICK ws : ws = [vs EXCEPT ![o] = q]
    OBVIOUS
  <1>5. /\ mcaVars' = ws /\ groups' = groups /\ loaded' = loaded /\ registered' = registered
    BY <1>1, <1>2, <1>3, <1>4, Zenon DEF SetValue
  <1>6. ASSUME vs \in Seq(VarRecords)
        PROVE  SameVars(vs, ws)
    <2>1. ASSUME o \in DOMAIN vs
          PROVE  /\ q \in VarRecords /\ q.name = vs[o].name /\ q.storage = vs[o].storage
                 /\ Is(q, "VALID") <=> Is(vs[o], "VALID")
                 /\ Is(q, "DWG") <=> Is(vs[o], "DWG")
      <3>1. PICK r \in VarRecords : r = vs[o]
        BY <1>6, <2>1, ElementOfSeq
      <3>2. SET \in 0..5
        BY DEF SET
      <3>3. q \in VarRecords /\ q.name = r.name /\ q.storage = r.storage /\ q.flags = r.flags
        BY <1>3, <3>1, <3>2 DEF VarRecords
      <3>. QED
        BY <3>1, <3>3 DEF Is
    <2>. QED
      BY <1>4, <1>6, <2>1, EntryChanges
  <1>7. RegisteredOnce(registered) => GroupsOK(groups) /\ VarsOK(ws, groups, registered, loaded)
    <2>1. PICK gs : gs = groups
      OBVIOUS
    <2>2. PICK count : count = registered
      OBVIOUS
    <2>3. PICK in : in = loaded
      OBVIOUS
    <2>4. ASSUME RegisteredOnce(count) PROVE GroupsOK(gs) /\ VarsOK(ws, gs, count, in)
      <3>1. GroupsOK(gs) /\ VarsOK(vs, gs, count, in)
        BY <1>1, <2>1, <2>2, <2>3, <2>4 DEF VarInv
      <3>2. SameVars(vs, ws)
        BY <1>6, <3>1 DEF VarsOK
      <3>. QED
        BY <3>1, <3>2, SameVarsOK
    <2>. QED
      BY <2>1, <2>2, <2>3, <2>4
  <1>. QED
    BY <1>5, <1>7 DEF VarInv

LEMMA LockGroupInv ==
    ASSUME VarInv, NEW g, LockGroup(g)
    PROVE  VarInv'
  <1>1. PICK vs : vs = mcaVars
    OBVIOUS
  <1>2. PICK os : os = {Original(mcaVars, i) : i \in ToSet(groups[g].vars)}
    OBVIOUS
  <1>. DEFINE w(i) == IF i \notin os THEN vs[i] ELSE [vs[i] EXCEPT !.flags = @ \ {"SETTABLE"}]
  <1>3. PICK ws : ws = [i \in DOMAIN vs |-> w(i)]
    OBVIOUS
  <1>4. /\ mcaVars' = ws /\ groups' = groups /\ loaded' = loaded /\ registered' = registered
    BY <1>1, <1>2, <1>3, Zenon DEF LockGroup
  <1>5. ASSUME vs \in Seq(VarRecords)
        PROVE  SameVars(vs, ws)
    <2>1. ASSUME NEW i \in DOMAIN vs
          PROVE  /\ w(i) \in VarRecords /\ w(i).name = vs[i].name /\ w(i).storage = vs[i].storage
                 /\ Is(w(i), "VALID") <=> Is(vs[i], "VALID")
                 /\ Is(w(i), "DWG") <=> Is(vs[i], "DWG")
      <3>1. PICK r \in VarRecords : r = vs[i]
        BY <1>5, <2>1, ElementOfSeq
      <3>2. PICK fs : fs = r.flags \ {"SETTABLE"}
        OBVIOUS
      <3>3. r.flags \in SUBSET VarFlags
        BY DEF VarRecords
      <3>4. /\ fs \in SUBSET VarFlags /\ ("VALID" \in fs <=> "VALID" \in r.flags)
            /\ "DWG" \in fs <=> "DWG" \in r.flags
        BY <3>2, <3>3
      <3>5. PICK q : q = [r EXCEPT !.flags = fs]
        OBVIOUS
      <3>6. q \in VarRecords /\ q.name = r.name /\ q.storage = r.storage /\ q.flags = fs
        BY <3>4, <3>5 DEF VarRecords
      <3>7. w(i) = r \/ w(i) = q
        BY <3>1, <3>2, <3>5
      <3>. HIDE DEF w
      <3>. QED
        BY <3>1, <3>4, <3>6, <3>7 DEF Is
    <2>2. DOMAIN vs = 1..Len(vs) /\ Len(vs) \in Nat
      BY <1>5
    <2>. HIDE DEF w
    <2>3. ws \in [1..Len(vs) -> VarRecords] /\ \A i \in DOMAIN vs : ws[i] = w(i)
      BY <1>3, <2>1, <2>2
    <2>4. ws \in Seq(VarRecords) /\ DOMAIN ws = DOMAIN vs
      BY <2>2, <2>3
    <2>. QED
      BY <2>1, <2>3, <2>4 DEF SameVars
  <1>6. RegisteredOnce(registered) => GroupsOK(groups) /\ VarsOK(ws, groups, registered, loaded)
    <2>1. PICK gs : gs = groups
      OBVIOUS
    <2>2. PICK count : count = registered
      OBVIOUS
    <2>3. PICK in : in = loaded
      OBVIOUS
    <2>4. ASSUME RegisteredOnce(count) PROVE GroupsOK(gs) /\ VarsOK(ws, gs, count, in)
      <3>1. GroupsOK(gs) /\ VarsOK(vs, gs, count, in)
        BY <1>1, <2>1, <2>2, <2>3, <2>4 DEF VarInv
      <3>2. SameVars(vs, ws)
        BY <1>5, <3>1 DEF VarsOK
      <3>. QED
        BY <3>1, <3>2, SameVarsOK
    <2>. QED
      BY <2>1, <2>2, <2>3, <2>4
  <1>. QED
    BY <1>4, <1>6 DEF VarInv

LEMMA LoadComponentInv ==
    ASSUME VarInv, NEW c, LoadComponent(c)
    PROVE  VarInv'
  <1>1. /\ loaded' = loaded \cup {c} /\ mcaVars' = mcaVars /\ groups' = groups
        /\ registered' = registered
    BY DEF LoadComponent
  <1>2. RegisteredOnce(registered) =>
           GroupsOK(groups) /\ VarsOK(mcaVars, groups, registered, loaded \cup {c})
    <2>1. PICK vs : vs = mcaVars
      OBVIOUS
    <2>2. PICK gs : gs = groups
      OBVIOUS
    <2>3. PICK count : count = registered
      OBVIOUS
    <2>4. PICK in : in = loaded
      OBVIOUS
    <2>5. PICK out : out = in \cup {c}
      OBVIOUS
    <2>6. ASSUME RegisteredOnce(count) PROVE GroupsOK(gs) /\ VarsOK(vs, gs, count, out)
      <3>1. GroupsOK(gs) /\ VarsOK(vs, gs, count, in)
        BY <2>1, <2>2, <2>3, <2>4, <2>6 DEF VarInv
      <3>2. \A e \in VarComponents : e \in in => e \in out
        BY <2>5
      <3>. QED
        BY <3>1, <3>2, NothingLost
    <2>. QED
      BY <2>1, <2>2, <2>3, <2>4, <2>5, <2>6
  <1>. QED
    BY <1>1, <1>2 DEF VarInv

LEMMA NothingRegistered ==
    ASSUME NEW count, NEW in
    PROVE  GroupsOK(<<>>) /\ VarsOK(<<>>, <<>>, count, in)
  <1>1. <<>> \in Seq(GroupRecords) /\ <<>> \in Seq(VarRecords) /\ \A i : i \notin DOMAIN <<>>
    BY EmptySeq
  <1>. QED
    BY <1>1 DEF GroupsOK, VarsOK

LEMMA VarInitInv == VarInit => VarInv
  <1>. SUFFICES ASSUME VarInit PROVE VarInv
    OBVIOUS
  <1>1. mcaVars = <<>> /\ groups = <<>> /\ registered \in [VarNames -> Nat]
    BY DEF VarInit
  <1>. QED
    BY <1>1, NothingRegistered DEF VarInv

LEMMA FinalizeVarsInv ==
    ASSUME VarInv, FinalizeVars
    PROVE  VarInv'
  <1>1. mcaVars' = <<>> /\ groups' = <<>> /\ registered' = registered
    BY DEF FinalizeVars
  <1>2. registered' \in [VarNames -> Nat]
    BY <1>1 DEF VarInv
  <1>3. PICK count : count = registered'
    OBVIOUS
  <1>4. PICK in : in = loaded'
    OBVIOUS
  <1>5. GroupsOK(<<>>) /\ VarsOK(<<>>, <<>>, count, in)
    BY NothingRegistered
  <1>. QED
    BY <1>1, <1>2, <1>3, <1>4, <1>5 DEF VarInv

LEMMA VarNextInv == VarInv /\ [VarNext]_varVars => VarInv'
  <1>. SUFFICES ASSUME VarInv, [VarNext]_varVars PROVE VarInv'
    OBVIOUS
  <1>1. ASSUME NEW d \in Declarations, RegisterVar(d) PROVE VarInv'
    BY <1>1, RegisterVarInv
  <1>2. ASSUME NEW i \in DOMAIN mcaVars, Deregister(i) PROVE VarInv'
    BY <1>2, DeregisterInv
  <1>3. ASSUME NEW i \in DOMAIN mcaVars, NEW v \in SetValues[mcaVars[i].type], SetValue(i, v)
        PROVE  VarInv'
    BY <1>3, SetValueInv
  <1>4. ASSUME NEW g \in DOMAIN groups, LockGroup(g) PROVE VarInv'
    BY <1>4, LockGroupInv
  <1>5. ASSUME NEW c \in VarComponents, LoadComponent(c) PROVE VarInv'
    BY <1>5, LoadComponentInv
  <1>6. ASSUME NEW c \in VarComponents, UnloadComponent(c) PROVE VarInv'
    BY <1>6, UnloadComponentInv
  <1>7. ASSUME NEW f \in {FrameworkOf[c] : c \in VarComponents}, UnloadFramework(f) PROVE VarInv'
    BY <1>7, UnloadFrameworkInv
  <1>8. CASE FinalizeVars
    BY <1>8, FinalizeVarsInv
  <1>9. CASE UNCHANGED varVars
    BY <1>9 DEF varVars, VarInv
  <1>. QED
    BY <1>1, <1>2, <1>3, <1>4, <1>5, <1>6, <1>7, <1>8, <1>9 DEF VarNext

\* A variable that goes with its group and can be used (it is VALID) stands for
\* storage of a component that is in memory, whatever was registered,
\* deregistered, locked, set, loaded and unloaded in between, as long as no name
\* was registered twice: ocoms_mca_base_var_group_deregister, called when a
\* component or a framework is unloaded, finds every such variable.  For any
\* components, frameworks, declarations and settings.
THEOREM StorageStays == VarSpec => []FirstStorageIsLoaded
  <1>1. VarInv => FirstStorageIsLoaded
    <2>. SUFFICES ASSUME VarInv, RegisteredOnce(registered), NEW i \in DOMAIN mcaVars,
                         Is(mcaVars[i], "VALID"), Is(mcaVars[i], "DWG")
                  PROVE  mcaVars[i].storage[1].owner \in loaded
      BY DEF FirstStorageIsLoaded, StorageIsLoaded, RegisteredOnce
    <2>. QED
      BY DEF VarInv, VarsOK, Backed
  <1>. QED
    BY <1>1, VarInitInv, VarNextInv, PTL DEF VarSpec

=============================================================================
