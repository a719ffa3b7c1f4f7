-------------------------------- MODULE Csum --------------------------------
(***************************************************************************)
(* Checksums and CRCs that are computed in several calls, with or without  *)
(* copying (ocoms/util/crc.c).  A checksum is the sum of the words of the  *)
(* data; between calls the word that is not yet complete, and the number   *)
(* of its bytes, are handed back to the caller.  The branches for aligned  *)
(* and unaligned buffers differ only in how a word is fetched and stored,  *)
(* and are one case here; the bytes that are copied are left out.  A byte  *)
(* has ByteBits bits, a long and an int SizeOf["csum"] and                 *)
(* SizeOf["uicsum"] bytes.                                                 *)
(***************************************************************************)
EXTENDS Integers, Sequences, SequencesExt, Bitwise

CONSTANTS ByteBits,
          Bytes,            \* the bytes data is made of
          SizeOf,           \* routine -> bytes in a word
          CRC_POLYNOMIAL, CRC_INITIAL_REGISTER,
          MaxPiece,         \* bound on the bytes of a call
          MaxBytes          \* bound on the bytes of all calls

VARIABLES routine,      \* "csum", "uicsum" or "crc"
          partial,      \* [csum, last, length]: the sum so far, lastPartialLong and lastPartialLength
          crc,          \* partial_crc
          fed           \* the bytes that were summed

csumVars == <<routine, partial, crc, fed>>

Base == 2 ^ ByteBits
Modulus(size) == Base ^ size
Zero(size) == [i \in 1..size |-> 0]

\* A word in memory has its least significant byte first.
Value(word) == FoldRight(LAMBDA byte, value : byte + Base * value, word, 0)

\* memcpy into a word that is zero but for what was copied before
Overwrite(word, offset, bytes) ==
    [i \in DOMAIN word |-> IF i > offset /\ i <= offset + Len(bytes) THEN bytes[i - offset] ELSE word[i]]

From(bytes, i) == SubSeq(bytes, i, Len(bytes))

\* The sum of the whole words, and the bytes behind them
WholeWords(size, bytes) ==
    LET n == Len(bytes) \div size
        word(k) == SubSeq(bytes, (k - 1) * size + 1, k * size) IN
    [sum |-> FoldLeft(LAMBDA acc, k : acc + Value(word(k)), 0, [k \in 1..n |-> k]),
     rest |-> From(bytes, n * size + 1)]

\* temp - *lastPartialLong is added, and wraps.
Grown(size, s, temp, more) == (s.csum + Value(temp) - Value(s.last) + more) % Modulus(size)

\* Mutant: the partial word is not cleared when it has been completed.
ConsumeStale(size, s, bytes) ==
    LET need == size - s.length
        temp == Overwrite(s.last, s.length, SubSeq(bytes, 1, need))
        words == WholeWords(size, From(bytes, need + 1))
        whole == WholeWords(size, bytes) IN
    IF s.length = 0
    THEN [s |-> [csum |-> (s.csum + whole.sum) % Modulus(size), last |-> Zero(size), length |-> 0],
          rest |-> whole.rest]
    ELSE IF Len(bytes) >= need
    THEN [s |-> [csum |-> Grown(size, s, temp, words.sum), last |-> temp, length |-> 0],
          rest |-> words.rest]
    ELSE [s |-> [csum |-> Grown(size, s, Overwrite(s.last, s.length, bytes), 0),
                 last |-> Overwrite(s.last, s.length, bytes), length |-> s.length + Len(bytes)],
          rest |-> <<>>]

\* The four alignment cases: a partial word is completed, if there is enough for
\* it, and the whole words that follow are summed.
Consume(size, s, bytes) ==
    LET need == size - s.length
        temp == Overwrite(s.last, s.length, SubSeq(bytes, 1, need))
        words == WholeWords(size, From(bytes, need + 1))
        whole == WholeWords(size, bytes) IN
    IF s.length = 0
    THEN [s |-> [csum |-> (s.csum + whole.sum) % Modulus(size), last |-> Zero(size), length |-> 0],
          rest |-> whole.rest]
    ELSE IF Len(bytes) >= need
    THEN [s |-> [csum |-> Grown(size, s, temp, words.sum), last |-> Zero(size), length |-> 0],
          rest |-> words.rest]
    ELSE [s |-> [csum |-> Grown(size, s, Overwrite(s.last, s.length, bytes), 0),
                 last |-> Overwrite(s.last, s.length, bytes), length |-> s.length + Len(bytes)],
          rest |-> <<>>]

\* "A bit left, less than an unsigned long's worth": the next partial word.  There
\* is none before it, since bytes are only left when whole words were summed.
TakeRest(size, s, rest) ==
    LET temp == Overwrite(s.last, 0, rest) IN
    IF rest = <<>> THEN s
    ELSE [csum |-> (s.csum + Value(temp)) % Modulus(size), last |-> temp, length |-> Len(rest)]

\* The bytes that are summed and not copied, behind those that were copied and
\* not yet summed
TakeResidue(size, s, rest, residue) ==
    LET bytes == rest \o residue
        need == size - s.length
        temp == Overwrite(s.last, s.length, SubSeq(bytes, 1, need))
        words == WholeWords(size, From(bytes, need + 1))
        next == Overwrite(Zero(size), 0, words.rest)
        full == Grown(size, s, temp, words.sum) IN
    IF Len(residue) < size - Len(rest) - s.length
    THEN [csum |-> Grown(size, s, Overwrite(s.last, s.length, bytes), 0),
          last |-> Overwrite(s.last, s.length, bytes), length |-> s.length + Len(bytes)]
    ELSE [csum |-> (full + Value(next)) % Modulus(size), last |-> next, length |-> Len(words.rest)]

Bcopied(size, s, bytes, copylen) ==
    LET done == Consume(size, s, SubSeq(bytes, 1, copylen)) IN
    IF copylen < Len(bytes) THEN TakeResidue(size, done.s, done.rest, From(bytes, copylen + 1))
    ELSE TakeRest(size, done.s, done.rest)

\* ocoms_bcopy_csum_partial and ocoms_bcopy_uicsum_partial: longs and ints
BcopyCsumPartial(s, bytes, copylen) == Bcopied(SizeOf["csum"], s, bytes, copylen)
BcopyUicsumPartial(s, bytes, copylen) == Bcopied(SizeOf["uicsum"], s, bytes, copylen)

\* ocoms_csum_partial and ocoms_uicsum_partial: all the bytes are taken as the
\* copied ones are.
CsumPartial(s, bytes) == Bcopied(SizeOf["csum"], s, bytes, Len(bytes))
UicsumPartial(s, bytes) == Bcopied(SizeOf["uicsum"], s, bytes, Len(bytes))

-----------------------------------------------------------------------------
RegisterBits == ByteBits * SizeOf["crc"]
Shifted(r, bits) == (r * 2 ^ bits) % 2 ^ RegisterBits
TopBit(r) == r \div 2 ^ (RegisterBits - 1)

\* ocoms_initialize_crc_table
CrcTable ==
    LET bits[i \in 0..(Base - 1), j \in 0..ByteBits] ==
            IF j = 0 THEN i * 2 ^ (RegisterBits - ByteBits)
            ELSE LET accum == bits[i, j - 1] IN
                 IF TopBit(accum) = 1 THEN Shifted(accum, 1) ^^ CRC_POLYNOMIAL ELSE Shifted(accum, 1) IN
    [i \in 0..(Base - 1) |-> bits[i, ByteBits]]

\* Mutant: the byte is not combined with the register before the table is used.
CrcByteAlone(r, byte) == Shifted(r, ByteBits) ^^ CrcTable[byte]

\* A byte of ocoms_uicrc_partial
CrcByte(r, byte) ==
    Shifted(r, ByteBits) ^^ CrcTable[(r \div 2 ^ (RegisterBits - ByteBits)) ^^ byte]

\* ocoms_uicrc_partial
UicrcPartial(r, bytes) == FoldLeft(CrcByte, r, bytes)

\* ocoms_bcopy_uicrc_partial: the bytes that are copied, then the others
BcopyUicrcPartial(r, bytes, copylen) ==
    FoldLeft(CrcByte, FoldLeft(CrcByte, r, SubSeq(bytes, 1, copylen)), From(bytes, copylen + 1))

-----------------------------------------------------------------------------
\* ocoms_bcopy_csum and its like begin with no partial word.
CsumInit ==
    /\ routine \in DOMAIN SizeOf
    /\ partial = [csum |-> 0, last |-> Zero(SizeOf[routine]), length |-> 0]
    /\ crc = CRC_INITIAL_REGISTER
    /\ fed = <<>>

\* A call that copies copylen of the bytes and sums them all
Bcopy(bytes, copylen) ==
    /\ partial' = CASE routine = "csum" -> BcopyCsumPartial(partial, bytes, copylen)
                    [] routine = "uicsum" -> BcopyUicsumPartial(partial, bytes, copylen)
                    [] OTHER -> partial
    /\ crc' = IF routine = "crc" THEN BcopyUicrcPartial(crc, bytes, copylen) ELSE crc
    /\ fed' = fed \o bytes
    /\ UNCHANGED routine

\* A call that only sums
Sum(bytes) ==
    /\ partial' = CASE routine = "csum" -> CsumPartial(partial, bytes)
                    [] routine = "uicsum" -> UicsumPartial(partial, bytes)
                    [] OTHER -> partial
    /\ crc' = IF routine = "crc" THEN UicrcPartial(crc, bytes) ELSE crc
    /\ fed' = fed \o bytes
    /\ UNCHANGED routine

CsumNext ==
    \E bytes \in BoundedSeq(Bytes, MaxPiece) :
       /\ Len(fed) + Len(bytes) <= MaxBytes
       /\ Sum(bytes) \/ \E copylen \in 0..Len(bytes) : Bcopy(bytes, copylen)

CsumSpec == CsumInit /\ [][CsumNext]_csumVars

\* The CRC of a string, a bit at a time from the most significant one
CrcOf(bytes) ==
    LET bit(byte, k) == (byte \div 2 ^ (ByteBits - k)) % 2
        step(r, b) == IF TopBit(r) # b THEN Shifted(r, 1) ^^ CRC_POLYNOMIAL ELSE Shifted(r, 1) IN
    FoldLeft(LAMBDA r, byte : FoldLeft(LAMBDA q, k : step(q, bit(byte, k)), r, [k \in 1..ByteBits |-> k]),
             CRC_INITIAL_REGISTER, bytes)

\* However the data was cut into calls, whatever part of it each copied, and
\* wherever the words began: the sum of the calls is the sum of the words of all
\* the data, the last one filled with zeros, and the CRC that of all the data.
PartialCallsCompose ==
    IF routine = "crc" THEN crc = CrcOf(fed)
    ELSE LET size == SizeOf[routine]
             padded == fed \o Zero((size - (Len(fed) % size)) % size) IN
         partial.csum = WholeWords(size, padded).sum % Modulus(size)
=============================================================================
