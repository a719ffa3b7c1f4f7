------------------------------- MODULE Bitmap -------------------------------
(***************************************************************************)
(* ocoms_bitmap_t (ocoms/util/ocoms_bitmap.c): a set of small numbers in an *)
(* array of bytes that grows with the numbers that are set.  malloc and    *)
(* realloc may fail, and then the array is gone.                           *)
(***************************************************************************)
EXTENDS Integers, Sequences, FiniteSets, FiniteSetsExt

CONSTANTS Bitmaps,
          CharBits,     \* SIZE_OF_CHAR, 8
          INT_MAX,      \* max_size of a bitmap whose caller sets none
          BitBound      \* bound on the bits that are set, and on the sizes

VARIABLES bytes,        \* bm->bitmap, <<>> when it is NULL
          array_size, max_size,
          members       \* history: the numbers that were set

bitmapVars == <<bytes, array_size, max_size, members>>

\* ocoms_bitmap_construct
BitmapInit ==
    /\ bytes = [b \in Bitmaps |-> <<>>]
    /\ array_size = [b \in Bitmaps |-> 0]
    /\ max_size = [b \in Bitmaps |-> INT_MAX]
    /\ members = [b \in Bitmaps |-> {}]

Allocated(b) == bytes[b] # <<>>
Zeros(n) == [i \in 1..n |-> 0]
AllOnes == 2^CharBits - 1
BytesFor(bits) == bits \div CharBits + (IF bits % CharBits = 0 THEN 0 ELSE 1)

BitsOf(byte) == {k \in 0..(CharBits - 1) : (byte \div 2^k) % 2 = 1}
ByteOf(bits) == MapThenSumSet(LAMBDA k : 2^k, bits)
Or(x, y) == ByteOf(BitsOf(x) \cup BitsOf(y))
AndNot(x, y) == ByteOf(BitsOf(x) \ BitsOf(y))

\* ocoms_bitmap_is_set_bit
IsSetBit(b, bit) ==
    /\ bit < array_size[b] * CharBits
    /\ (bit % CharBits) \in BitsOf(bytes[b][bit \div CharBits + 1])

-----------------------------------------------------------------------------
\* ocoms_bitmap_set_max_size: a number of bits, kept as a number of bytes
SetMaxSize(b, bits) ==
    /\ max_size' = [max_size EXCEPT ![b] = BytesFor(bits)]
    /\ UNCHANGED <<bytes, array_size, members>>

\* ocoms_bitmap_init, where max_size is taken for a number of bits
InitBits(b, size) ==
    /\ ~Allocated(b)
    /\ size > 0 /\ size <= max_size[b]
    /\ array_size' = [array_size EXCEPT ![b] = BytesFor(size)]
    /\ members' = [members EXCEPT ![b] = {}]
    /\ UNCHANGED max_size
    /\ \/ bytes' = [bytes EXCEPT ![b] = Zeros(BytesFor(size))]
       \/ UNCHANGED bytes

\* Mutant: grows by the number of bytes the index is beyond.
SizeForExactly(b, index) == index

\* The next multiple of array_size that has the index.
SizeFor(b, index) ==
    IF index >= array_size[b] THEN (index \div array_size[b] + 1) * array_size[b]
    ELSE array_size[b]

\* ocoms_bitmap_set_bit, which clears what the array grows by
SetBit(b, bit) ==
    LET index == bit \div CharBits
        size == SizeFor(b, index)
        grown == bytes[b] \o Zeros(size - array_size[b]) IN
    /\ Allocated(b) /\ bit >= 0 /\ bit <= max_size[b] /\ bit <= BitBound
    /\ UNCHANGED max_size
    /\ \/ /\ bytes' = [bytes EXCEPT ![b] =
                          [grown EXCEPT ![index + 1] = Or(@, 2^(bit % CharBits))]]
          /\ array_size' = [array_size EXCEPT ![b] = size]
          /\ members' = [members EXCEPT ![b] = @ \cup {bit}]
       \/ /\ size > array_size[b]
          /\ bytes' = [bytes EXCEPT ![b] = <<>>]
          /\ UNCHANGED <<array_size, members>>

\* ocoms_bitmap_clear_bit
ClearBit(b, bit) ==
    LET index == bit \div CharBits IN
    /\ Allocated(b) /\ bit < array_size[b] * CharBits
    /\ bytes' = [bytes EXCEPT ![b][index + 1] = AndNot(@, 2^(bit % CharBits))]
    /\ members' = [members EXCEPT ![b] = @ \ {bit}]
    /\ UNCHANGED <<array_size, max_size>>

\* ocoms_bitmap_clear_all_bits and ocoms_bitmap_set_all_bits
ClearAllBits(b) ==
    /\ Allocated(b)
    /\ bytes' = [bytes EXCEPT ![b] = Zeros(array_size[b])]
    /\ members' = [members EXCEPT ![b] = {}]
    /\ UNCHANGED <<array_size, max_size>>

SetAllBits(b) ==
    /\ Allocated(b)
    /\ bytes' = [bytes EXCEPT ![b] = [i \in 1..array_size[b] |-> AllOnes]]
    /\ members' = [members EXCEPT ![b] = 0..(array_size[b] * CharBits - 1)]
    /\ UNCHANGED <<array_size, max_size>>

\* Mutant: the byte is shifted before it is written back.
WithLowestSetTwice(byte) == Or(byte, byte + 2)

\* temp |= temp + 1: the lowest bit that is not set
WithLowestSet(byte) == Or(byte, byte + 1)

\* ocoms_bitmap_find_and_set_first_unset_bit
FindAndSetFirstUnsetBit(b) ==
    LET open == {i \in DOMAIN bytes[b] : bytes[b][i] # AllOnes} IN
    /\ Allocated(b)
    /\ IF open = {} THEN SetBit(b, array_size[b] * CharBits)
       ELSE /\ bytes' = [bytes EXCEPT ![b][Min(open)] = WithLowestSet(@)]
            /\ members' = [members EXCEPT ![b] =
                  @ \cup {Min((0..(array_size[b] * CharBits)) \ @)}]
            /\ UNCHANGED <<array_size, max_size>>

\* ocoms_bitmap_copy, whose malloc is not checked
BitmapCopy(dest, src) ==
    /\ dest # src /\ Allocated(src)
    /\ bytes' = [bytes EXCEPT ![dest] = bytes[src]]
    /\ array_size' = [array_size EXCEPT ![dest] = array_size[src]]
    /\ members' = [members EXCEPT ![dest] = members[src]]
    /\ UNCHANGED max_size

BitmapNext ==
    \E b \in Bitmaps :
       \/ \E n \in 1..BitBound : SetMaxSize(b, n) \/ InitBits(b, n)
       \/ \E bit \in 0..BitBound : SetBit(b, bit) \/ ClearBit(b, bit)
       \/ ClearAllBits(b) \/ SetAllBits(b) \/ FindAndSetFirstUnsetBit(b)
       \/ \E src \in Bitmaps : BitmapCopy(b, src)

BitmapSpec == BitmapInit /\ [][BitmapNext]_bitmapVars

-----------------------------------------------------------------------------
\* A bitmap that has its array holds exactly the numbers that were set and not
\* cleared: growing the array sets and loses none, a search for an unset bit
\* sets the first one, within a byte, in a later byte and beyond the array.
BitmapHoldsMembers ==
    \A b \in Bitmaps : Allocated(b) =>
       /\ Len(bytes[b]) = array_size[b]
       /\ \A bit \in 0..(array_size[b] * CharBits) : IsSetBit(b, bit) <=> bit \in members[b]
       /\ members[b] \subseteq 0..(array_size[b] * CharBits - 1)

=============================================================================
