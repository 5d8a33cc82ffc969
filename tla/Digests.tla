------------------------------ MODULE Digests ------------------------------
(***************************************************************************)
(* The digests of crc32.c, and of md5.c the division of the data into      *)
(* chunks and their padding; what the 64 rounds do to the sum is left to   *)
(* the constant Compress.  A 32-bit word is the set of its bits that are   *)
(* set, so that exclusive or is the symmetric difference.                  *)
(***************************************************************************)
EXTENDS Integers, Sequences, FiniteSetsExt

CONSTANT Compress(_, _),    \* the sum and a chunk of 64 bytes: the next sum
         Sum0               \* a0, b0, c0, d0 at the start

Xor(a, b) == (a \ b) \cup (b \ a)
ShiftRight(a, n) == {i - n : i \in {j \in a : j >= n}}
Bits(byte) == {i \in 0..7 : (byte \div 2^i) % 2 = 1}
Byte(bits) == MapThenSumSet(LAMBDA i : 2^i, bits)
\* The four bytes of a word in memory, the lowest first.
WordBytes(a) == [i \in 1..4 |-> Byte({j \in 0..7 : 8 * (i - 1) + j \in a})]

\* 0xedb88320 and 0xffffffff
Polynomial == {5, 8, 9, 15, 19, 20, 21, 23, 24, 26, 27, 29, 30, 31}
Ones == 0..31

\* digest_crc32_init: one bit of an entry is worked off.
TableStep(c) == IF 0 \in c THEN Xor(Polynomial, ShiftRight(c, 1)) ELSE ShiftRight(c, 1)

crc32_table ==
    LET entry(i) == LET c[n \in 0..8] == IF n = 0 THEN Bits(i) ELSE TableStep(c[n - 1]) IN c[8]
    IN [i \in 0..255 |-> entry(i)]

Crc32Step(c, byte) == Xor(ShiftRight(c, 8), crc32_table[Byte(Xor(c, Bits(byte)) \cap 0..7)])

\* digest_crc32_calc
Crc32(data) ==
    LET c[n \in 0..Len(data)] == IF n = 0 THEN Ones ELSE Crc32Step(c[n - 1], data[n])
    IN WordBytes(Xor(c[Len(data)], Ones))

------------------------------------------------------------------------------
\* Mutant: room for the one bit is not counted.
ChunksShort(len) == (len + 8 + 63) \div 64

\* The number of chunks: the data, a one bit, and the length in eight bytes.
Chunks(len) == (len + 8 + 64) \div 64

\* Chunk k (from 0) of the data, of which rest bytes are left.
Chunk(data, k) ==
    LET rest == Len(data) - 64 * k
        bits == 8 * Len(data)
        at(i) == CASE i < rest                              -> data[64 * k + i + 1]
                   [] i = rest                              -> 128
                   [] rest < 56 /\ i \in 56..59              -> (bits \div 256^(i - 56)) % 256
                   [] OTHER                                 -> 0
    IN [i \in 1..64 |-> at(i - 1)]

\* digest_md5_calc
Md5(data) ==
    LET sum[k \in 0..Chunks(Len(data))] ==
          IF k = 0 THEN Sum0 ELSE Compress(sum[k - 1], Chunk(data, k - 1))
    IN sum[Chunks(Len(data))]
=============================================================================
