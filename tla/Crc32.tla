------------------------------- MODULE Crc32 --------------------------------
(***************************************************************************)
(* crc32 of common/crc32.cpp: the reflected CRC, eight bytes at a time from *)
(* eight tables, then byte by byte.  A byte has ByteBits bits and the CRC  *)
(* four bytes, as in the code, where ByteBits is 8.  A byte or a word is   *)
(* the set of the positions of its ones, the least significant bit at 0.   *)
(***************************************************************************)
EXTENDS Integers, Sequences

CONSTANTS
  ByteBits,      \* the width of a byte (8 in the code)
  Polynomial,    \* kCrc32Polynomial, at that width
  MaxMessage     \* bound: the length of a message

Bits == 0 .. 4 * ByteBits - 1
Words == SUBSET Bits
Bytes == SUBSET (0 .. ByteBits - 1)

ASSUME CrcAssumption ==
  /\ ByteBits \in Nat \ {0}
  /\ Polynomial \in Words
  /\ MaxMessage \in Nat

VARIABLE message    \* the bytes whose CRC is taken

x \oplus y == (x \ y) \cup (y \ x)

ShiftRight(x, n) == {i \in Bits : i + n \in x}
Drop(x, n) == ShiftRight(x, n * ByteBits)                 \* n bytes shifted out
Place(byte, n) == {i \in Bits : i - n * ByteBits \in byte} \* as byte n of a word
Low(x) == {i \in x : i < ByteBits}

BitStep(crc) == ShiftRight(crc, 1) \oplus (IF 0 \in crc THEN Polynomial ELSE {})

ByteStep(crc) ==
  LET after[n \in 0 .. ByteBits] == IF n = 0 THEN crc ELSE BitStep(after[n - 1])
  IN  after[ByteBits]

FirstTable == [byte \in Bytes |-> ByteStep(byte)]

\* Definitions named Variant_... are plausible mistakes, for checking that
\* the properties would notice them; no specification uses one.
Variant_NextEntry_unshifted(entry) == entry \oplus FirstTable[Low(entry)]

NextEntry(entry) == Drop(entry, 1) \oplus FirstTable[Low(entry)]

\* make_tables.
kTables ==
  LET t[k \in 0 .. 7] == IF k = 0 THEN FirstTable
                     ELSE [byte \in Bytes |-> NextEntry(t[k - 1][byte])]
  IN  t

\* One round of the first loop, on the eight bytes after p.
EightBytes(crc, p) ==
  LET lo == crc \oplus (message[p + 1] \cup Place(message[p + 2], 1)
                          \cup Place(message[p + 3], 2) \cup Place(message[p + 4], 3))
      low(k) == kTables[7 - k][Low(Drop(lo, k))]
      high(k) == kTables[7 - k][message[p + k + 1]]
  IN  low(0) \oplus low(1) \oplus low(2) \oplus low(3)
        \oplus high(4) \oplus high(5) \oplus high(6) \oplus high(7)

OneByte(crc, p) ==
  Drop(crc, 1) \oplus kTables[0][Low(crc \oplus message[p + 1])]

\* The two loops of crc32.
Rounds == Len(message) \div 8

AfterRounds ==
  LET after[r \in 0 .. Rounds] ==
        IF r = 0 THEN Bits ELSE EightBytes(after[r - 1], 8 * (r - 1))
  IN  after[Rounds]

crc32 ==
  LET after[n \in 0 .. Len(message) - 8 * Rounds] ==
        IF n = 0 THEN AfterRounds ELSE OneByte(after[n - 1], 8 * Rounds + n - 1)
  IN  Bits \ after[Len(message) - 8 * Rounds]

AppendByte ==
  /\ Len(message) < MaxMessage
  /\ \E byte \in Bytes : message' = Append(message, byte)

CrcSpec == message = << >> /\ [][AppendByte]_message
-----------------------------------------------------------------------------
\* The definition of the CRC: one bit of the message after the other.
AfterBytes ==
  LET after[p \in 0 .. Len(message)] ==
        IF p = 0 THEN Bits ELSE ByteStep(after[p - 1] \oplus message[p])
  IN  after

\* The eight tables give what the bit by bit definition gives, for messages of
\* every length: whole rounds of eight, a rest, and both.
CrcIsBitwise == crc32 = Bits \ AfterBytes[Len(message)]
=============================================================================
