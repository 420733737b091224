----------------------------- MODULE SparseMemory -----------------------------
(***************************************************************************)
(* SparseMemory (ElfImage.cc): main memory as a table of 32-bit words in   *)
(* which a word that was never written reads as zero.  A table is a        *)
(* function from word indices to words, a word a function from its four    *)
(* byte lanes to bytes.                                                    *)
(***************************************************************************)
EXTENDS Integers, FiniteSets

CONSTANTS
    AddressSpace,  \* 2^32 in the code
    ByteBase,      \* 256 in the code
    WordLimit      \* kRamSize / 4: the words a checkpoint may hold

ASSUME MemoryAssumption ==
    /\ AddressSpace \in Nat /\ AddressSpace >= 8 /\ AddressSpace % 8 = 0
    /\ ByteBase \in Nat /\ ByteBase >= 2
    /\ WordLimit \in Nat

Byte == 0..(ByteBase - 1)
Lanes == 0..3
ZeroWord == [lane \in Lanes |-> 0]
Address == 0..(AddressSpace - 1)
\* Address arithmetic is that of uint32_t.
Wrap(address) == address % AddressSpace

Find(words, index) == IF index \in DOMAIN words THEN words[index] ELSE ZeroWord

read8(words, address) == Find(words, address \div 4)[address % 4]

\* Mutant: a word that straddles two entries is read from the first.
Fault_read32(words, address) ==
    [byte \in 0..3 |-> Find(words, address \div 4)[(address + byte) % 4]]
\* The bytes of a word or a double word at any address, byte 0 the lowest.
read32(words, address) ==
    IF address % 4 = 0 THEN Find(words, address \div 4)
    ELSE [byte \in 0..3 |-> read8(words, Wrap(address + byte))]
read64(words, address) ==
    IF address % 8 = 0
    THEN [byte \in 0..7 |-> IF byte < 4 THEN read32(words, address)[byte]
                            ELSE read32(words, address + 4)[byte - 4]]
    ELSE [byte \in 0..7 |-> read8(words, Wrap(address + byte))]

write8(words, address, value) ==
    [index \in DOMAIN words \cup {address \div 4} |->
       IF index = address \div 4 THEN [Find(words, index) EXCEPT ![address % 4] = value]
       ELSE words[index]]

\* The loop of write8 over the bytes k < size that have a strobe.
WriteBytes(words, address, bytes, size, strobe) ==
    LET After[n \in 0..size] ==
          IF n = 0 THEN words
          ELSE IF n - 1 \in strobe THEN write8(After[n - 1], Wrap(address + n - 1), bytes[n - 1])
          ELSE After[n - 1]
    IN  After[size]

\* Mutant: bytes without a strobe are written too.
Fault_write32(words, address, bytes, strobe) ==
    IF address % 4 = 0
    THEN [index \in DOMAIN words \cup {address \div 4} |->
            IF index = address \div 4 THEN bytes ELSE words[index]]
    ELSE WriteBytes(words, address, bytes, 4, strobe)
\* An aligned write makes an entry of its word even without any strobe.
write32(words, address, bytes, strobe) ==
    IF address % 4 = 0
    THEN [index \in DOMAIN words \cup {address \div 4} |->
            IF index = address \div 4
            THEN [lane \in Lanes |-> IF lane \in strobe THEN bytes[lane]
                                     ELSE Find(words, index)[lane]]
            ELSE words[index]]
    ELSE WriteBytes(words, address, bytes, 4, strobe)

write64(words, address, bytes, strobe) == WriteBytes(words, address, bytes, 8, strobe)

load(words, address, data, size) == WriteBytes(words, address, data, size, 0..(size - 1))

\* Mutant: a table of as many words as RAM has is refused.
Fault_Restorable(words) == Cardinality(DOMAIN words) < WordLimit
\* What save writes and restore accepts: a count and as many words.
Restorable(words) == Cardinality(DOMAIN words) <= WordLimit
=============================================================================
